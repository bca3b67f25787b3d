----------------------------- MODULE TopUpProofs -----------------------------
(***************************************************************************)
(* Proofs about the top-up page, for any prices, limits, codes, plans and  *)
(* services and any number of calls: a plan is given no more often than    *)
(* its limit, whatever the user and the answers do; and for a user who     *)
(* waits for the page, an order costs what the dialog showed and the page  *)
(* at rest shows what the server holds.                                    *)
(***************************************************************************)
EXTENDS TopUp, TLAPS, SequenceTheorems

\* The records of the page, of its calls and of their answers.
PrefSet == Prefs \cup {"subscription_first"}
Balances == [quota : Nat, aff : Nat]
Standings == [pref : PrefSet, subs : [Plans -> Nat]]
Reply(D) == {None, Refusal, Lost} \cup [ok : {TRUE}, lost : {FALSE}, data : D]
PayWays == Ways \cup {"alipay", "waffo", "creem", None}
Seens == [way : PayWays, count : Counts \cup {None}, amount : Nat]

SelfCalls == [what : {"self"}, answer : Reply(Balances)]
InfoCalls == [what : {"info"}, answer : Reply({None})]
SubsCalls == [what : {"subs"}, answer : Reply(Standings)]
TransferCalls == [what : {"transfer"}, answer : Reply({None})]
AmountCalls == [what : {"amount"}, answer : Reply(Nat), way : PayWays, count : Counts,
                then : {"show", "open", "pay"}, seen : Seens]
PayCalls == [what : {"pay"}, answer : Reply({None}), way : PayWays,
             count : Counts \cup {None}, seen : Seens]
RedeemCalls == [what : {"redeem"}, answer : Reply(Nat), code : Codes, was : Nat]
PrefCalls == [what : {"pref"}, answer : Reply(PrefSet), pref : PrefSet, was : PrefSet]
BuyCalls == [what : {"buy"}, answer : Reply({None}), plan : Plans]
CallRecords == SelfCalls \cup InfoCalls \cup SubsCalls \cup TransferCalls \cup AmountCalls
                 \cup PayCalls \cup RedeemCalls \cup PrefCalls \cup BuyCalls

PageRecords ==
  [ready : BOOLEAN, count : Counts, min : Counts, amount : Nat,
   preset : Counts \cup {None}, payWay : Ways \cup {None}, paying : BOOLEAN,
   open : BOOLEAN, confirming : BOOLEAN, creemOpen : BOOLEAN, creem : Counts \cup {None},
   code : Codes \cup {None}, submitting : BOOLEAN, transferOpen : BOOLEAN]
OrderRecords == [way : PayWays, count : Counts \cup {None}, seen : Seens]

\* Every variable keeps its type, and a plan its limit.
Types ==
  /\ page \in PageRecords
  /\ account \in [quota : Nat, aff : Nat, pref : PrefSet, subs : [Plans -> Nat]]
  /\ buy \in [plan : Plans \cup {None}, paying : BOOLEAN, refreshing : BOOLEAN]
  /\ server \in [quota : Nat, aff : Nat, pref : PrefSet, codes : SUBSET Codes,
                 subs : [Plans -> 0..PlanLimit], pending : Seq(Plans)]
  /\ orders \in Seq(OrderRecords)
  /\ calls \in Seq(CallRecords)

\* What the constants are in the code: amounts, prices and limits are numbers, the least amounts
\* can be typed, and the mark of an unanswered call is no answer.
PageAssumption ==
  /\ Counts \subseteq Nat
  /\ {1, MinTopUp, StripeMinTopUp, WaffoMinTopUp} \subseteq Counts
  /\ Price \in Nat /\ StripeUnitPrice \in Nat /\ TopupGroupRatio \in Nat
  /\ AmountDiscount \in [Counts -> Nat]
  /\ PlanLimit \in Nat
  /\ \A d : None # Success(d)
  /\ None # Refusal

-----------------------------------------------------------------------------
(* Sequences of calls.                                                     *)

\* RemoveAt drops one call and keeps the others.
LEMMA Removed ==
  ASSUME NEW S, NEW s \in Seq(S), NEW c \in DOMAIN s
  PROVE  /\ RemoveAt(s, c) \in Seq(S)
         /\ Len(RemoveAt(s, c)) = Len(s) - 1
         /\ \A k \in DOMAIN RemoveAt(s, c) : \E j \in DOMAIN s : j # c /\ RemoveAt(s, c)[k] = s[j]
         /\ \A j \in DOMAIN s : j # c => \E k \in DOMAIN RemoveAt(s, c) : RemoveAt(s, c)[k] = s[j]
<1>1. c \in 1..Len(s) /\ Len(s) \in Nat /\ DOMAIN s = 1..Len(s)
  OBVIOUS
<1> DEFINE a == SubSeq(s, 1, c - 1)
           b == SubSeq(s, c + 1, Len(s))
<1>2. a \in Seq(S) /\ Len(a) = c - 1 /\ \A k \in 1..(c - 1) : a[k] = s[k]
  BY <1>1
<1>3. b \in Seq(S) /\ Len(b) = Len(s) - c /\ \A k \in 1..(Len(s) - c) : b[k] = s[k + c]
  BY <1>1
<1>4. RemoveAt(s, c) = a \o b
  BY DEF RemoveAt
<1> HIDE DEF a, b
<1>5. /\ a \o b \in Seq(S) /\ Len(a \o b) = Len(a) + Len(b)
      /\ \A k \in 1..(Len(a) + Len(b)) : (a \o b)[k] = IF k <= Len(a) THEN a[k] ELSE b[k - Len(a)]
  BY <1>2, <1>3, ConcatProperties
<1>6. Len(a) + Len(b) = Len(s) - 1
  BY <1>1, <1>2, <1>3
<1>9. DOMAIN (a \o b) = 1..(Len(s) - 1)
  BY <1>5, <1>6
<1>7. ASSUME NEW k \in 1..(Len(s) - 1)
      PROVE  \E j \in DOMAIN s : j # c /\ (a \o b)[k] = s[j]
  <2>1. CASE k < c
    <3>1. k \in 1..(c - 1) /\ k <= Len(a) /\ k \in DOMAIN s /\ k # c
      BY <1>1, <1>2, <2>1
    <3> QED
      BY <1>2, <1>5, <1>6, <3>1
  <2>2. CASE ~(k < c)
    <3>1. /\ k - Len(a) \in 1..(Len(s) - c) /\ (k - Len(a)) + c = k + 1 /\ k + 1 \in DOMAIN s
          /\ ~(k <= Len(a)) /\ k + 1 # c
      BY <1>1, <1>2, <2>2
    <3>2. (a \o b)[k] = b[k - Len(a)]
      BY <1>5, <1>6, <3>1
    <3> QED
      BY <1>3, <3>1, <3>2
  <2> QED
    BY <2>1, <2>2
<1>8. ASSUME NEW j \in DOMAIN s, j # c
      PROVE  \E k \in 1..(Len(s) - 1) : (a \o b)[k] = s[j]
  <2>1. CASE j < c
    <3>1. j \in 1..(c - 1) /\ j <= Len(a) /\ j \in 1..(Len(s) - 1)
      BY <1>1, <1>2, <2>1
    <3> QED
      BY <1>2, <1>5, <1>6, <3>1
  <2>2. CASE ~(j < c)
    <3>1. /\ j - 1 \in 1..(Len(s) - 1) /\ ~(j - 1 <= Len(a))
          /\ (j - 1) - Len(a) \in 1..(Len(s) - c) /\ ((j - 1) - Len(a)) + c = j
      BY <1>1, <1>2, <1>8, <2>2
    <3>2. (a \o b)[j - 1] = b[(j - 1) - Len(a)]
      BY <1>5, <1>6, <3>1
    <3> QED
      BY <1>3, <3>1, <3>2
  <2> QED
    BY <2>1, <2>2
<1> QED
  BY <1>4, <1>5, <1>6, <1>7, <1>8, <1>9

\* One more call is under way.
LEMMA Appended ==
  ASSUME NEW S, NEW s \in Seq(S), NEW e \in S
  PROVE  /\ Append(s, e) \in Seq(S)
         /\ Len(Append(s, e)) = Len(s) + 1
         /\ \A k \in DOMAIN Append(s, e) : Append(s, e)[k] = e \/ \E j \in DOMAIN s : Append(s, e)[k] = s[j]
         /\ \A j \in DOMAIN s : \E k \in DOMAIN Append(s, e) : Append(s, e)[k] = s[j]
         /\ \E k \in DOMAIN Append(s, e) : Append(s, e)[k] = e
  BY AppendProperties

\* An answer comes for one call; the others are as they were.
LEMMA Replied ==
  ASSUME NEW S, NEW s \in Seq(S), NEW i \in DOMAIN s, NEW e \in S
  PROVE  LET r == [s EXCEPT ![i] = e]
         IN  /\ r \in Seq(S) /\ Len(r) = Len(s) /\ DOMAIN r = DOMAIN s
             /\ r[i] = e /\ \A j \in DOMAIN s : j # i => r[j] = s[j]
  OBVIOUS

-----------------------------------------------------------------------------
(* What the server answers and does, one kind of call at a time.           *)

LEMMA AnswerOf ==
  ASSUME NEW c
  PROVE  /\ c.what = "amount" =>
              Answer(c) = IF c.count < LeastOf(c.way) THEN Refusal
                          ELSE Success(Quote(c.way, c.count))
         /\ c.what = "pay" =>
              Answer(c) = IF c.way # "creem" /\ c.count < LeastOf(c.way) THEN Refusal
                          ELSE Success(None)
         /\ c.what = "redeem" =>
              Answer(c) = IF c.code \in server.codes THEN Success(CodeQuota) ELSE Refusal
         /\ c.what = "transfer" =>
              Answer(c) = IF server.aff >= TransferQuota THEN Success(None) ELSE Refusal
         /\ c.what = "buy" =>
              Answer(c) = IF server.subs[c.plan] < PlanLimit THEN Success(None) ELSE Refusal
         /\ c.what = "pref" => Answer(c) = Success(c.pref)
         /\ c.what = "self" => Answer(c) = Success([quota |-> server.quota, aff |-> server.aff])
         /\ c.what = "subs" => Answer(c) = Success([pref |-> server.pref, subs |-> server.subs])
         /\ c.what = "info" => Answer(c) = Success(None)
<1>1. c.what = "amount" =>
        Answer(c) = IF c.count < LeastOf(c.way) THEN Refusal
                    ELSE Success(Quote(c.way, c.count))
  BY Zenon DEF Answer
<1>2. c.what = "pay" =>
        Answer(c) = IF c.way # "creem" /\ c.count < LeastOf(c.way) THEN Refusal
                    ELSE Success(None)
  BY Zenon DEF Answer
<1>3. c.what = "redeem" =>
        Answer(c) = IF c.code \in server.codes THEN Success(CodeQuota) ELSE Refusal
  BY Zenon DEF Answer
<1>4. c.what = "transfer" =>
        Answer(c) = IF server.aff >= TransferQuota THEN Success(None) ELSE Refusal
  BY Zenon DEF Answer
<1>5. c.what = "buy" =>
        Answer(c) = IF server.subs[c.plan] < PlanLimit THEN Success(None) ELSE Refusal
  BY Zenon DEF Answer
<1>6. c.what = "pref" => Answer(c) = Success(c.pref)
  BY Zenon DEF Answer
<1>7. c.what = "self" => Answer(c) = Success([quota |-> server.quota, aff |-> server.aff])
  BY Zenon DEF Answer
<1>8. c.what = "subs" => Answer(c) = Success([pref |-> server.pref, subs |-> server.subs])
  BY Zenon DEF Answer
<1>9. c.what = "info" => Answer(c) = Success(None)
  BY Zenon DEF Answer
<1> QED
  BY Zenon, <1>1, <1>2, <1>3, <1>4, <1>5, <1>6, <1>7, <1>8, <1>9

LEMMA EffectOf ==
  ASSUME NEW c, Effect(c)
  PROVE  /\ c.what = "redeem" =>
              server' = [server EXCEPT !.codes = @ \ {c.code}, !.quota = @ + CodeQuota]
         /\ c.what = "transfer" =>
              server' = [server EXCEPT !.aff = @ - TransferQuota, !.quota = @ + TransferQuota]
         /\ c.what = "pref" => server' = [server EXCEPT !.pref = c.pref]
         /\ c.what = "buy" => server' = [server EXCEPT !.pending = Append(@, c.plan)]
         /\ c.what \in {"amount", "pay", "self", "subs", "info"} => server' = server
         /\ c.what # "pay" => orders' = orders
         /\ c.what = "pay" =>
              orders' = Append(orders, [way |-> c.way, count |-> c.count, seen |-> c.seen])
<1>1. c.what = "redeem" =>
        server' = [server EXCEPT !.codes = @ \ {c.code}, !.quota = @ + CodeQuota]
  BY Zenon DEF Effect
<1>2. c.what = "transfer" =>
        server' = [server EXCEPT !.aff = @ - TransferQuota, !.quota = @ + TransferQuota]
  BY Zenon DEF Effect
<1>3. c.what = "pref" => server' = [server EXCEPT !.pref = c.pref]
  BY Zenon DEF Effect
<1>4. c.what = "buy" => server' = [server EXCEPT !.pending = Append(@, c.plan)]
  BY Zenon DEF Effect
<1>5. c.what \in {"amount", "pay", "self", "subs", "info"} => server' = server
  BY Zenon DEF Effect
<1>6. c.what # "pay" => orders' = orders
  BY Zenon DEF Effect
<1>7. c.what = "pay" =>
        orders' = Append(orders, [way |-> c.way, count |-> c.count, seen |-> c.seen])
  BY Zenon DEF Effect
<1> QED
  BY Zenon, <1>1, <1>2, <1>3, <1>4, <1>5, <1>6, <1>7

\* Prices are natural numbers.
LEMMA QuoteType ==
  ASSUME PageAssumption, NEW way, NEW count \in Counts
  PROVE  /\ Quote(way, count) \in Nat
         /\ count * Price * AmountDiscount[count] \in Nat
<1>1. count \in Nat /\ AmountDiscount[count] \in Nat
  BY DEF PageAssumption
<1>2. ASSUME NEW a \in Nat, NEW b \in Nat PROVE a * b \in Nat
  OBVIOUS
<1>3. getPayMoney(count) \in Nat
  <2>1. count * Price \in Nat
    BY <1>1, <1>2 DEF PageAssumption
  <2>2. count * Price * TopupGroupRatio \in Nat
    BY <2>1, <1>2 DEF PageAssumption
  <2> QED
    BY <2>2, <1>1, <1>2 DEF getPayMoney
<1>4. getStripePayMoney(count) \in Nat
  <2>1. count * StripeUnitPrice \in Nat
    BY <1>1, <1>2 DEF PageAssumption
  <2>2. count * StripeUnitPrice * TopupGroupRatio \in Nat
    BY <2>1, <1>2 DEF PageAssumption
  <2> QED
    BY <2>2, <1>1, <1>2 DEF getStripePayMoney
<1>5. count * Price * AmountDiscount[count] \in Nat
  <2>1. count * Price \in Nat
    BY <1>1, <1>2 DEF PageAssumption
  <2> QED
    BY <2>1, <1>1, <1>2
<1> QED
  BY <1>3, <1>4, <1>5 DEF Quote

\* A call of any kind.
LEMMA Kinds ==
  ASSUME NEW c \in CallRecords
  PROVE  /\ c.what = "self" => c \in SelfCalls
         /\ c.what = "info" => c \in InfoCalls
         /\ c.what = "subs" => c \in SubsCalls
         /\ c.what = "transfer" => c \in TransferCalls
         /\ c.what = "amount" => c \in AmountCalls
         /\ c.what = "pay" => c \in PayCalls
         /\ c.what = "redeem" => c \in RedeemCalls
         /\ c.what = "pref" => c \in PrefCalls
         /\ c.what = "buy" => c \in BuyCalls
         /\ c.what \in {"self", "info", "subs", "transfer", "amount", "pay", "redeem", "pref", "buy"}
  BY DEF CallRecords, SelfCalls, InfoCalls, SubsCalls, TransferCalls, AmountCalls, PayCalls,
         RedeemCalls, PrefCalls, BuyCalls

\* A refusal and a lost answer are no success.
LEMMA NotOk ==
  Refusal.ok = FALSE /\ Lost.ok = FALSE
  BY DEF Refusal, Lost

LEMMA OkData ==
  ASSUME NEW a, NEW D, a \in Reply(D), a # None, a.ok
  PROVE  a \in [ok : {TRUE}, lost : {FALSE}, data : D]
<1>1. a # Refusal /\ a # Lost
  BY Zenon, NotOk
<1> QED
  BY <1>1 DEF Reply

\* A call that is answered stays the call it was.
LEMMA AnsweredCall ==
  ASSUME PageAssumption, Types, NEW c \in CallRecords, NEW a \in {Answer(c), Refusal, Lost}
  PROVE  /\ [c EXCEPT !.answer = a] \in CallRecords
         /\ [c EXCEPT !.answer = a].answer = a
         /\ [c EXCEPT !.answer = a].what = c.what
<1> DEFINE d == [c EXCEPT !.answer = a]
<1>10. ASSUME NEW D, NEW x \in D, a \in {Success(x), Refusal, Lost}
       PROVE  a \in Reply(D)
  <2>1. Success(x) \in Reply(D)
    BY DEF Reply, Success
  <2> QED
    BY <1>10, <2>1 DEF Reply
<1>1. CASE c.what = "self"
  <2>1. c \in SelfCalls
    BY <1>1, Kinds
  <2>2. [quota |-> server.quota, aff |-> server.aff] \in Balances
    BY DEF Types, Balances
  <2>3. a \in {Success([quota |-> server.quota, aff |-> server.aff]), Refusal, Lost}
    BY Zenon, <1>1, AnswerOf
  <2>4. a \in Reply(Balances)
    BY <1>10, <2>2, <2>3
  <2>5. d \in SelfCalls /\ d.answer = a /\ d.what = c.what
    BY <2>1, <2>4 DEF SelfCalls
  <2> QED
    BY <2>5 DEF CallRecords
<1>2. CASE c.what = "info"
  <2>1. c \in InfoCalls
    BY <1>2, Kinds
  <2>2. None \in {None}
    OBVIOUS
  <2>3. a \in {Success(None), Refusal, Lost}
    BY Zenon, <1>2, AnswerOf
  <2>4. a \in Reply({None})
    BY <1>10, <2>2, <2>3
  <2>5. d \in InfoCalls /\ d.answer = a /\ d.what = c.what
    BY <2>1, <2>4 DEF InfoCalls
  <2> QED
    BY <2>5 DEF CallRecords
<1>3. CASE c.what = "subs"
  <2>1. c \in SubsCalls
    BY <1>3, Kinds
  <2>2. [pref |-> server.pref, subs |-> server.subs] \in Standings
    BY DEF Types, Standings, PageAssumption
  <2>3. a \in {Success([pref |-> server.pref, subs |-> server.subs]), Refusal, Lost}
    BY Zenon, <1>3, AnswerOf
  <2>4. a \in Reply(Standings)
    BY <1>10, <2>2, <2>3
  <2>5. d \in SubsCalls /\ d.answer = a /\ d.what = c.what
    BY <2>1, <2>4 DEF SubsCalls
  <2> QED
    BY <2>5 DEF CallRecords
<1>4. CASE c.what = "transfer"
  <2>1. c \in TransferCalls
    BY <1>4, Kinds
  <2>2. None \in {None}
    OBVIOUS
  <2>3. a \in {Success(None), Refusal, Lost}
    BY Zenon, <1>4, AnswerOf
  <2>4. a \in Reply({None})
    BY <1>10, <2>2, <2>3
  <2>5. d \in TransferCalls /\ d.answer = a /\ d.what = c.what
    BY <2>1, <2>4 DEF TransferCalls
  <2> QED
    BY <2>5 DEF CallRecords
<1>5. CASE c.what = "amount"
  <2>1. c \in AmountCalls
    BY <1>5, Kinds
  <2>2. Quote(c.way, c.count) \in Nat
    BY <2>1, QuoteType DEF AmountCalls
  <2>3. a \in {Success(Quote(c.way, c.count)), Refusal, Lost}
    BY Zenon, <1>5, AnswerOf
  <2>4. a \in Reply(Nat)
    BY <1>10, <2>2, <2>3
  <2>5. d \in AmountCalls /\ d.answer = a /\ d.what = c.what
    BY <2>1, <2>4 DEF AmountCalls
  <2> QED
    BY <2>5 DEF CallRecords
<1>6. CASE c.what = "pay"
  <2>1. c \in PayCalls
    BY <1>6, Kinds
  <2>2. None \in {None}
    OBVIOUS
  <2>3. a \in {Success(None), Refusal, Lost}
    BY Zenon, <1>6, AnswerOf
  <2>4. a \in Reply({None})
    BY <1>10, <2>2, <2>3
  <2>5. d \in PayCalls /\ d.answer = a /\ d.what = c.what
    BY <2>1, <2>4 DEF PayCalls
  <2> QED
    BY <2>5 DEF CallRecords
<1>7. CASE c.what = "redeem"
  <2>1. c \in RedeemCalls
    BY <1>7, Kinds
  <2>2. CodeQuota \in Nat
    BY DEF CodeQuota
  <2>3. a \in {Success(CodeQuota), Refusal, Lost}
    BY Zenon, <1>7, AnswerOf
  <2>4. a \in Reply(Nat)
    BY <1>10, <2>2, <2>3
  <2>5. d \in RedeemCalls /\ d.answer = a /\ d.what = c.what
    BY <2>1, <2>4 DEF RedeemCalls
  <2> QED
    BY <2>5 DEF CallRecords
<1>8. CASE c.what = "pref"
  <2>1. c \in PrefCalls
    BY <1>8, Kinds
  <2>2. c.pref \in PrefSet
    BY <2>1 DEF PrefCalls
  <2>3. a \in {Success(c.pref), Refusal, Lost}
    BY Zenon, <1>8, AnswerOf
  <2>4. a \in Reply(PrefSet)
    BY <1>10, <2>2, <2>3
  <2>5. d \in PrefCalls /\ d.answer = a /\ d.what = c.what
    BY <2>1, <2>4 DEF PrefCalls
  <2> QED
    BY <2>5 DEF CallRecords
<1>9. CASE c.what = "buy"
  <2>1. c \in BuyCalls
    BY <1>9, Kinds
  <2>2. None \in {None}
    OBVIOUS
  <2>3. a \in {Success(None), Refusal, Lost}
    BY Zenon, <1>9, AnswerOf
  <2>4. a \in Reply({None})
    BY <1>10, <2>2, <2>3
  <2>5. d \in BuyCalls /\ d.answer = a /\ d.what = c.what
    BY <2>1, <2>4 DEF BuyCalls
  <2> QED
    BY <2>5 DEF CallRecords
<1> QED
  BY <1>1, <1>2, <1>3, <1>4, <1>5, <1>6, <1>7, <1>8, <1>9, Kinds

\* What a successful answer carries.
LEMMA DataOf ==
  ASSUME PageAssumption, NEW c \in CallRecords, c.answer # None, c.answer.ok
  PROVE  /\ c.what = "self" => c.answer.data \in Balances
         /\ c.what = "subs" => c.answer.data \in Standings
         /\ c.what = "amount" => c.answer.data \in Nat
         /\ c.what = "redeem" => c.answer.data \in Nat
         /\ c.what = "pref" => c.answer.data \in PrefSet
<1>1. ASSUME NEW D, c.answer \in Reply(D) PROVE c.answer.data \in D
  <2>1. c.answer \in [ok : {TRUE}, lost : {FALSE}, data : D]
    BY Zenon, <1>1, OkData
  <2> QED
    BY <2>1
<1> QED
  BY <1>1, Kinds DEF SelfCalls, SubsCalls, AmountCalls, RedeemCalls, PrefCalls

\* What a handler that runs does, as the proofs use it.
LEMMA Served ==
  ASSUME NEW i, Serve(i)
  PROVE  \E a \in {Answer(calls[i]), Refusal} :
           /\ a = Answer(calls[i]) \/ calls[i].what \in Refusable
           /\ calls' = [calls EXCEPT ![i] = [calls[i] EXCEPT !.answer = a]]
           /\ a.ok => a = Answer(calls[i]) /\ Effect(calls[i])
           /\ ~a.ok => server' = server /\ orders' = orders
<1>1. PICK a \in {Answer(calls[i])} \cup
                   (IF "refused" \in Faults /\ calls[i].what \in Refusable
                    THEN {Refusal} ELSE {}) :
        /\ calls' = [calls EXCEPT ![i].answer = a]
        /\ IF a.ok THEN Effect(calls[i]) ELSE UNCHANGED <<server, orders>>
  BY DEF Serve
<1>2. a \in {Answer(calls[i]), Refusal} /\ (a = Answer(calls[i]) \/ calls[i].what \in Refusable)
  BY <1>1
<1>3. calls' = [calls EXCEPT ![i] = [calls[i] EXCEPT !.answer = a]]
  BY <1>1
<1>4. a.ok => a = Answer(calls[i]) /\ Effect(calls[i])
  BY Zenon, <1>1, <1>2, NotOk
<1>5. ~a.ok => server' = server /\ orders' = orders
  BY Zenon, <1>1
<1> QED
  BY <1>2, <1>3, <1>4, <1>5

-----------------------------------------------------------------------------
(* Types.                                                                  *)

LEMMA InitTypes ==
  ASSUME PageAssumption, Init
  PROVE  Types
<1>1. page \in PageRecords
  BY DEF Init, PageAssumption, PageRecords
<1>2. /\ account \in [quota : Nat, aff : Nat, pref : PrefSet, subs : [Plans -> Nat]]
      /\ buy \in [plan : Plans \cup {None}, paying : BOOLEAN, refreshing : BOOLEAN]
  BY DEF Init, PrefSet
<1>3. server \in [quota : Nat, aff : Nat, pref : PrefSet, codes : SUBSET Codes,
                  subs : [Plans -> 0..PlanLimit], pending : Seq(Plans)]
  BY DEF Init, PrefSet, PageAssumption, TransferQuota
<1>4. calls \in Seq(CallRecords)
  <2>1. Call("self") \in CallRecords /\ Call("info") \in CallRecords /\ Call("subs") \in CallRecords
    BY DEF Call, CallRecords, SelfCalls, InfoCalls, SubsCalls, Reply
  <2> QED
    BY <2>1 DEF Init
<1>5. orders \in Seq(OrderRecords)
  BY DEF Init
<1> QED
  BY <1>1, <1>2, <1>3, <1>4, <1>5 DEF Types

LEMMA ServeTypes ==
  ASSUME PageAssumption, Types, NEW i \in DOMAIN calls, Serve(i)
  PROVE  Types'
<1> DEFINE c == calls[i]
<1>1. c \in CallRecords
  BY DEF Types
<1>2. PICK a \in {Answer(c), Refusal} :
        /\ calls' = [calls EXCEPT ![i] = [c EXCEPT !.answer = a]]
        /\ a.ok => a = Answer(c) /\ Effect(c)
        /\ ~a.ok => server' = server /\ orders' = orders
  BY Zenon, Served
<1>4. calls' \in Seq(CallRecords)
  BY <1>1, <1>2, AnsweredCall, Replied DEF Types
<1>6. /\ orders' \in Seq(OrderRecords)
      /\ server' \in [quota : Nat, aff : Nat, pref : PrefSet, codes : SUBSET Codes,
                      subs : [Plans -> 0..PlanLimit], pending : Seq(Plans)]
  <2>1. CASE ~a.ok
    BY <1>2, <2>1 DEF Types
  <2>2. CASE a.ok /\ c.what \in {"amount", "self", "subs", "info"}
    <3>1. server' = server /\ orders' = orders
      BY Zenon, <1>2, <2>2, EffectOf
    <3> QED
      BY <3>1 DEF Types
  <2>3. CASE a.ok /\ c.what = "pay"
    <3>1. [way |-> c.way, count |-> c.count, seen |-> c.seen] \in OrderRecords
      BY <1>1, <2>3, Kinds DEF PayCalls, OrderRecords
    <3>2. /\ server' = server
          /\ orders' = Append(orders, [way |-> c.way, count |-> c.count, seen |-> c.seen])
      BY Zenon, <1>2, <2>3, EffectOf
    <3> QED
      BY <3>1, <3>2, Appended DEF Types
  <2>4. CASE a.ok /\ c.what = "redeem"
    <3>1. /\ server' = [server EXCEPT !.codes = @ \ {c.code}, !.quota = @ + CodeQuota]
          /\ orders' = orders
      BY Zenon, <1>2, <2>4, EffectOf
    <3>2. server.quota + CodeQuota \in Nat /\ server.codes \ {c.code} \in SUBSET Codes
      BY DEF Types, CodeQuota
    <3> QED
      BY <3>1, <3>2 DEF Types
  <2>5. CASE a.ok /\ c.what = "transfer"
    <3>1. server.aff >= TransferQuota
      BY Zenon, <1>2, <2>5, AnswerOf, NotOk
    <3>2. /\ server' = [server EXCEPT !.aff = @ - TransferQuota, !.quota = @ + TransferQuota]
          /\ orders' = orders
      BY Zenon, <1>2, <2>5, EffectOf
    <3>3. server.quota + TransferQuota \in Nat /\ server.aff - TransferQuota \in Nat
      BY <3>1 DEF Types, TransferQuota
    <3> QED
      BY <3>2, <3>3 DEF Types
  <2>6. CASE a.ok /\ c.what = "pref"
    <3>1. server' = [server EXCEPT !.pref = c.pref] /\ orders' = orders
      BY Zenon, <1>2, <2>6, EffectOf
    <3>2. c.pref \in PrefSet
      BY <1>1, <2>6, Kinds DEF PrefCalls
    <3> QED
      BY <3>1, <3>2 DEF Types
  <2>7. CASE a.ok /\ c.what = "buy"
    <3>1. c.plan \in Plans
      BY <1>1, <2>7, Kinds DEF BuyCalls
    <3>2. Append(server.pending, c.plan) \in Seq(Plans)
      BY <3>1 DEF Types
    <3>3. server' = [server EXCEPT !.pending = Append(@, c.plan)] /\ orders' = orders
      BY Zenon, <1>2, <2>7, EffectOf
    <3> QED
      BY <3>2, <3>3 DEF Types
  <2> QED
    BY <1>1, <2>1, <2>2, <2>3, <2>4, <2>5, <2>6, <2>7, Kinds
<1>7. UNCHANGED <<page, account, buy>>
  BY DEF Serve
<1> QED
  BY <1>4, <1>6, <1>7 DEF Types

LEMMA LoseTypes ==
  ASSUME PageAssumption, Types, NEW i \in DOMAIN calls, Lose(i)
  PROVE  Types'
<1>1. calls' = [calls EXCEPT ![i] = [calls[i] EXCEPT !.answer = Lost]]
  BY DEF Lose
<1>2. [calls[i] EXCEPT !.answer = Lost] \in CallRecords
  <2>1. calls[i] \in CallRecords
    BY DEF Types
  <2> QED
    BY <2>1, AnsweredCall
<1>3. calls' \in Seq(CallRecords)
  BY <1>1, <1>2, Replied DEF Types
<1> QED
  BY <1>3 DEF Types, Lose

LEMMA CompleteTypes ==
  ASSUME PageAssumption, Types, CompleteSubscriptionOrder
  PROVE  Types'
<1>1. PICK i \in DOMAIN server.pending :
        server' = [server EXCEPT
          !.pending = RemoveAt(server.pending, i),
          !.subs[server.pending[i]] =
             IF server.subs[server.pending[i]] < PlanLimit
             THEN server.subs[server.pending[i]] + 1 ELSE server.subs[server.pending[i]]]
  BY DEF CompleteSubscriptionOrder
<1>2. RemoveAt(server.pending, i) \in Seq(Plans)
  BY Removed DEF Types
<1>3. server.pending[i] \in Plans
  BY DEF Types
<1> DEFINE n == IF server.subs[server.pending[i]] < PlanLimit
                THEN server.subs[server.pending[i]] + 1 ELSE server.subs[server.pending[i]]
           subs == [server.subs EXCEPT ![server.pending[i]] = n]
<1>4. n \in 0..PlanLimit
  BY <1>3 DEF Types, PageAssumption
<1>5. subs \in [Plans -> 0..PlanLimit]
  BY <1>3, <1>4 DEF Types
<1>6. server' = [server EXCEPT !.pending = RemoveAt(server.pending, i), !.subs = subs]
  BY <1>1 DEF Types
<1>7. server' \in [quota : Nat, aff : Nat, pref : PrefSet, codes : SUBSET Codes,
                   subs : [Plans -> 0..PlanLimit], pending : Seq(Plans)]
  BY <1>2, <1>5, <1>6 DEF Types
<1> QED
  BY <1>7 DEF Types, CompleteSubscriptionOrder

\* The calls left when one has returned.
LEMMA RestOf ==
  ASSUME Types, NEW i \in DOMAIN calls
  PROVE  /\ Rest(i) \in Seq(CallRecords) /\ Len(Rest(i)) = Len(calls) - 1
         /\ \A k \in DOMAIN Rest(i) : \E j \in DOMAIN calls : j # i /\ Rest(i)[k] = calls[j]
         /\ \A j \in DOMAIN calls : j # i => \E k \in DOMAIN Rest(i) : Rest(i)[k] = calls[j]
  BY Removed DEF Types, Rest

\* The calls that the page makes.
LEMMA MadeCalls ==
  ASSUME PageAssumption, Types
  PROVE  /\ \A way \in PayWays, count \in Counts, then \in {"show", "open", "pay"} :
              AmountCall(way, count, then) \in CallRecords
         /\ \A way \in PayWays, count \in Counts \cup {None}, seen \in Seens :
              PayCall(way, count, seen) \in CallRecords
         /\ \A way \in PayWays : Seen(way) \in Seens
         /\ Call("self") \in CallRecords /\ Call("subs") \in CallRecords
         /\ Call("transfer") \in CallRecords
<1>1. ASSUME NEW way \in PayWays PROVE Seen(way) \in Seens
  BY DEF Types, PageRecords, Seen, Seens
<1>2. ASSUME NEW way \in PayWays, NEW count \in Counts, NEW then \in {"show", "open", "pay"}
      PROVE  AmountCall(way, count, then) \in AmountCalls
  BY <1>1 DEF AmountCall, AmountCalls, Reply
<1>3. ASSUME NEW way \in PayWays, NEW count \in Counts \cup {None}, NEW seen \in Seens
      PROVE  PayCall(way, count, seen) \in PayCalls
  BY DEF PayCall, PayCalls, Reply
<1>4. Call("self") \in SelfCalls /\ Call("subs") \in SubsCalls /\ Call("transfer") \in TransferCalls
  BY DEF Call, SelfCalls, SubsCalls, TransferCalls, Reply
<1> QED
  BY <1>1, <1>2, <1>3, <1>4 DEF CallRecords

LEMMA FirstMinType ==
  ASSUME PageAssumption
  PROVE  FirstMin \in Counts
  BY DEF FirstMin, PageAssumption

\* What AmountReturns does, as the proofs use it.
LEMMA AmountReturned ==
  ASSUME NEW i, AmountReturns(i)
  PROVE  LET c == calls[i]
             pays == c.then = "pay" /\ c.count >= page.min
         IN  \E amount :
               /\ c.answer.ok /\ ~c.answer.lost => amount = c.answer.data
               /\ ~c.answer.ok /\ c.answer.lost => amount = page.amount
               /\ ~c.answer.ok /\ ~c.answer.lost => amount = 0
               /\ page' = [page EXCEPT
                    !.amount = amount,
                    !.paying = @ /\ c.then # "open",
                    !.open = @ \/ (c.then = "open" /\ c.count >= page.min),
                    !.confirming = @ \/ pays]
               /\ calls' = Rest(i) \o (IF pays THEN <<PayCall(c.way, c.count, c.seen)>> ELSE <<>>)
<1> DEFINE c == calls[i]
           amount == CASE c.answer.ok -> c.answer.data
                       [] c.answer.lost -> page.amount
                       [] OTHER -> 0
           pays == c.then = "pay" /\ c.count >= page.min
<1>1. /\ page' = [page EXCEPT
           !.amount = amount,
           !.paying = @ /\ c.then # "open",
           !.open = @ \/ (c.then = "open" /\ c.count >= page.min),
           !.confirming = @ \/ pays]
      /\ calls' = Rest(i) \o (IF pays THEN <<PayCall(c.way, c.count, c.seen)>> ELSE <<>>)
  BY Zenon DEF AmountReturns
<1>2. c.answer.ok /\ ~c.answer.lost => amount = c.answer.data
  BY Zenon
<1>3. ~c.answer.ok /\ c.answer.lost => amount = page.amount
  BY Zenon
<1>4. ~c.answer.ok /\ ~c.answer.lost => amount = 0
  BY Zenon
<1> HIDE DEF amount
<1> QED
  BY Zenon, <1>1, <1>2, <1>3, <1>4

\* What PayReturns does, as the proofs use it.
LEMMA PayReturned ==
  ASSUME NEW i, PayReturns(i)
  PROVE  /\ \/ page' = [page EXCEPT !.paying = FALSE]
            \/ page' = [page EXCEPT !.creemOpen = FALSE, !.confirming = FALSE]
            \/ page' = [page EXCEPT !.open = FALSE, !.confirming = FALSE]
         /\ calls' = Rest(i) /\ account' = account /\ buy' = buy
<1>1. calls[i].way = "waffo" => page' = [page EXCEPT !.paying = FALSE]
  BY Zenon DEF PayReturns
<1>2. calls[i].way = "creem" => page' = [page EXCEPT !.creemOpen = FALSE, !.confirming = FALSE]
  BY Zenon DEF PayReturns
<1>3. calls[i].way \notin {"waffo", "creem"} =>
        page' = [page EXCEPT !.open = FALSE, !.confirming = FALSE]
  BY Zenon DEF PayReturns
<1> QED
  BY Zenon, <1>1, <1>2, <1>3 DEF PayReturns

LEMMA ReplyFlags ==
  ASSUME NEW a, NEW D, a \in Reply(D), a # None
  PROVE  \/ a.ok = TRUE /\ a.lost = FALSE /\ a.data \in D
         \/ a.ok = FALSE /\ a.lost = FALSE
         \/ a.ok = FALSE /\ a.lost = TRUE
<1>1. a = Refusal => a.ok = FALSE /\ a.lost = FALSE
  BY DEF Refusal
<1>2. a = Lost => a.ok = FALSE /\ a.lost = TRUE
  BY DEF Lost
<1>3. a \in [ok : {TRUE}, lost : {FALSE}, data : D] =>
        a.ok = TRUE /\ a.lost = FALSE /\ a.data \in D
  OBVIOUS
<1>4. a = Refusal \/ a = Lost \/ a \in [ok : {TRUE}, lost : {FALSE}, data : D]
  BY DEF Reply
<1> QED
  BY Zenon, <1>1, <1>2, <1>3, <1>4

LEMMA ReturnTypes ==
  ASSUME PageAssumption, Types, NEW i \in DOMAIN calls, Return(i)
  PROVE  Types'
<1> DEFINE c == calls[i]
<1>1. c \in CallRecords /\ c.answer # None
  BY DEF Types, Return, Settled
<1>2. server' = server /\ orders' = orders
  BY DEF Return
<1>3. Rest(i) \in Seq(CallRecords)
  BY RestOf
<1>4. CASE InfoReturns(i)
  <2>1. page' \in PageRecords
    <3>1. page' = [page EXCEPT !.ready = TRUE, !.min = FirstMin, !.count = FirstMin] \/ page' = page
      BY Zenon, <1>4 DEF InfoReturns
    <3> QED
      BY <3>1, FirstMinType DEF Types, PageRecords
  <2>2. calls' \in Seq(CallRecords)
    <3>1. AmountCall("alipay", FirstMin, "show") \in CallRecords
      BY MadeCalls, FirstMinType DEF PayWays
    <3>2. calls' = Append(Rest(i), AmountCall("alipay", FirstMin, "show")) \/ calls' = Rest(i)
      BY Zenon, <1>4 DEF InfoReturns
    <3> QED
      BY <1>3, <3>1, <3>2
  <2>3. account' = account /\ buy' = buy
    BY <1>4 DEF InfoReturns
  <2> QED
    BY <1>2, <2>1, <2>2, <2>3 DEF Types
<1>5. CASE AmountReturns(i)
  <2>0. c \in AmountCalls
    BY <1>1, <1>5, Kinds DEF AmountReturns
  <2>1. PICK amount :
          /\ c.answer.ok /\ ~c.answer.lost => amount = c.answer.data
          /\ ~c.answer.ok /\ c.answer.lost => amount = page.amount
          /\ ~c.answer.ok /\ ~c.answer.lost => amount = 0
          /\ page' = [page EXCEPT
               !.amount = amount,
               !.paying = @ /\ c.then # "open",
               !.open = @ \/ (c.then = "open" /\ c.count >= page.min),
               !.confirming = @ \/ (c.then = "pay" /\ c.count >= page.min)]
          /\ calls' = Rest(i) \o (IF c.then = "pay" /\ c.count >= page.min
                                  THEN <<PayCall(c.way, c.count, c.seen)>> ELSE <<>>)
    BY Zenon, <1>5, AmountReturned
  <2>2. amount \in Nat
    <3>1. c.answer \in Reply(Nat)
      BY <2>0 DEF AmountCalls
    <3>2. \/ c.answer.ok = TRUE /\ c.answer.lost = FALSE /\ c.answer.data \in Nat
          \/ c.answer.ok = FALSE /\ c.answer.lost = FALSE
          \/ c.answer.ok = FALSE /\ c.answer.lost = TRUE
      BY Zenon, <1>1, <3>1, ReplyFlags
    <3>3. page.amount \in Nat
      BY DEF Types, PageRecords
    <3>4. (amount = c.answer.data /\ c.answer.data \in Nat) \/ amount = page.amount \/ amount = 0
      BY Zenon, <2>1, <3>2
    <3> QED
      BY <3>3, <3>4
  <2>3. page' \in PageRecords
    <3> DEFINE p == page.paying /\ c.then # "open"
               o == page.open \/ (c.then = "open" /\ c.count >= page.min)
               f == page.confirming \/ (c.then = "pay" /\ c.count >= page.min)
    <3>1. p \in BOOLEAN /\ o \in BOOLEAN /\ f \in BOOLEAN
      BY Zenon
    <3>2. page' = [page EXCEPT !.amount = amount, !.paying = p, !.open = o, !.confirming = f]
      BY Zenon, <2>1
    <3> HIDE DEF p, o, f
    <3> QED
      BY <2>2, <3>1, <3>2 DEF Types, PageRecords
  <2>4. calls' \in Seq(CallRecords)
    <3>1. PayCall(c.way, c.count, c.seen) \in CallRecords
      BY <2>0, MadeCalls DEF AmountCalls
    <3> QED
      BY <1>3, <2>1, <3>1
  <2>5. account' = account /\ buy' = buy
    BY <1>5 DEF AmountReturns
  <2> QED
    BY <1>2, <2>3, <2>4, <2>5 DEF Types
<1>6. CASE PayReturns(i)
  <2>1. page' \in PageRecords
    <3>1. CASE page' = [page EXCEPT !.paying = FALSE]
      BY <3>1 DEF Types, PageRecords
    <3>2. CASE page' = [page EXCEPT !.creemOpen = FALSE, !.confirming = FALSE]
      BY <3>2 DEF Types, PageRecords
    <3>3. CASE page' = [page EXCEPT !.open = FALSE, !.confirming = FALSE]
      BY <3>3 DEF Types, PageRecords
    <3> QED
      BY Zenon, <1>6, <3>1, <3>2, <3>3, PayReturned
  <2> QED
    BY <1>2, <1>3, <1>6, <2>1, PayReturned DEF Types
<1>7. CASE RedeemReturns(i)
  <2>0. c \in RedeemCalls
    BY <1>1, <1>7, Kinds DEF RedeemReturns
  <2>1. page' \in PageRecords
    <3> DEFINE code == IF c.answer.ok THEN None ELSE page.code
    <3>1. code \in Codes \cup {None}
      BY DEF Types, PageRecords
    <3>2. page' = [page EXCEPT !.submitting = FALSE, !.code = code]
      BY Zenon, <1>7 DEF RedeemReturns
    <3> HIDE DEF code
    <3> QED
      BY <3>1, <3>2 DEF Types, PageRecords
  <2>2. account' \in [quota : Nat, aff : Nat, pref : PrefSet, subs : [Plans -> Nat]]
    <3>1. CASE c.answer.ok
      <4>0. c.what = "redeem" /\ c.was \in Nat
        BY <2>0 DEF RedeemCalls
      <4>1. c.answer.data \in Nat /\ c.was \in Nat
        BY <1>1, <3>1, <4>0, DataOf
      <4>2. account' = [account EXCEPT !.quota = c.was + c.answer.data]
        BY Zenon, <1>7, <3>1 DEF RedeemReturns
      <4>3. c.was + c.answer.data \in Nat
        BY <4>1
      <4> QED
        BY <4>2, <4>3 DEF Types
    <3>2. CASE ~c.answer.ok
      <4>1. account' = account
        BY Zenon, <1>7, <3>2 DEF RedeemReturns
      <4> QED
        BY <4>1 DEF Types
    <3> QED
      BY <3>1, <3>2
  <2> QED
    BY <1>2, <1>3, <1>7, <2>1, <2>2 DEF Types, RedeemReturns
<1>8. CASE TransferReturns(i)
  <2>1. page' = [page EXCEPT !.transferOpen = FALSE] \/ page' = page
    BY Zenon, <1>8 DEF TransferReturns
  <2>2. calls' = Append(Rest(i), Call("self")) \/ calls' = Rest(i)
    BY Zenon, <1>8 DEF TransferReturns
  <2>3. page' \in PageRecords
    BY <2>1 DEF Types, PageRecords
  <2>4. calls' \in Seq(CallRecords)
    BY <1>3, <2>2, MadeCalls
  <2> QED
    BY <1>2, <1>8, <2>3, <2>4 DEF Types, TransferReturns
<1>9. CASE SelfReturns(i)
  <2>1. account' \in [quota : Nat, aff : Nat, pref : PrefSet, subs : [Plans -> Nat]]
    <3>1. CASE c.answer.ok
      <4>1. c.answer.data \in Balances
        BY <1>1, <1>9, <3>1, DataOf DEF SelfReturns
      <4>2. account' = [account EXCEPT !.quota = c.answer.data.quota, !.aff = c.answer.data.aff]
        BY Zenon, <1>9, <3>1 DEF SelfReturns
      <4> QED
        BY <4>1, <4>2 DEF Types, Balances
    <3>2. CASE ~c.answer.ok
      <4>1. account' = account
        BY Zenon, <1>9, <3>2 DEF SelfReturns
      <4> QED
        BY <4>1 DEF Types
    <3> QED
      BY <3>1, <3>2
  <2> QED
    BY <1>2, <1>3, <1>9, <2>1 DEF Types, SelfReturns
<1>10. CASE SubsReturns(i)
  <2>1. account' \in [quota : Nat, aff : Nat, pref : PrefSet, subs : [Plans -> Nat]]
    <3>1. CASE c.answer.ok
      <4>1. c.answer.data \in Standings
        BY <1>1, <1>10, <3>1, DataOf DEF SubsReturns
      <4>2. account' = [account EXCEPT !.pref = c.answer.data.pref, !.subs = c.answer.data.subs]
        BY Zenon, <1>10, <3>1 DEF SubsReturns
      <4> QED
        BY <4>1, <4>2 DEF Types, Standings
    <3>2. CASE ~c.answer.ok
      <4>1. account' = account
        BY Zenon, <1>10, <3>2 DEF SubsReturns
      <4> QED
        BY <4>1 DEF Types
    <3> QED
      BY <3>1, <3>2
  <2> QED
    BY <1>2, <1>3, <1>10, <2>1 DEF Types, SubsReturns
<1>11. CASE PrefReturns(i)
  <2> DEFINE pref == IF c.answer.ok THEN c.answer.data ELSE c.was
  <2>1. pref \in PrefSet
    <3>1. c.what = "pref" /\ c.was \in PrefSet
      BY <1>1, <1>11, Kinds DEF PrefReturns, PrefCalls
    <3>2. c.answer.ok => c.answer.data \in PrefSet
      BY <1>1, <3>1, DataOf
    <3> QED
      BY <3>1, <3>2
  <2>2. account' = [account EXCEPT !.pref = pref]
    BY Zenon, <1>11 DEF PrefReturns
  <2> HIDE DEF pref
  <2>3. account' \in [quota : Nat, aff : Nat, pref : PrefSet, subs : [Plans -> Nat]]
    BY <2>1, <2>2 DEF Types
  <2> QED
    BY <1>2, <1>3, <1>11, <2>3 DEF Types, PrefReturns
<1>12. CASE BuyReturns(i)
  <2> DEFINE plan == IF c.answer.ok THEN None ELSE buy.plan
  <2>1. plan \in Plans \cup {None}
    BY DEF Types
  <2>2. buy' = [buy EXCEPT !.paying = FALSE, !.plan = plan]
    BY Zenon, <1>12 DEF BuyReturns
  <2> HIDE DEF plan
  <2> QED
    BY <1>2, <1>3, <1>12, <2>1, <2>2 DEF Types, BuyReturns
<1> QED
  BY Zenon, <1>4, <1>5, <1>6, <1>7, <1>8, <1>9, <1>10, <1>11, <1>12 DEF Return

\* The actions of the user that make a call.
Makers ==
  \/ \E count \in Counts : EnterCount(count)
  \/ BlurEmpty
  \/ \E way \in Ways : preTopUp(way)
  \/ onlineTopUp \/ waffoTopUp \/ onlineCreemTopUp
  \/ \E code \in Codes : topUp(code)
  \/ transfer
  \/ \E pref \in Prefs : updateBillingPreference(pref)
  \/ handleRefresh \/ payPlan

\* Those that only change what the page shows.
Showers ==
  \/ \E count \in Counts : selectPresetAmount(count) \/ creemPreTopUp(count)
  \/ openTransfer \/ Cancel
  \/ \E plan \in Plans : openBuy(plan)

LEMMA Steps ==
  ASSUME Next
  PROVE  \/ Makers \/ Showers \/ CompleteSubscriptionOrder
         \/ \E i \in DOMAIN calls : Serve(i) \/ Lose(i) \/ Return(i)
         \/ UNCHANGED vars
  BY Zenon DEF Next, Makers, Showers, Done

LEMMA WaysType == Ways \subseteq PayWays /\ {"alipay", "waffo", "creem"} \subseteq PayWays
  BY DEF PayWays

\* Everything but the call itself, as it is when the call is made.
LEMMA MakeTypes ==
  ASSUME PageAssumption, Types, NEW call \in CallRecords, Make(call),
         page' \in PageRecords,
         account' \in [quota : Nat, aff : Nat, pref : PrefSet, subs : [Plans -> Nat]],
         buy' \in [plan : Plans \cup {None}, paying : BOOLEAN, refreshing : BOOLEAN],
         server' = server, orders' = orders
  PROVE  Types'
<1>1. calls' \in Seq(CallRecords)
  BY Appended DEF Make, Types
<1> QED
  BY <1>1 DEF Types

LEMMA MakersTypes ==
  ASSUME PageAssumption, Types, Makers
  PROVE  Types'
<1>1. /\ page.count \in Counts /\ page.min \in Counts /\ page.payWay \in Ways \cup {None}
      /\ page.creem \in Counts \cup {None} /\ page.amount \in Nat /\ 1 \in Counts
  BY DEF Types, PageRecords, PageAssumption
<1>2. ASSUME NEW count \in Counts, EnterCount(count) PROVE Types'
  <2>1. page' \in PageRecords
    BY <1>2 DEF EnterCount, Types, PageRecords
  <2>2. AmountCall("alipay", count, "show") \in CallRecords
    BY MadeCalls, WaysType
  <2> QED
    BY <1>2, <2>1, <2>2, MakeTypes DEF EnterCount, Types
<1>3. CASE BlurEmpty
  <2>1. page' \in PageRecords
    BY <1>1, <1>3 DEF BlurEmpty, Types, PageRecords
  <2>2. AmountCall("alipay", 1, "show") \in CallRecords
    BY <1>1, MadeCalls, WaysType
  <2> QED
    BY <1>3, <2>1, <2>2, MakeTypes DEF BlurEmpty, Types
<1>4. ASSUME NEW way \in Ways, preTopUp(way) PROVE Types'
  <2>1. page' \in PageRecords
    BY <1>4 DEF preTopUp, Types, PageRecords
  <2>2. AmountCall(way, page.count, "open") \in CallRecords
    BY <1>1, MadeCalls, WaysType
  <2> QED
    BY <1>4, <2>1, <2>2, MakeTypes DEF preTopUp, Types
<1>5. CASE onlineTopUp
  <2>1. page.payWay \in PayWays
    BY <1>1 DEF PayWays
  <2>2. CASE page.amount = 0
    <3>1. AmountCall(page.payWay, page.count, "pay") \in CallRecords
      BY <1>1, <2>1, MadeCalls
    <3>2. Make(AmountCall(page.payWay, page.count, "pay")) /\ page' = page
      BY <1>5, <2>2 DEF onlineTopUp
    <3> QED
      BY <1>5, <3>1, <3>2, MakeTypes DEF onlineTopUp, Types
  <2>3. CASE page.amount # 0
    <3>1. PayCall(page.payWay, page.count, Seen(page.payWay)) \in CallRecords
      BY <1>1, <2>1, MadeCalls
    <3>2. /\ Make(PayCall(page.payWay, page.count, Seen(page.payWay)))
          /\ page' = [page EXCEPT !.confirming = TRUE]
      BY <1>5, <2>3 DEF onlineTopUp
    <3>3. page' \in PageRecords
      BY <3>2 DEF Types, PageRecords
    <3> QED
      BY <1>5, <3>1, <3>2, <3>3, MakeTypes DEF onlineTopUp, Types
  <2> QED
    BY <2>2, <2>3
<1>6. CASE waffoTopUp
  <2>1. PayCall("waffo", page.count, Seen("waffo")) \in CallRecords
    BY <1>1, MadeCalls, WaysType
  <2>2. page' \in PageRecords
    BY <1>6 DEF waffoTopUp, Types, PageRecords
  <2> QED
    BY <1>6, <2>1, <2>2, MakeTypes DEF waffoTopUp, Types
<1>7. CASE onlineCreemTopUp
  <2>1. [way |-> "creem", count |-> page.creem, amount |-> 0] \in Seens
    BY <1>1, WaysType DEF Seens
  <2>2. PayCall("creem", page.creem, [way |-> "creem", count |-> page.creem, amount |-> 0])
          \in CallRecords
    BY <1>1, <2>1, MadeCalls, WaysType
  <2>3. page' \in PageRecords
    BY <1>7 DEF onlineCreemTopUp, Types, PageRecords
  <2> QED
    BY <1>7, <2>2, <2>3, MakeTypes DEF onlineCreemTopUp, Types
<1>8. ASSUME NEW code \in Codes, topUp(code) PROVE Types'
  <2>1. [what |-> "redeem", answer |-> None, code |-> code, was |-> account.quota] \in RedeemCalls
    BY DEF Types, RedeemCalls, Reply
  <2>2. page' \in PageRecords
    BY <1>8 DEF topUp, Types, PageRecords
  <2>3. [what |-> "redeem", answer |-> None, code |-> code, was |-> account.quota] \in CallRecords
    BY <2>1 DEF CallRecords
  <2> QED
    BY <1>8, <2>2, <2>3, MakeTypes DEF topUp, Types
<1>9. CASE transfer
  BY <1>9, MakeTypes, MadeCalls DEF transfer, Types
<1>10. ASSUME NEW pref \in Prefs, updateBillingPreference(pref) PROVE Types'
  <2>1. [what |-> "pref", answer |-> None, pref |-> pref, was |-> account.pref] \in PrefCalls
    BY DEF Types, PrefCalls, Reply, PrefSet
  <2>2. account' \in [quota : Nat, aff : Nat, pref : PrefSet, subs : [Plans -> Nat]]
    BY <1>10 DEF updateBillingPreference, Types, PrefSet
  <2>3. [what |-> "pref", answer |-> None, pref |-> pref, was |-> account.pref] \in CallRecords
    BY <2>1 DEF CallRecords
  <2> QED
    BY <1>10, <2>2, <2>3, MakeTypes DEF updateBillingPreference, Types
<1>11. CASE handleRefresh
  BY <1>11, MakeTypes, MadeCalls DEF handleRefresh, Types
<1>12. CASE payPlan
  <2>1. [what |-> "buy", answer |-> None, plan |-> buy.plan] \in BuyCalls
    BY <1>12 DEF payPlan, Types, BuyCalls, Reply
  <2>2. [what |-> "buy", answer |-> None, plan |-> buy.plan] \in CallRecords
    BY <2>1 DEF CallRecords
  <2> QED
    BY <1>12, <2>2, MakeTypes DEF payPlan, Types
<1> QED
  BY Zenon, <1>2, <1>3, <1>4, <1>5, <1>6, <1>7, <1>8, <1>9, <1>10, <1>11, <1>12 DEF Makers

LEMMA ShowersTypes ==
  ASSUME PageAssumption, Types, Showers
  PROVE  Types'
<1>1. ASSUME NEW count \in Counts, selectPresetAmount(count) PROVE Types'
  <2>1. count * Price * AmountDiscount[count] \in Nat
    BY QuoteType
  <2> DEFINE x == count * Price * AmountDiscount[count]
  <2>2. page' = [page EXCEPT !.count = count, !.preset = count, !.amount = x]
    BY <1>1 DEF selectPresetAmount
  <2> HIDE DEF x
  <2>3. page' \in PageRecords
    BY <2>1, <2>2 DEF Types, PageRecords, x
  <2> QED
    BY <1>1, <2>3 DEF selectPresetAmount, Types
<1>2. ASSUME NEW count \in Counts, creemPreTopUp(count) PROVE Types'
  <2>1. page' \in PageRecords
    BY <1>2 DEF creemPreTopUp, Types, PageRecords
  <2> QED
    BY <1>2, <2>1 DEF creemPreTopUp, Types
<1>3. CASE openTransfer
  <2>1. page' \in PageRecords
    BY <1>3 DEF openTransfer, Types, PageRecords
  <2> QED
    BY <1>3, <2>1 DEF openTransfer, Types
<1>4. CASE Cancel
  <2> DEFINE m == IF page.creemOpen THEN None ELSE page.creem
  <2>1. m \in Counts \cup {None}
    BY DEF Types, PageRecords
  <2>2. page' = [page EXCEPT !.open = FALSE, !.creemOpen = FALSE, !.transferOpen = FALSE, !.creem = m]
    BY Zenon, <1>4 DEF Cancel
  <2> HIDE DEF m
  <2>3. page' \in PageRecords
    BY <2>1, <2>2 DEF Types, PageRecords
  <2> QED
    BY <1>4, <2>3 DEF Cancel, Types
<1>5. ASSUME NEW plan \in Plans, openBuy(plan) PROVE Types'
  BY <1>5 DEF openBuy, Types
<1> QED
  BY Zenon, <1>1, <1>2, <1>3, <1>4, <1>5 DEF Showers

LEMMA NextTypes ==
  ASSUME PageAssumption, Types, [Next]_vars
  PROVE  Types'
<1>1. CASE UNCHANGED vars
  BY <1>1 DEF vars, Types
<1>2. CASE Next
  BY Zenon, <1>1, <1>2, Steps, MakersTypes, ShowersTypes, CompleteTypes, ServeTypes, LoseTypes, ReturnTypes
<1> QED
  BY <1>1, <1>2

LEMMA TypesImplied ==
  ASSUME Types
  PROVE  TypeOK /\ WithinLimit
<1>1. TypeOK
  BY DEF Types, PageRecords, TypeOK
<1>2. WithinLimit
  BY DEF Types, WithinLimit
<1> QED
  BY <1>1, <1>2

\* The page, the account, the dialog and the server keep their types, whatever the user does and
\* whichever answers are refused or lost.
THEOREM PagesTypes ==
  ASSUME PageAssumption
  PROVE  Spec => []TypeOK
<1>1. Init => Types
  BY InitTypes
<1>2. Types /\ [Next]_vars => Types'
  BY NextTypes
<1>3. Types => TypeOK
  BY TypesImplied
<1> QED
  BY <1>1, <1>2, <1>3, PTL DEF Spec

-----------------------------------------------------------------------------
(* A user who waits for the page, and answers that are not lost.           *)

\* The calls of the page's first load; the others are made one at a time.
Early(c) == c.what \in {"self", "info", "subs"} \/ (c.what = "amount" /\ c.then = "show")

Solo == Len(calls) <= 1 \/ \A k \in DOMAIN calls : Early(calls[k])

\* A payment under way is of what was shown, and costs that.
PaySound(c) ==
  c.what = "pay" =>
    /\ c.way = c.seen.way /\ c.count = c.seen.count
    /\ c.way \in Ways => Quote(c.way, c.count) = c.seen.amount

\* A price asked for before the dialog opens is of the way and the amount the page shows; one
\* asked for from the dialog is zero.
AmountSound(p, c) ==
  c.what = "amount" =>
    /\ c.answer # None =>
         c.answer = IF c.count < LeastOf(c.way) THEN Refusal ELSE Success(Quote(c.way, c.count))
    /\ c.then = "open" =>
         /\ ~p.open /\ ~p.transferOpen /\ c.way = p.payWay /\ c.way \in Ways /\ c.count = p.count
         /\ c.count < LeastOf(c.way) => c.count < p.min
    /\ c.then = "pay" =>
         /\ p.open /\ c.way = p.payWay /\ c.count = p.count /\ p.amount = 0
         /\ c.seen = [way |-> c.way, count |-> c.count, amount |-> 0]

\* The dialog that is open shows the price of what it would pay.
OpenQuoted ==
  page.open =>
    /\ page.payWay \in Ways /\ Quote(page.payWay, page.count) = page.amount
    /\ ~page.transferOpen
    /\ \A k \in DOMAIN calls : ~Early(calls[k]) /\ calls[k].what # "transfer"

MinKnown == page.ready => page.min = FirstMin

Priced ==
  /\ Solo /\ OpenQuoted /\ MinKnown /\ ChargedAsShown
  /\ \A k \in DOMAIN calls : PaySound(calls[k]) /\ AmountSound(page, calls[k])

\* The balances and the preference of the page are the server's, or a call is under way that
\* will make them so.
Bal(a, s) == a.quota = s.quota /\ a.aff = s.aff

Ok(c) == c.answer # None /\ c.answer.ok

BalSound(a, s, c) ==
  /\ c.what = "self" /\ c.answer # None =>
       c.answer = Success([quota |-> s.quota, aff |-> s.aff])
  /\ c.what = "redeem" /\ Ok(c) =>
       c.was + c.answer.data = s.quota /\ a.aff = s.aff
  /\ c.what = "redeem" /\ ~Ok(c) => Bal(a, s) /\ c.was = s.quota
  /\ c.what = "transfer" /\ ~Ok(c) => Bal(a, s)

Mends(c) == c.what = "self" \/ (c.what \in {"redeem", "transfer"} /\ Ok(c))

PrefSound(a, s, c) ==
  /\ c.what = "subs" /\ c.answer # None => c.answer.ok /\ c.answer.data.pref = s.pref
  /\ c.what = "pref" => a.pref = c.pref
  /\ c.what = "pref" /\ Ok(c) => c.answer.data = s.pref
  /\ c.what = "pref" /\ ~Ok(c) => c.was = s.pref

Current ==
  /\ Solo
  /\ \A k \in DOMAIN calls : BalSound(account, server, calls[k]) /\ PrefSound(account, server, calls[k])
  /\ Bal(account, server) \/ \E k \in DOMAIN calls : Mends(calls[k])
  /\ account.pref = server.pref \/ \E k \in DOMAIN calls : calls[k].what = "pref"

\* The user waits for the page to settle, and no answer is lost.
Waiting == Unhurried /\ "lost" \notin Faults

\* A call that does not belong to the first load is alone.
LEMMA Alone ==
  ASSUME Types, Solo, NEW i \in DOMAIN calls, ~Early(calls[i])
  PROVE  /\ Len(calls) = 1 /\ \A j \in DOMAIN calls : j = i
         /\ Rest(i) = <<>>
<1>0. Len(calls) <= 1
  BY Zenon DEF Solo
<1>3. calls \in Seq(CallRecords)
  BY DEF Types
<1>4. DOMAIN calls = 1..Len(calls) /\ Len(calls) \in Nat
  BY <1>3
<1>5. i \in 1..Len(calls)
  BY <1>4
<1>1. Len(calls) = 1 /\ DOMAIN calls = 1..1
  BY <1>0, <1>4, <1>5
<1>2. Rest(i) \in Seq(CallRecords) /\ Len(Rest(i)) = 0
  BY <1>1, RestOf
<1> QED
  BY <1>1, <1>2

\* A call made by a user who waits is alone.
LEMMA MadeOne ==
  ASSUME Types, Idle, NEW call \in CallRecords, Make(call)
  PROVE  /\ \A k \in DOMAIN calls' : calls'[k] = call
         /\ \E k \in DOMAIN calls' : calls'[k] = call
         /\ Solo'
<1>1. calls' = Append(calls, call) /\ calls = <<>>
  BY DEF Make, Idle
<1>2. Len(calls') = 1 /\ DOMAIN calls' = 1..1 /\ calls'[1] = call
  BY <1>1
<1> QED
  BY <1>2 DEF Solo

LEMMA RestSolo ==
  ASSUME Types, Solo, NEW i \in DOMAIN calls, calls' = Rest(i)
  PROVE  Solo'
<1>1. CASE Len(calls) <= 1
  <2>1. Len(Rest(i)) <= 1
    BY <1>1, RestOf DEF Types
  <2> QED
    BY <2>1 DEF Solo
<1>2. CASE \A k \in DOMAIN calls : Early(calls[k])
  <2>1. \A k \in DOMAIN Rest(i) : Early(Rest(i)[k])
    BY <1>2, RestOf
  <2> QED
    BY <2>1 DEF Solo, Early
<1> QED
  BY <1>1, <1>2 DEF Solo

\* A call that follows another takes its place.
LEMMA NextSolo ==
  ASSUME Types, Solo, NEW i \in DOMAIN calls, NEW e \in CallRecords,
         Early(e) \/ ~Early(calls[i]), calls' = Append(Rest(i), e)
  PROVE  Solo'
<1>0. Rest(i) \in Seq(CallRecords) /\ Len(Rest(i)) = Len(calls) - 1 /\ Len(calls) \in Nat
  BY RestOf DEF Types
<1>1. CASE Len(calls) <= 1
  <2>1. Len(Append(Rest(i), e)) <= 1
    BY <1>0, <1>1, Appended
  <2> QED
    BY <2>1 DEF Solo
<1>2. CASE \A k \in DOMAIN calls : Early(calls[k])
  <2>1. \A k \in DOMAIN Rest(i) : Early(Rest(i)[k])
    BY <1>2, RestOf
  <2>2. \A k \in DOMAIN Append(Rest(i), e) : Early(Append(Rest(i), e)[k])
    BY <1>0, <1>2, <2>1, Appended
  <2> QED
    BY <2>2 DEF Solo, Early
<1> QED
  BY <1>1, <1>2 DEF Solo

\* An answer changes nothing else of its call.
LEMMA AnsweredFields ==
  ASSUME NEW c \in CallRecords, NEW a
  PROVE  LET d == [c EXCEPT !.answer = a]
         IN  /\ d.what = c.what /\ d.answer = a
             /\ c.what = "amount" =>
                  d.way = c.way /\ d.count = c.count /\ d.then = c.then /\ d.seen = c.seen
             /\ c.what = "pay" => d.way = c.way /\ d.count = c.count /\ d.seen = c.seen
             /\ c.what = "redeem" => d.was = c.was
             /\ c.what = "pref" => d.was = c.was /\ d.pref = c.pref
<1>1. c.what = "amount" => c \in AmountCalls
  BY Kinds
<1>2. c.what = "pay" => c \in PayCalls
  BY Kinds
<1>3. c.what = "redeem" => c \in RedeemCalls
  BY Kinds
<1>4. c.what = "pref" => c \in PrefCalls
  BY Kinds
<1>5. [c EXCEPT !.answer = a].what = c.what /\ [c EXCEPT !.answer = a].answer = a
  BY DEF CallRecords, SelfCalls, InfoCalls, SubsCalls, TransferCalls, AmountCalls, PayCalls,
         RedeemCalls, PrefCalls, BuyCalls
<1> QED
  BY <1>1, <1>2, <1>3, <1>4, <1>5 DEF AmountCalls, PayCalls, RedeemCalls, PrefCalls

LEMMA ServeSolo ==
  ASSUME Types, Solo, NEW i \in DOMAIN calls, NEW a,
         calls' = [calls EXCEPT ![i] = [calls[i] EXCEPT !.answer = a]]
  PROVE  /\ Solo' /\ DOMAIN calls' = DOMAIN calls
         /\ calls'[i] = [calls[i] EXCEPT !.answer = a]
         /\ \A k \in DOMAIN calls : k # i => calls'[k] = calls[k]
         /\ \A k \in DOMAIN calls : Early(calls'[k]) <=> Early(calls[k])
<1>1. /\ DOMAIN calls' = DOMAIN calls /\ Len(calls') = Len(calls)
      /\ calls'[i] = [calls[i] EXCEPT !.answer = a]
      /\ \A k \in DOMAIN calls : k # i => calls'[k] = calls[k]
  BY DEF Types
<1>2. Early([calls[i] EXCEPT !.answer = a]) <=> Early(calls[i])
  <2>1. calls[i] \in CallRecords
    BY DEF Types
  <2> QED
    BY <2>1, AnsweredFields DEF Early
<1>3. \A k \in DOMAIN calls : Early(calls'[k]) <=> Early(calls[k])
  BY <1>1, <1>2
<1>4. Solo'
  BY <1>1, <1>3 DEF Solo, Early
<1> QED
  BY <1>1, <1>3, <1>4

LEMMA InitPriced ==
  ASSUME PageAssumption, Init
  PROVE  Priced
<1>1. /\ calls = <<Call("self"), Call("info"), Call("subs")>> /\ DOMAIN calls = 1..3
      /\ orders = <<>> /\ page.open = FALSE /\ page.ready = FALSE
  BY DEF Init
<1>2. \A k \in DOMAIN calls : calls[k].what \in {"self", "info", "subs"}
  BY <1>1 DEF Call
<1>3. Solo
  BY <1>2 DEF Solo, Early
<1>4. \A k \in DOMAIN calls : PaySound(calls[k]) /\ AmountSound(page, calls[k])
  BY <1>2 DEF PaySound, AmountSound
<1> QED
  BY <1>1, <1>3, <1>4 DEF Priced, OpenQuoted, MinKnown, ChargedAsShown

\* What the page shows changes while nothing is under way and no payment dialog opens.
LEMMA QuietPriced ==
  ASSUME Types, Priced, Idle, calls' = calls, orders' = orders, ~page'.open,
         page'.ready = page.ready, page'.min = page.min
  PROVE  Priced'
<1>1. DOMAIN calls = {}
  BY DEF Idle
<1>2. Solo'
  BY DEF Solo, Priced, Early
<1> QED
  BY <1>1, <1>2 DEF Priced, OpenQuoted, MinKnown, ChargedAsShown

\* One call is made while none is under way.
LEMMA MadePriced ==
  ASSUME PageAssumption, Types, Priced, Idle, NEW call \in CallRecords, Make(call),
         orders' = orders, page'.ready = page.ready, page'.min = page.min,
         PaySound(call), AmountSound(page', call),
         page'.open => /\ page'.payWay \in Ways /\ ~page'.transferOpen
                       /\ ~Early(call) /\ call.what # "transfer"
                       /\ Quote(page'.payWay, page'.count) = page'.amount
  PROVE  Priced'
<1>1. Solo' /\ \A k \in DOMAIN calls' : calls'[k] = call
  BY MadeOne
<1>2. OpenQuoted'
  BY <1>1 DEF OpenQuoted, Early
<1>3. MinKnown' /\ ChargedAsShown'
  BY DEF Priced, MinKnown, ChargedAsShown
<1>4. ASSUME NEW k \in DOMAIN calls' PROVE PaySound(calls'[k]) /\ AmountSound(page', calls'[k])
  <2>1. calls'[k] = call
    BY <1>1, <1>4
  <2> QED
    BY <2>1 DEF PaySound, AmountSound
<1> QED
  BY <1>1, <1>2, <1>3, <1>4 DEF Priced, PaySound

\* The least amount of a payment service that is configured is the page's, for Stripe when it
\* is the only one.
LEMMA LeastOfWay ==
  /\ LeastOf("stripe") = StripeMinTopUp
  /\ "alipay" \in Ways => LeastOf("alipay") = FirstMin
  /\ Ways \subseteq {"alipay", "stripe"}
<1>1. LeastOf("stripe") = StripeMinTopUp
  BY Zenon DEF LeastOf
<1>2. LeastOf("alipay") = MinTopUp
  BY Zenon DEF LeastOf
<1>3. "alipay" \in Ways => "online" \in Enabled
  BY DEF Ways
<1> QED
  BY <1>1, <1>2, <1>3 DEF FirstMin, Ways

LEMMA MakersPriced ==
  ASSUME PageAssumption, Types, Priced, Waiting, Makers
  PROVE  Priced'
<1>1. Idle
  BY Zenon DEF Makers, EnterCount, BlurEmpty, preTopUp, onlineTopUp, waffoTopUp, onlineCreemTopUp,
         topUp, transfer, updateBillingPreference, handleRefresh, payPlan, User, Waiting
<1>2. page \in PageRecords /\ 1 \in Counts
  BY DEF Types, PageAssumption
<1>3. ASSUME NEW count \in Counts, EnterCount(count) PROVE Priced'
  <2> DEFINE call == AmountCall("alipay", count, "show")
  <2>1. /\ page' = [page EXCEPT !.count = count, !.preset = None] /\ ~page.open
        /\ Make(call) /\ orders' = orders
    BY <1>3 DEF EnterCount, Uncovered
  <2>2. call \in CallRecords
    BY MadeCalls, WaysType
  <2>3. PaySound(call) /\ AmountSound(page', call)
    BY DEF AmountCall, PaySound, AmountSound
  <2>4. ~page'.open /\ page'.ready = page.ready /\ page'.min = page.min
    BY <1>2, <2>1 DEF PageRecords
  <2> HIDE DEF call
  <2> QED
    BY <1>1, <2>1, <2>2, <2>3, <2>4, MadePriced
<1>4. CASE BlurEmpty
  <2> DEFINE call == AmountCall("alipay", 1, "show")
  <2>1. page' = [page EXCEPT !.count = 1] /\ ~page.open /\ Make(call) /\ orders' = orders
    BY <1>4 DEF BlurEmpty, Uncovered
  <2>2. call \in CallRecords
    BY <1>2, MadeCalls, WaysType
  <2>3. PaySound(call) /\ AmountSound(page', call)
    BY DEF AmountCall, PaySound, AmountSound
  <2>4. ~page'.open /\ page'.ready = page.ready /\ page'.min = page.min
    BY <1>2, <2>1 DEF PageRecords
  <2> HIDE DEF call
  <2> QED
    BY <1>1, <2>1, <2>2, <2>3, <2>4, MadePriced
<1>5. ASSUME NEW way \in Ways, preTopUp(way) PROVE Priced'
  <2> DEFINE call == AmountCall(way, page.count, "open")
  <2>1. /\ page' = [page EXCEPT !.payWay = way, !.paying = TRUE]
        /\ ~page.open /\ ~page.transferOpen /\ Make(call) /\ orders' = orders /\ page.ready
        /\ way = "stripe" => page.count >= StripeMinTopUp
    BY <1>5 DEF preTopUp, Uncovered
  <2>2. call \in CallRecords
    BY <1>2, MadeCalls, WaysType DEF PageRecords
  <2>4. /\ ~page'.open /\ page'.ready = page.ready /\ page'.min = page.min
        /\ page'.payWay = way /\ page'.count = page.count /\ ~page'.transferOpen
    BY <1>2, <2>1 DEF PageRecords
  <2>5. page.count < LeastOf(way) => page.count < page.min
    <3>1. page.min = FirstMin
      BY <2>1 DEF Priced, MinKnown
    <3>2. page.count \in Nat /\ StripeMinTopUp \in Nat
      BY <1>2 DEF PageRecords, PageAssumption
    <3>3. way = "alipay" \/ way = "stripe"
      BY LeastOfWay
    <3> QED
      BY <2>1, <3>1, <3>2, <3>3, LeastOfWay
  <2>3. PaySound(call) /\ AmountSound(page', call)
    BY <2>4, <2>5 DEF AmountCall, PaySound, AmountSound
  <2> HIDE DEF call
  <2> QED
    BY <1>1, <2>1, <2>2, <2>3, <2>4, MadePriced
<1>6. CASE onlineTopUp
  <2>1. page.open /\ orders' = orders
    BY <1>6 DEF onlineTopUp
  <2>2. /\ page.payWay \in Ways /\ Quote(page.payWay, page.count) = page.amount
        /\ ~page.transferOpen
    BY <2>1 DEF Priced, OpenQuoted
  <2>3. page.count \in Counts /\ page.payWay \in PayWays
    BY <1>2, <2>2, WaysType DEF PageRecords
  <2>4. CASE page.amount = 0
    <3> DEFINE call == AmountCall(page.payWay, page.count, "pay")
    <3>1. page' = page /\ Make(call)
      BY <1>6, <2>4 DEF onlineTopUp
    <3>2. call \in CallRecords
      BY <2>3, MadeCalls
    <3>3. PaySound(call) /\ AmountSound(page', call)
      BY <2>1, <2>4, <3>1 DEF AmountCall, Seen, PaySound, AmountSound
    <3>4. ~Early(call) /\ call.what # "transfer"
      BY DEF AmountCall, Early
    <3> HIDE DEF call
    <3> QED
      BY <1>1, <2>1, <2>2, <3>1, <3>2, <3>3, <3>4, MadePriced
  <2>5. CASE page.amount # 0
    <3> DEFINE call == PayCall(page.payWay, page.count, Seen(page.payWay))
    <3>1. page' = [page EXCEPT !.confirming = TRUE] /\ Make(call)
      BY <1>6, <2>5 DEF onlineTopUp
    <3>2. call \in CallRecords
      BY <2>3, MadeCalls
    <3>3. PaySound(call) /\ AmountSound(page', call)
      BY <2>2 DEF PayCall, Seen, PaySound, AmountSound
    <3>4. ~Early(call) /\ call.what # "transfer"
      BY DEF PayCall, Early
    <3>5. /\ page'.transferOpen = page.transferOpen
          /\ page'.ready = page.ready /\ page'.min = page.min /\ page'.payWay = page.payWay
          /\ page'.count = page.count /\ page'.amount = page.amount
      BY <1>2, <3>1 DEF PageRecords
    <3> HIDE DEF call
    <3> QED
      BY <1>1, <2>1, <2>2, <3>1, <3>2, <3>3, <3>4, <3>5, MadePriced
  <2> QED
    BY <2>4, <2>5
<1>7. CASE waffoTopUp
  <2> DEFINE call == PayCall("waffo", page.count, Seen("waffo"))
  <2>1. page' = [page EXCEPT !.paying = TRUE] /\ ~page.open /\ Make(call) /\ orders' = orders
    BY <1>7 DEF waffoTopUp, Uncovered
  <2>2. call \in CallRecords
    BY <1>2, MadeCalls, WaysType DEF PageRecords
  <2>3. PaySound(call) /\ AmountSound(page', call)
    BY LeastOfWay DEF PayCall, Seen, PaySound, AmountSound
  <2>4. ~page'.open /\ page'.ready = page.ready /\ page'.min = page.min
    BY <1>2, <2>1 DEF PageRecords
  <2> HIDE DEF call
  <2> QED
    BY <1>1, <2>1, <2>2, <2>3, <2>4, MadePriced
<1>8. CASE onlineCreemTopUp
  <2> DEFINE seen == [way |-> "creem", count |-> page.creem, amount |-> 0]
             call == PayCall("creem", page.creem, seen)
  <2>1. page' = [page EXCEPT !.confirming = TRUE] /\ Make(call) /\ orders' = orders
    BY <1>8 DEF onlineCreemTopUp
  <2>2. call \in CallRecords
    <3>1. seen \in Seens /\ page.creem \in Counts \cup {None}
      BY <1>2, WaysType DEF PageRecords, Seens
    <3> QED
      BY <3>1, MadeCalls, WaysType
  <2>3. PaySound(call) /\ AmountSound(page', call)
    BY LeastOfWay DEF PayCall, PaySound, AmountSound
  <2>4. /\ page'.open = page.open /\ page'.ready = page.ready /\ page'.min = page.min
        /\ page'.transferOpen = page.transferOpen
        /\ page'.payWay = page.payWay /\ page'.count = page.count /\ page'.amount = page.amount
    BY <1>2, <2>1 DEF PageRecords
  <2>5. page.open => /\ page.payWay \in Ways /\ ~page.transferOpen
                     /\ Quote(page.payWay, page.count) = page.amount
    BY DEF Priced, OpenQuoted
  <2>6. ~Early(call) /\ call.what # "transfer"
    BY DEF PayCall, Early
  <2> HIDE DEF call
  <2> QED
    BY <1>1, <2>1, <2>2, <2>3, <2>4, <2>5, <2>6, MadePriced
<1>9. ASSUME NEW call \in CallRecords, Make(call), orders' = orders,
             call.what \in {"redeem", "transfer", "pref", "subs", "buy"},
             page' = page \/ \E code : page' = [page EXCEPT !.code = code, !.submitting = TRUE],
             ~page.open \/ call.what \notin {"subs", "transfer"}
      PROVE  Priced'
  <2>1. PaySound(call) /\ AmountSound(page', call)
    BY <1>9 DEF PaySound, AmountSound
  <2>4. /\ page'.open = page.open /\ page'.ready = page.ready /\ page'.min = page.min
        /\ page'.transferOpen = page.transferOpen
        /\ page'.payWay = page.payWay /\ page'.count = page.count /\ page'.amount = page.amount
    BY <1>2, <1>9 DEF PageRecords
  <2>5. page.open => /\ page.payWay \in Ways /\ ~page.transferOpen
                     /\ Quote(page.payWay, page.count) = page.amount
    BY DEF Priced, OpenQuoted
  <2>6. call.what # "subs" => ~Early(call)
    BY <1>9 DEF Early
  <2> QED
    BY <1>1, <1>9, <2>1, <2>4, <2>5, <2>6, MadePriced
<1>10. ASSUME NEW code \in Codes, topUp(code) PROVE Priced'
  <2>1. [what |-> "redeem", answer |-> None, code |-> code, was |-> account.quota] \in CallRecords
    BY DEF Types, RedeemCalls, Reply, CallRecords
  <2> QED
    BY <1>9, <1>10, <2>1 DEF topUp
<1>11. CASE transfer
  <2>1. ~page.open
    BY <1>11 DEF transfer, Priced, OpenQuoted
  <2> QED
    BY <1>9, <1>11, <2>1, MadeCalls DEF transfer, Call
<1>12. ASSUME NEW pref \in Prefs, updateBillingPreference(pref) PROVE Priced'
  <2>1. [what |-> "pref", answer |-> None, pref |-> pref, was |-> account.pref] \in CallRecords
    BY DEF Types, PrefCalls, Reply, PrefSet, CallRecords
  <2> QED
    BY <1>9, <1>12, <2>1 DEF updateBillingPreference
<1>13. CASE handleRefresh
  BY <1>9, <1>13, MadeCalls DEF handleRefresh, Call, Uncovered
<1>14. CASE payPlan
  <2>1. [what |-> "buy", answer |-> None, plan |-> buy.plan] \in CallRecords
    BY <1>14 DEF payPlan, Types, BuyCalls, Reply, CallRecords
  <2> QED
    BY <1>9, <1>14, <2>1 DEF payPlan
<1> QED
  BY Zenon, <1>3, <1>4, <1>5, <1>6, <1>7, <1>8, <1>10, <1>11, <1>12, <1>13, <1>14 DEF Makers

LEMMA ShowersPriced ==
  ASSUME PageAssumption, Types, Priced, Waiting, Showers
  PROVE  Priced'
<1>1. Idle /\ calls' = calls /\ orders' = orders
  BY Zenon DEF Showers, selectPresetAmount, creemPreTopUp, openTransfer, Cancel, openBuy, User, Waiting
<1>2. page \in PageRecords
  BY DEF Types
<1>3. ~page'.open /\ page'.ready = page.ready /\ page'.min = page.min
  <2>1. ASSUME NEW count \in Counts, selectPresetAmount(count)
        PROVE  ~page'.open /\ page'.ready = page.ready /\ page'.min = page.min
    <3>1. PICK x : page' = [page EXCEPT !.count = count, !.preset = count, !.amount = x]
      BY <2>1 DEF selectPresetAmount
    <3> QED
      BY <1>2, <2>1, <3>1 DEF selectPresetAmount, Uncovered, PageRecords
  <2>2. ASSUME NEW count \in Counts, creemPreTopUp(count)
        PROVE  ~page'.open /\ page'.ready = page.ready /\ page'.min = page.min
    BY <1>2, <2>2 DEF creemPreTopUp, Uncovered, PageRecords
  <2>3. CASE openTransfer
    BY <1>2, <2>3 DEF openTransfer, Uncovered, PageRecords
  <2>4. CASE Cancel
    <3>1. PICK m : page' = [page EXCEPT !.open = FALSE, !.creemOpen = FALSE,
                                        !.transferOpen = FALSE, !.creem = m]
      BY Zenon, <2>4 DEF Cancel
    <3> QED
      BY <1>2, <3>1 DEF PageRecords
  <2>5. ASSUME NEW plan \in Plans, openBuy(plan)
        PROVE  ~page'.open /\ page'.ready = page.ready /\ page'.min = page.min
    BY <2>5 DEF openBuy, Uncovered
  <2> QED
    BY Zenon, <2>1, <2>2, <2>3, <2>4, <2>5 DEF Showers
<1> QED
  BY <1>1, <1>3, QuietPriced

LEMMA CompletePriced ==
  ASSUME Priced, CompleteSubscriptionOrder
  PROVE  Priced'
<1>1. page' = page /\ calls' = calls /\ orders' = orders
  BY DEF CompleteSubscriptionOrder
<1> QED
  BY <1>1 DEF Priced, Solo, OpenQuoted, MinKnown, ChargedAsShown, Early, PaySound, AmountSound

LEMMA ServePriced ==
  ASSUME PageAssumption, Types, Priced, NEW i \in DOMAIN calls, Serve(i)
  PROVE  Priced'
<1> DEFINE c == calls[i]
<1>1. c \in CallRecords /\ Solo
  BY DEF Types, Priced
<1>2. PICK a \in {Answer(c), Refusal} :
        /\ a = Answer(c) \/ c.what \in Refusable
        /\ calls' = [calls EXCEPT ![i] = [c EXCEPT !.answer = a]]
        /\ a.ok => a = Answer(c) /\ Effect(c)
        /\ ~a.ok => server' = server /\ orders' = orders
  BY Zenon, Served
<1>3. /\ Solo' /\ DOMAIN calls' = DOMAIN calls
      /\ calls'[i] = [c EXCEPT !.answer = a]
      /\ \A k \in DOMAIN calls : k # i => calls'[k] = calls[k]
      /\ \A k \in DOMAIN calls : Early(calls'[k]) <=> Early(calls[k])
  BY <1>1, <1>2, ServeSolo
<1>4. page' = page
  BY DEF Serve
<1>5. \A k \in DOMAIN calls : calls'[k].what = calls[k].what
  <2>1. calls'[i].what = c.what
    BY <1>1, <1>3, AnsweredFields
  <2> QED
    BY <1>3, <2>1
<1>6. OpenQuoted' /\ MinKnown'
  <2>1. MinKnown'
    BY <1>4 DEF Priced, MinKnown
  <2>2. OpenQuoted'
    <3>1. SUFFICES ASSUME page.open PROVE OpenQuoted'
      BY <1>4 DEF OpenQuoted
    <3>2. /\ page.payWay \in Ways /\ Quote(page.payWay, page.count) = page.amount
          /\ ~page.transferOpen
          /\ \A k \in DOMAIN calls : ~Early(calls[k]) /\ calls[k].what # "transfer"
      BY <3>1 DEF Priced, OpenQuoted
    <3>3. \A k \in DOMAIN calls' : ~Early(calls'[k]) /\ calls'[k].what # "transfer"
      BY <1>3, <1>5, <3>2
    <3> QED
      BY <1>4, <3>2, <3>3 DEF OpenQuoted, Early
  <2> QED
    BY <2>1, <2>2
<1>7. PaySound(c) /\ AmountSound(page, c)
  BY DEF Priced
<1>8. PaySound(calls'[i]) /\ AmountSound(page', calls'[i])
  <2>1. CASE c.what = "pay"
    <3>1. LET e == calls'[i] IN e.what = "pay" /\ e.way = c.way /\ e.count = c.count /\ e.seen = c.seen
      BY <1>1, <1>3, <2>1, AnsweredFields
    <3> QED
      BY <1>7, <2>1, <3>1 DEF PaySound, AmountSound
  <2>2. CASE c.what = "amount"
    <3>1. LET e == calls'[i]
          IN  /\ e.what = "amount" /\ e.way = c.way /\ e.count = c.count /\ e.then = c.then
              /\ e.seen = c.seen /\ e.answer = a
      BY <1>1, <1>3, <2>2, AnsweredFields
    <3>2. a = IF c.count < LeastOf(c.way) THEN Refusal ELSE Success(Quote(c.way, c.count))
      <4>1. c.what \notin Refusable
        BY <2>2 DEF Refusable
      <4> QED
        BY Zenon, <1>2, <2>2, <4>1, AnswerOf
    <3> QED
      BY <1>4, <1>7, <2>2, <3>1, <3>2 DEF PaySound, AmountSound
  <2>3. CASE c.what \notin {"pay", "amount"}
    BY <1>5, <2>3 DEF PaySound, AmountSound
  <2> QED
    BY <2>1, <2>2, <2>3
<1>9. \A k \in DOMAIN calls' : PaySound(calls'[k]) /\ AmountSound(page', calls'[k])
  BY <1>3, <1>4, <1>8 DEF Priced
<1>10. ChargedAsShown'
  <2>1. CASE orders' = orders
    BY <2>1 DEF Priced, ChargedAsShown
  <2>2. CASE a.ok /\ c.what = "pay"
    <3> DEFINE o == [way |-> c.way, count |-> c.count, seen |-> c.seen]
    <3>1. orders' = Append(orders, o)
      BY Zenon, <1>2, <2>2, EffectOf
    <3>2. o \in OrderRecords
      BY <1>1, <2>2, Kinds DEF PayCalls, OrderRecords
    <3>3. /\ o.way = o.seen.way /\ o.count = o.seen.count
          /\ o.way \in Ways => Quote(o.way, o.count) = o.seen.amount
      BY <1>7, <2>2 DEF PaySound
    <3>5. orders \in Seq(OrderRecords)
      BY DEF Types
    <3>4. \A k \in DOMAIN orders' : orders'[k] = o \/ \E j \in DOMAIN orders : orders'[k] = orders[j]
      BY <3>1, <3>2, <3>5, Appended
    <3> HIDE DEF o
    <3> QED
      BY <3>3, <3>4 DEF Priced, ChargedAsShown
  <2> QED
    BY Zenon, <1>2, <2>1, <2>2, EffectOf
<1> QED
  BY <1>3, <1>6, <1>9, <1>10 DEF Priced, PaySound

\* Beside a call of the first load there are only such calls, and no payment dialog.
LEMMA EarlyOthers ==
  ASSUME Types, Solo, NEW i \in DOMAIN calls, Early(calls[i])
  PROVE  \A j \in DOMAIN calls : Early(calls[j])
<1>1. ASSUME NEW j \in DOMAIN calls, ~Early(calls[j]) PROVE FALSE
  <2>1. i = j
    BY <1>1, Alone
  <2> QED
    BY <1>1, <2>1
<1> QED
  BY <1>1

\* The first load goes on.
LEMMA EarlyPriced ==
  ASSUME Priced, Solo', MinKnown', orders' = orders, ~page'.open,
         \A k \in DOMAIN calls' : Early(calls'[k]) /\ \E p : AmountSound(p, calls'[k])
  PROVE  Priced'
<1>1. ASSUME NEW k \in DOMAIN calls'
      PROVE  PaySound(calls'[k]) /\ AmountSound(page', calls'[k])
  <2>1. PICK p : AmountSound(p, calls'[k])
    BY <1>1
  <2>2. Early(calls'[k])
    BY <1>1
  <2> QED
    BY <2>1, <2>2 DEF Early, PaySound, AmountSound
<1>2. OpenQuoted'
  BY DEF OpenQuoted
<1>3. ChargedAsShown'
  BY DEF Priced, ChargedAsShown
<1> QED
  BY <1>1, <1>2, <1>3 DEF Priced, PaySound

LEMMA RestEarlyPriced ==
  ASSUME Types, Priced, NEW i \in DOMAIN calls, Early(calls[i]), MinKnown', orders' = orders,
         ~page'.open, calls' = Rest(i)
  PROVE  Priced'
<1>1. \A k \in DOMAIN calls' : \E j \in DOMAIN calls : calls'[k] = calls[j]
  BY RestOf
<1>2. \A j \in DOMAIN calls : Early(calls[j]) /\ AmountSound(page, calls[j])
  BY EarlyOthers DEF Priced
<1>3. Solo'
  BY RestSolo DEF Priced
<1>4. \A k \in DOMAIN calls' : Early(calls'[k]) /\ \E p : AmountSound(p, calls'[k])
  BY <1>1, <1>2
<1> QED
  BY <1>3, <1>4, EarlyPriced

\* The only call has returned, or another has taken its place.
LEMMA EndPriced ==
  ASSUME Priced, MinKnown', orders' = orders, calls' = <<>>,
         page'.open => /\ page'.payWay \in Ways /\ ~page'.transferOpen
                       /\ Quote(page'.payWay, page'.count) = page'.amount
  PROVE  Priced'
<1>1. Solo' /\ DOMAIN calls' = {}
  BY DEF Solo
<1>2. OpenQuoted'
  BY <1>1 DEF OpenQuoted
<1>3. ChargedAsShown'
  BY DEF Priced, ChargedAsShown
<1> QED
  BY <1>1, <1>2, <1>3 DEF Priced

LEMMA FollowPriced ==
  ASSUME Priced, MinKnown', orders' = orders, NEW call \in CallRecords, calls' = <<call>>,
         PaySound(call), AmountSound(page', call),
         page'.open => /\ page'.payWay \in Ways /\ ~page'.transferOpen
                       /\ ~Early(call) /\ call.what # "transfer"
                       /\ Quote(page'.payWay, page'.count) = page'.amount
  PROVE  Priced'
<1>1. Solo' /\ DOMAIN calls' = 1..1 /\ calls'[1] = call
  BY DEF Solo
<1>2. \A k \in DOMAIN calls' : calls'[k] = call
  BY <1>1
<1>3. OpenQuoted'
  BY <1>2 DEF OpenQuoted, Early
<1>4. ChargedAsShown'
  BY DEF Priced, ChargedAsShown
<1>5. \A k \in DOMAIN calls' : PaySound(calls'[k]) /\ AmountSound(page', calls'[k])
  BY <1>2
<1> QED
  BY <1>1, <1>3, <1>4, <1>5 DEF Priced, PaySound

LEMMA AmountReturnPriced ==
  ASSUME PageAssumption, Types, Priced, NEW i \in DOMAIN calls, AmountReturns(i),
         calls[i].answer # None, orders' = orders
  PROVE  Priced'
<1> DEFINE c == calls[i]
<1>1. c \in AmountCalls /\ page \in PageRecords
  <2>1. c \in CallRecords /\ page \in PageRecords
    BY DEF Types
  <2> QED
    BY <2>1, Kinds DEF AmountReturns
<1>2. AmountSound(page, c) /\ Solo
  BY DEF Priced
<1>3. PICK amount :
        /\ c.answer.ok /\ ~c.answer.lost => amount = c.answer.data
        /\ ~c.answer.ok /\ c.answer.lost => amount = page.amount
        /\ ~c.answer.ok /\ ~c.answer.lost => amount = 0
        /\ page' = [page EXCEPT
             !.amount = amount,
             !.paying = @ /\ c.then # "open",
             !.open = @ \/ (c.then = "open" /\ c.count >= page.min),
             !.confirming = @ \/ (c.then = "pay" /\ c.count >= page.min)]
        /\ calls' = Rest(i) \o (IF c.then = "pay" /\ c.count >= page.min
                                THEN <<PayCall(c.way, c.count, c.seen)>> ELSE <<>>)
  BY Zenon, AmountReturned
<1>4. /\ page'.ready = page.ready /\ page'.min = page.min /\ page'.payWay = page.payWay
      /\ page'.count = page.count /\ page'.transferOpen = page.transferOpen
      /\ page'.amount = amount
      /\ page'.open <=> page.open \/ (c.then = "open" /\ c.count >= page.min)
  BY <1>1, <1>3 DEF PageRecords
<1>5. MinKnown'
  BY <1>4 DEF Priced, MinKnown
<1>6. amount = IF c.count < LeastOf(c.way) THEN 0 ELSE Quote(c.way, c.count)
  <2>1. c.answer = IF c.count < LeastOf(c.way) THEN Refusal ELSE Success(Quote(c.way, c.count))
    BY <1>1, <1>2 DEF AmountSound, AmountCalls
  <2>2. CASE c.count < LeastOf(c.way)
    <3>1. c.answer.ok = FALSE /\ c.answer.lost = FALSE
      BY <2>1, <2>2 DEF Refusal
    <3> QED
      BY Zenon, <1>3, <2>2, <3>1
  <2>3. CASE ~(c.count < LeastOf(c.way))
    <3>1. /\ c.answer.ok = TRUE /\ c.answer.lost = FALSE
          /\ c.answer.data = Quote(c.way, c.count)
      BY <2>1, <2>3 DEF Success
    <3> QED
      BY Zenon, <1>3, <2>3, <3>1
  <2> QED
    BY <2>2, <2>3
<1>7. CASE c.then = "show"
  <2>1. Early(c)
    BY <1>1, <1>7 DEF Early, AmountCalls
  <2>2. ~page.open
    BY <2>1 DEF Priced, OpenQuoted
  <2>3. calls' = Rest(i)
    <3>1. Rest(i) \in Seq(CallRecords)
      BY RestOf
    <3> QED
      BY <1>3, <1>7, <3>1
  <2>4. ~page'.open
    BY <1>4, <1>7, <2>2
  <2> QED
    BY <1>5, <2>1, <2>3, <2>4, RestEarlyPriced
<1>8. CASE c.then = "open"
  <2>1. ~Early(c)
    BY <1>1, <1>8 DEF Early, AmountCalls
  <2>2. calls' = <<>>
    BY <1>2, <1>3, <1>8, <2>1, Alone
  <2>3. /\ ~page.open /\ ~page.transferOpen /\ c.way = page.payWay /\ c.way \in Ways
        /\ c.count = page.count
        /\ c.count < LeastOf(c.way) => c.count < page.min
    BY <1>1, <1>2, <1>8 DEF AmountSound, AmountCalls
  <2>4. page'.open => /\ page'.payWay \in Ways /\ ~page'.transferOpen
                      /\ Quote(page'.payWay, page'.count) = page'.amount
    <3>1. SUFFICES ASSUME page'.open
                   PROVE  Quote(c.way, c.count) = amount
      BY <1>4, <2>3
    <3>2. c.count >= page.min
      BY <1>4, <2>3, <3>1
    <3>3. c.count \in Nat /\ page.min \in Nat
      BY <1>1 DEF AmountCalls, PageRecords, PageAssumption
    <3>4. ~(c.count < LeastOf(c.way))
      BY <2>3, <3>2, <3>3
    <3> QED
      BY <1>6, <3>4
  <2> QED
    BY <1>5, <2>2, <2>4, EndPriced
<1>9. CASE c.then = "pay"
  <2>1. ~Early(c)
    BY <1>1, <1>9 DEF Early, AmountCalls
  <2>3. /\ page.open /\ c.way = page.payWay /\ c.count = page.count /\ page.amount = 0
        /\ c.seen = [way |-> c.way, count |-> c.count, amount |-> 0]
    BY <1>1, <1>2, <1>9 DEF AmountSound, AmountCalls
  <2>4. c.way \in Ways /\ Quote(c.way, c.count) = 0 /\ ~page.transferOpen
    BY <2>3 DEF Priced, OpenQuoted
  <2>5. amount = 0
    BY <1>6, <2>4
  <2>6. /\ page'.payWay \in Ways /\ ~page'.transferOpen
        /\ Quote(page'.payWay, page'.count) = page'.amount
    BY <1>4, <2>3, <2>4, <2>5
  <2>7. CASE c.count >= page.min
    <3> DEFINE call == PayCall(c.way, c.count, c.seen)
    <3>1. calls' = <<call>>
      <4>1. Rest(i) = <<>>
        BY <1>2, <2>1, Alone
      <4> QED
        BY <1>3, <1>9, <2>7, <4>1
    <3>2. call \in CallRecords
      BY <1>1, MadeCalls DEF AmountCalls
    <3>3. PaySound(call) /\ AmountSound(page', call) /\ ~Early(call) /\ call.what # "transfer"
      BY <2>3, <2>4 DEF PayCall, PaySound, AmountSound, Early
    <3> HIDE DEF call
    <3> QED
      BY <1>5, <2>6, <3>1, <3>2, <3>3, FollowPriced
  <2>8. CASE ~(c.count >= page.min)
    <3>1. calls' = <<>>
      BY <1>2, <1>3, <2>1, <2>8, Alone
    <3> QED
      BY <1>5, <2>6, <3>1, EndPriced
  <2> QED
    BY <2>7, <2>8
<1> QED
  BY <1>1, <1>7, <1>8, <1>9 DEF AmountCalls

LEMMA ReturnPriced ==
  ASSUME PageAssumption, Types, Priced, NEW i \in DOMAIN calls, Return(i)
  PROVE  Priced'
<1> DEFINE c == calls[i]
<1>1. c \in CallRecords /\ c.answer # None /\ page \in PageRecords /\ Solo
  BY DEF Types, Return, Settled, Priced
<1>2. orders' = orders
  BY DEF Return
<1>3. CASE InfoReturns(i)
  <2>1. Early(c) /\ c.what = "info"
    BY <1>3 DEF InfoReturns, Early
  <2>2. ~page.open
    BY <2>1 DEF Priced, OpenQuoted
  <2>3. CASE c.answer.ok
    <3> DEFINE e == AmountCall("alipay", FirstMin, "show")
    <3>1. /\ page' = [page EXCEPT !.ready = TRUE, !.min = FirstMin, !.count = FirstMin]
          /\ calls' = Append(Rest(i), e)
      BY Zenon, <1>3, <2>3 DEF InfoReturns
    <3>2. e \in CallRecords
      BY MadeCalls, FirstMinType, WaysType
    <3>3. Early(e) /\ AmountSound(page, e)
      BY DEF AmountCall, Early, AmountSound
    <3> HIDE DEF e
    <3>4. MinKnown' /\ ~page'.open
      BY <1>1, <2>2, <3>1 DEF PageRecords, MinKnown
    <3>5. \A j \in DOMAIN calls : Early(calls[j]) /\ AmountSound(page, calls[j])
      BY <1>1, <2>1, EarlyOthers DEF Priced
    <3>6. Rest(i) \in Seq(CallRecords) /\ \A k \in DOMAIN Rest(i) : \E j \in DOMAIN calls : Rest(i)[k] = calls[j]
      BY RestOf
    <3>7. \A k \in DOMAIN calls' : calls'[k] = e \/ \E j \in DOMAIN Rest(i) : calls'[k] = Rest(i)[j]
      BY <3>1, <3>2, <3>6, Appended
    <3>8. \A k \in DOMAIN calls' : Early(calls'[k]) /\ \E p : AmountSound(p, calls'[k])
      BY <3>3, <3>5, <3>6, <3>7
    <3>9. Solo'
      BY <1>1, <3>1, <3>2, <3>3, NextSolo
    <3> QED
      BY <1>2, <3>4, <3>8, <3>9, EarlyPriced
  <2>4. CASE ~c.answer.ok
    <3>1. calls' = Rest(i) /\ page' = page
      BY Zenon, <1>3, <2>4 DEF InfoReturns
    <3>2. MinKnown'
      BY <3>1 DEF Priced, MinKnown
    <3> QED
      BY <1>2, <2>1, <2>2, <3>1, <3>2, RestEarlyPriced
  <2> QED
    BY <2>3, <2>4
<1>4. CASE AmountReturns(i)
  BY <1>1, <1>2, <1>4, AmountReturnPriced
<1>5. CASE SelfReturns(i) \/ SubsReturns(i)
  <2>1. Early(c) /\ calls' = Rest(i) /\ page' = page
    BY <1>5 DEF SelfReturns, SubsReturns, Early
  <2>2. ~page.open /\ MinKnown'
    BY <2>1 DEF Priced, OpenQuoted, MinKnown
  <2> QED
    BY <1>2, <2>1, <2>2, RestEarlyPriced
<1>6. ASSUME c.what \notin {"self", "subs", "info", "amount"}
      PROVE  Rest(i) = <<>>
  <2>1. ~Early(c)
    BY <1>6 DEF Early
  <2> QED
    BY <1>1, <2>1, Alone
<1>7. page.open => /\ page.payWay \in Ways /\ ~page.transferOpen
                   /\ Quote(page.payWay, page.count) = page.amount
                   /\ c.what # "transfer"
  BY DEF Priced, OpenQuoted
<1>8. ASSUME page'.ready = page.ready, page'.min = page.min, page'.payWay = page.payWay,
             page'.count = page.count, page'.amount = page.amount,
             page'.transferOpen => page.transferOpen,
             page'.open => page.open, calls' = Rest(i), c.what \notin {"self", "subs", "info", "amount"}
      PROVE  Priced'
  <2>1. MinKnown'
    BY <1>8 DEF Priced, MinKnown
  <2> QED
    BY <1>2, <1>6, <1>7, <1>8, <2>1, EndPriced
<1>9. CASE PayReturns(i)
  <2>1. c.what = "pay" /\ calls' = Rest(i)
    BY <1>9 DEF PayReturns
  <2>2. CASE page' = [page EXCEPT !.paying = FALSE]
    BY <1>1, <1>8, <2>1, <2>2 DEF PageRecords
  <2>3. CASE page' = [page EXCEPT !.creemOpen = FALSE, !.confirming = FALSE]
    BY <1>1, <1>8, <2>1, <2>3 DEF PageRecords
  <2>4. CASE page' = [page EXCEPT !.open = FALSE, !.confirming = FALSE]
    BY <1>1, <1>8, <2>1, <2>4 DEF PageRecords
  <2> QED
    BY Zenon, <1>9, <2>2, <2>3, <2>4, PayReturned
<1>10. CASE RedeemReturns(i)
  <2>1. c.what = "redeem" /\ calls' = Rest(i)
    BY <1>10 DEF RedeemReturns
  <2>2. PICK code : page' = [page EXCEPT !.submitting = FALSE, !.code = code]
    BY Zenon, <1>10 DEF RedeemReturns
  <2> QED
    BY <1>1, <1>8, <2>1, <2>2 DEF PageRecords
<1>11. CASE TransferReturns(i)
  <2>1. c.what = "transfer" /\ ~page.open
    BY <1>7, <1>11 DEF TransferReturns
  <2>2. CASE c.answer.ok
    <3>1. page' = [page EXCEPT !.transferOpen = FALSE] /\ calls' = Append(Rest(i), Call("self"))
      BY Zenon, <1>11, <2>2 DEF TransferReturns
    <3>2. calls' = <<Call("self")>>
      BY <1>6, <2>1, <3>1
    <3>3. MinKnown' /\ ~page'.open
      BY <1>1, <2>1, <3>1 DEF Priced, MinKnown, PageRecords
    <3>4. Call("self") \in CallRecords /\ PaySound(Call("self")) /\ AmountSound(page', Call("self"))
      BY MadeCalls DEF Call, PaySound, AmountSound
    <3> QED
      BY <1>2, <3>2, <3>3, <3>4, FollowPriced
  <2>3. CASE ~c.answer.ok
    <3>1. page' = page /\ calls' = Rest(i)
      BY Zenon, <1>11, <2>3 DEF TransferReturns
    <3> QED
      BY <1>8, <2>1, <3>1
  <2> QED
    BY <2>2, <2>3
<1>12. CASE PrefReturns(i)
  BY <1>8, <1>12 DEF PrefReturns
<1>13. CASE BuyReturns(i)
  BY <1>8, <1>13 DEF BuyReturns
<1> QED
  BY Zenon, <1>3, <1>4, <1>5, <1>9, <1>10, <1>11, <1>12, <1>13 DEF Return

LEMMA NextPriced ==
  ASSUME PageAssumption, Types, Priced, Waiting, [Next]_vars
  PROVE  Priced'
<1>1. CASE UNCHANGED vars
  BY <1>1 DEF vars, Priced, Solo, OpenQuoted, MinKnown, ChargedAsShown, Early, PaySound, AmountSound
<1>2. CASE Next
  <2>1. ASSUME NEW i \in DOMAIN calls, Lose(i) PROVE FALSE
    BY <2>1 DEF Lose, Waiting
  <2> QED
    BY Zenon, <1>1, <1>2, <2>1, Steps, MakersPriced, ShowersPriced, CompletePriced, ServePriced, ReturnPriced
<1> QED
  BY <1>1, <1>2

-----------------------------------------------------------------------------
(* The account.                                                            *)

LEMMA InitCurrent ==
  ASSUME PageAssumption, Init
  PROVE  Current
<1>1. /\ calls = <<Call("self"), Call("info"), Call("subs")>> /\ DOMAIN calls = 1..3
      /\ account.pref = server.pref
  BY DEF Init
<1>2. \A k \in DOMAIN calls : calls[k].what \in {"self", "info", "subs"} /\ calls[k].answer = None
  BY <1>1 DEF Call
<1>3. calls[1].what = "self" /\ 1 \in DOMAIN calls
  BY <1>1 DEF Call
<1>4. Solo
  BY <1>2 DEF Solo, Early
<1>5. \A k \in DOMAIN calls : BalSound(account, server, calls[k]) /\ PrefSound(account, server, calls[k])
  BY <1>2 DEF BalSound, PrefSound
<1>6. \E k \in DOMAIN calls : Mends(calls[k])
  BY <1>3 DEF Mends
<1> QED
  BY <1>1, <1>4, <1>5, <1>6 DEF Current

\* The user waits, so the page is the server's when a call is made.
LEMMA IdleCurrent ==
  ASSUME Current, Idle
  PROVE  Bal(account, server) /\ account.pref = server.pref
<1>1. DOMAIN calls = {}
  BY DEF Idle
<1> QED
  BY <1>1 DEF Current

LEMMA MakersCurrent ==
  ASSUME PageAssumption, Types, Current, Waiting, Makers
  PROVE  Current'
<1>1. Idle /\ server' = server
  BY Zenon DEF Makers, EnterCount, BlurEmpty, preTopUp, onlineTopUp, waffoTopUp, onlineCreemTopUp,
         topUp, transfer, updateBillingPreference, handleRefresh, payPlan, User, Waiting
<1>2. Bal(account, server) /\ account.pref = server.pref
  BY <1>1, IdleCurrent
<1>3. page.count \in Counts /\ 1 \in Counts /\ page.payWay \in PayWays /\ page.creem \in Counts \cup {None}
  BY DEF Types, PageRecords, PageAssumption, PayWays
<1>4. ASSUME NEW call \in CallRecords, Make(call), call.answer = None, account' = account,
             call.what # "pref", call.what = "redeem" => call.was = account.quota
      PROVE  Current'
  <2>1. Solo' /\ \A k \in DOMAIN calls' : calls'[k] = call
    BY <1>1, <1>4, MadeOne
  <2>2. BalSound(account', server', call) /\ PrefSound(account', server', call)
    BY <1>1, <1>2, <1>4 DEF BalSound, PrefSound, Bal, Ok
  <2>3. \A k \in DOMAIN calls' : BalSound(account', server', calls'[k]) /\ PrefSound(account', server', calls'[k])
    BY <2>1, <2>2
  <2> QED
    BY <1>1, <1>2, <1>4, <2>1, <2>3 DEF Current, Bal
<1>5. ASSUME NEW count \in Counts, EnterCount(count) PROVE Current'
  <2>1. AmountCall("alipay", count, "show") \in CallRecords
    BY MadeCalls, WaysType
  <2> QED
    BY <1>4, <1>5, <2>1 DEF EnterCount, AmountCall
<1>6. CASE BlurEmpty
  <2>1. AmountCall("alipay", 1, "show") \in CallRecords
    BY <1>3, MadeCalls, WaysType
  <2> QED
    BY <1>4, <1>6, <2>1 DEF BlurEmpty, AmountCall
<1>7. ASSUME NEW way \in Ways, preTopUp(way) PROVE Current'
  <2>1. AmountCall(way, page.count, "open") \in CallRecords
    BY <1>3, MadeCalls, WaysType
  <2> QED
    BY <1>4, <1>7, <2>1 DEF preTopUp, AmountCall
<1>8. CASE onlineTopUp
  <2>1. AmountCall(page.payWay, page.count, "pay") \in CallRecords
    BY <1>3, MadeCalls
  <2>2. PayCall(page.payWay, page.count, Seen(page.payWay)) \in CallRecords
    BY <1>3, MadeCalls
  <2>3. CASE Make(AmountCall(page.payWay, page.count, "pay"))
    BY <1>4, <1>8, <2>1, <2>3 DEF onlineTopUp, AmountCall
  <2>4. CASE Make(PayCall(page.payWay, page.count, Seen(page.payWay)))
    BY <1>4, <1>8, <2>2, <2>4 DEF onlineTopUp, PayCall
  <2> QED
    BY Zenon, <1>8, <2>3, <2>4 DEF onlineTopUp
<1>9. CASE waffoTopUp
  <2>1. PayCall("waffo", page.count, Seen("waffo")) \in CallRecords
    BY <1>3, MadeCalls, WaysType
  <2> QED
    BY <1>4, <1>9, <2>1 DEF waffoTopUp, PayCall
<1>10. CASE onlineCreemTopUp
  <2> DEFINE seen == [way |-> "creem", count |-> page.creem, amount |-> 0]
  <2>1. PayCall("creem", page.creem, seen) \in CallRecords
    <3>1. seen \in Seens
      BY <1>3, WaysType DEF Seens
    <3> QED
      BY <1>3, <3>1, MadeCalls, WaysType
  <2> QED
    BY <1>4, <1>10, <2>1 DEF onlineCreemTopUp, PayCall
<1>11. ASSUME NEW code \in Codes, topUp(code) PROVE Current'
  <2>1. [what |-> "redeem", answer |-> None, code |-> code, was |-> account.quota] \in CallRecords
    BY DEF Types, RedeemCalls, Reply, CallRecords
  <2> QED
    BY <1>4, <1>11, <2>1 DEF topUp
<1>12. CASE transfer
  BY <1>4, <1>12, MadeCalls DEF transfer, Call
<1>13. ASSUME NEW pref \in Prefs, updateBillingPreference(pref) PROVE Current'
  <2> DEFINE call == [what |-> "pref", answer |-> None, pref |-> pref, was |-> account.pref]
  <2>1. call \in CallRecords
    BY DEF Types, PrefCalls, Reply, PrefSet, CallRecords
  <2>2. /\ call.what = "pref" /\ call.answer = None /\ call.pref = pref
        /\ call.was = account.pref /\ Make(call) /\ account' = [account EXCEPT !.pref = pref]
    BY <1>13 DEF updateBillingPreference
  <2>3. account'.quota = account.quota /\ account'.aff = account.aff /\ account'.pref = pref
    BY <2>2 DEF Types
  <2> HIDE DEF call
  <2>4. /\ Solo' /\ \A k \in DOMAIN calls' : calls'[k] = call
        /\ \E k \in DOMAIN calls' : calls'[k] = call
    BY <1>1, <2>1, <2>2, MadeOne
  <2>5. BalSound(account', server', call) /\ PrefSound(account', server', call)
    BY <1>1, <1>2, <2>2, <2>3 DEF BalSound, PrefSound, Bal, Ok
  <2>6. Bal(account', server')
    BY <1>1, <1>2, <2>3 DEF Bal
  <2>7. \A k \in DOMAIN calls' : BalSound(account', server', calls'[k]) /\ PrefSound(account', server', calls'[k])
    BY <2>4, <2>5
  <2>8. \E k \in DOMAIN calls' : calls'[k].what = "pref"
    BY <2>2, <2>4
  <2> QED
    BY <2>4, <2>6, <2>7, <2>8 DEF Current, Bal
<1>14. CASE handleRefresh
  BY <1>4, <1>14, MadeCalls DEF handleRefresh, Call
<1>15. CASE payPlan
  <2>1. [what |-> "buy", answer |-> None, plan |-> buy.plan] \in CallRecords
    BY <1>15 DEF payPlan, Types, BuyCalls, Reply, CallRecords
  <2> QED
    BY <1>4, <1>15, <2>1 DEF payPlan
<1> QED
  BY Zenon, <1>5, <1>6, <1>7, <1>8, <1>9, <1>10, <1>11, <1>12, <1>13, <1>14, <1>15 DEF Makers

LEMMA SameCurrent ==
  ASSUME Current, account' = account, calls' = calls,
         server'.quota = server.quota, server'.aff = server.aff, server'.pref = server.pref
  PROVE  Current'
<1>1. Solo'
  BY DEF Current, Solo, Early
<1>2. \A k \in DOMAIN calls' : BalSound(account', server', calls'[k]) /\ PrefSound(account', server', calls'[k])
  BY DEF Current, BalSound, PrefSound, Bal
<1>3. Bal(account', server') \/ \E k \in DOMAIN calls' : Mends(calls'[k])
  BY DEF Current, Bal
<1> QED
  BY <1>1, <1>2, <1>3 DEF Current, Bal, Mends, Ok

LEMMA ShowersCurrent ==
  ASSUME Current, Showers
  PROVE  Current'
<1>1. account' = account /\ calls' = calls /\ server' = server
  BY Zenon DEF Showers, selectPresetAmount, creemPreTopUp, openTransfer, Cancel, openBuy
<1> QED
  BY <1>1, SameCurrent

LEMMA CompleteCurrent ==
  ASSUME PageAssumption, Types, Current, CompleteSubscriptionOrder
  PROVE  Current'
<1>1. account' = account /\ calls' = calls
  BY DEF CompleteSubscriptionOrder
<1>2. server'.quota = server.quota /\ server'.aff = server.aff /\ server'.pref = server.pref
  <2>1. PICK x, y : server' = [server EXCEPT !.pending = x, !.subs = y]
    <3>1. PICK i \in DOMAIN server.pending :
            server' = [server EXCEPT
              !.pending = RemoveAt(server.pending, i),
              !.subs[server.pending[i]] =
                 IF server.subs[server.pending[i]] < PlanLimit
                 THEN server.subs[server.pending[i]] + 1 ELSE server.subs[server.pending[i]]]
      BY DEF CompleteSubscriptionOrder
    <3> DEFINE x == RemoveAt(server.pending, i)
               y == [server.subs EXCEPT ![server.pending[i]] =
                 IF server.subs[server.pending[i]] < PlanLimit
                 THEN server.subs[server.pending[i]] + 1 ELSE server.subs[server.pending[i]]]
    <3>2. server' = [server EXCEPT !.pending = x, !.subs = y]
      BY <3>1 DEF Types
    <3> HIDE DEF x, y
    <3> QED
      BY <3>2
  <2> QED
    BY <2>1 DEF Types
<1> QED
  BY <1>1, <1>2, SameCurrent

LEMMA ServeCurrent ==
  ASSUME PageAssumption, Types, Current, NEW i \in DOMAIN calls, Serve(i)
  PROVE  Current'
<1> DEFINE c == calls[i]
<1>1. c \in CallRecords /\ Solo /\ c.answer = None
  BY DEF Types, Current, Serve
<1>2. PICK a \in {Answer(c), Refusal} :
        /\ a = Answer(c) \/ c.what \in Refusable
        /\ calls' = [calls EXCEPT ![i] = [c EXCEPT !.answer = a]]
        /\ a.ok => a = Answer(c) /\ Effect(c)
        /\ ~a.ok => server' = server /\ orders' = orders
  BY Zenon, Served
<1> DEFINE d == calls'[i]
<1>3. /\ Solo' /\ DOMAIN calls' = DOMAIN calls
      /\ d = [c EXCEPT !.answer = a]
      /\ \A k \in DOMAIN calls : k # i => calls'[k] = calls[k]
  BY <1>1, <1>2, ServeSolo
<1>4. account' = account
  BY DEF Serve
<1>5. /\ d.what = c.what /\ d.answer = a
      /\ c.what = "redeem" => d.was = c.was
      /\ c.what = "pref" => d.was = c.was /\ d.pref = c.pref
  BY <1>1, <1>3, AnsweredFields
<1>6. a # None
  <2>1. \/ a = Refusal
        \/ \E x : a = Success(x)
    BY Zenon, <1>1, <1>2, AnswerOf, Kinds
  <2> QED
    BY Zenon, <2>1 DEF PageAssumption
<1>7. ~Ok(c) /\ (Ok(d) <=> a.ok)
  BY Zenon, <1>1, <1>5, <1>6 DEF Ok
<1>8. BalSound(account, server, c) /\ PrefSound(account, server, c)
  BY DEF Current
<1>9. ASSUME server'.quota = server.quota, server'.aff = server.aff, server'.pref = server.pref,
             BalSound(account', server', d), PrefSound(account', server', d)
      PROVE  Current'
  <2>1. ASSUME NEW k \in DOMAIN calls', k # i
        PROVE  BalSound(account', server', calls'[k]) /\ PrefSound(account', server', calls'[k])
    <3>1. /\ calls'[k] = calls[k] /\ BalSound(account, server, calls[k])
          /\ PrefSound(account, server, calls[k])
      BY <1>3, <2>1 DEF Current
    <3> QED
      BY <1>4, <1>9, <3>1 DEF BalSound, PrefSound, Bal
  <2>2. \A k \in DOMAIN calls' : BalSound(account', server', calls'[k]) /\ PrefSound(account', server', calls'[k])
    BY <1>9, <2>1
  <2>3. \A k \in DOMAIN calls : Mends(calls[k]) => Mends(calls'[k])
    <3>1. Mends(c) => Mends(d)
      BY <1>5, <1>7 DEF Mends
    <3> QED
      BY <1>3, <3>1
  <2>4. \A k \in DOMAIN calls : calls[k].what = "pref" => calls'[k].what = "pref"
    BY <1>3, <1>5
  <2>5. Bal(account', server') \/ \E k \in DOMAIN calls' : Mends(calls'[k])
    BY <1>3, <1>4, <1>9, <2>3 DEF Current, Bal
  <2>6. account'.pref = server'.pref \/ \E k \in DOMAIN calls' : calls'[k].what = "pref"
    BY <1>3, <1>4, <1>9, <2>4 DEF Current
  <2> QED
    BY <1>3, <2>2, <2>5, <2>6 DEF Current, Bal, Mends, Ok
\* A call that is alone.
<1>10. ASSUME ~Early(c),
              BalSound(account', server', d), PrefSound(account', server', d),
              Bal(account', server') \/ Mends(d),
              account'.pref = server'.pref \/ d.what = "pref"
       PROVE  Current'
  <2>1. \A k \in DOMAIN calls' : k = i
    BY <1>1, <1>3, <1>10, Alone
  <2>2. i \in DOMAIN calls'
    BY <1>3
  <2>3. \A k \in DOMAIN calls' : BalSound(account', server', calls'[k]) /\ PrefSound(account', server', calls'[k])
    BY <1>10, <2>1
  <2> QED
    BY <1>3, <1>10, <2>2, <2>3 DEF Current, Bal, Mends, Ok
<1>11. CASE c.what \in {"info", "amount", "pay", "buy"}
  <2>1. server'.quota = server.quota /\ server'.aff = server.aff /\ server'.pref = server.pref
    <3>1. \/ server' = server
          \/ \E x : server' = [server EXCEPT !.pending = x]
      BY Zenon, <1>2, <1>11, EffectOf
    <3> QED
      BY <3>1 DEF Types
  <2>2. BalSound(account', server', d) /\ PrefSound(account', server', d)
    BY <1>5, <1>11 DEF BalSound, PrefSound
  <2> QED
    BY <1>9, <2>1, <2>2
<1>12. CASE c.what \in {"self", "subs"}
  <2>0. a = Answer(c)
    BY <1>2, <1>12 DEF Refusable
  <2>1. server' = server
    BY Zenon, <1>2, <1>12, EffectOf
  <2>2. BalSound(account', server', d) /\ PrefSound(account', server', d)
    <3>1. CASE c.what = "self"
      <4>1. a = Success([quota |-> server.quota, aff |-> server.aff])
        BY Zenon, <2>0, <3>1, AnswerOf
      <4> QED
        BY <1>5, <2>1, <3>1, <4>1 DEF BalSound, PrefSound
    <3>2. CASE c.what = "subs"
      <4>1. a = Success([pref |-> server.pref, subs |-> server.subs])
        BY Zenon, <2>0, <3>2, AnswerOf
      <4>2. a.ok /\ a.data.pref = server.pref
        BY <4>1 DEF Success
      <4> QED
        BY <1>5, <2>1, <3>2, <4>2 DEF BalSound, PrefSound
    <3> QED
      BY <1>12, <3>1, <3>2
  <2> QED
    BY <1>9, <2>1, <2>2
<1>13. CASE c.what \in {"redeem", "transfer", "pref"} /\ ~a.ok
  <2>1. server' = server
    BY <1>2, <1>13
  <2>2. BalSound(account', server', d) /\ PrefSound(account', server', d)
    BY <1>4, <1>5, <1>7, <1>8, <1>13, <2>1 DEF BalSound, PrefSound, Bal
  <2> QED
    BY <1>9, <2>1, <2>2
<1>14. CASE c.what \in {"redeem", "transfer", "pref"} /\ a.ok
  <2>1. ~Early(c)
    BY <1>14 DEF Early
  <2>2. \A k \in DOMAIN calls : k = i
    BY <1>1, <2>1, Alone
  <2>3. Bal(account, server)
    <3>1. ~Mends(c)
      BY <1>7, <1>14 DEF Mends
    <3> QED
      BY <2>2, <3>1 DEF Current
  <2>4. c.what # "pref" => account.pref = server.pref
    BY <2>2 DEF Current
  <2>5. CASE c.what = "redeem"
    <3>1. a = Success(CodeQuota)
      BY Zenon, <1>2, <1>14, <2>5, AnswerOf, NotOk
    <3>2. server' = [server EXCEPT !.codes = @ \ {c.code}, !.quota = @ + CodeQuota]
      BY Zenon, <1>2, <1>14, <2>5, EffectOf
    <3>3. /\ server'.quota = server.quota + CodeQuota /\ server'.aff = server.aff
          /\ server'.pref = server.pref
      BY <3>2 DEF Types
    <3>4. a.data = CodeQuota
      BY <3>1 DEF Success
    <3>5. c.was = server.quota
      BY <1>7, <1>8, <2>5 DEF BalSound
    <3>6. BalSound(account', server', d) /\ PrefSound(account', server', d) /\ Mends(d)
      BY <1>4, <1>5, <1>7, <1>14, <2>3, <2>5, <3>3, <3>4, <3>5 DEF BalSound, PrefSound, Mends, Bal
    <3> QED
      BY <1>4, <1>10, <2>1, <2>4, <2>5, <3>3, <3>6
  <2>6. CASE c.what = "transfer"
    <3>2. server' = [server EXCEPT !.aff = @ - TransferQuota, !.quota = @ + TransferQuota]
      BY Zenon, <1>2, <1>14, <2>6, EffectOf
    <3>3. server'.pref = server.pref
      BY <3>2 DEF Types
    <3>4. BalSound(account', server', d) /\ PrefSound(account', server', d) /\ Mends(d)
      BY <1>5, <1>7, <1>14, <2>6 DEF BalSound, PrefSound, Mends
    <3> QED
      BY <1>4, <1>10, <2>1, <2>4, <2>6, <3>3, <3>4
  <2>7. CASE c.what = "pref"
    <3>1. a = Success(c.pref)
      BY Zenon, <1>2, <1>14, <2>7, AnswerOf
    <3>2. server' = [server EXCEPT !.pref = c.pref]
      BY Zenon, <1>2, <1>14, <2>7, EffectOf
    <3>3. server'.quota = server.quota /\ server'.aff = server.aff /\ server'.pref = c.pref
      BY <3>2 DEF Types
    <3>4. a.data = c.pref
      BY <3>1 DEF Success
    <3>5. BalSound(account', server', d) /\ PrefSound(account', server', d)
      BY <1>4, <1>5, <1>7, <1>8, <1>14, <2>7, <3>3, <3>4 DEF BalSound, PrefSound
    <3>6. Bal(account', server')
      BY <1>4, <2>3, <3>3 DEF Bal
    <3> QED
      BY <1>5, <1>10, <2>1, <2>7, <3>5, <3>6
  <2> QED
    BY <1>14, <2>5, <2>6, <2>7
<1> QED
  BY <1>1, <1>11, <1>12, <1>13, <1>14, Kinds

\* A call returns that changed nothing the account shows, perhaps followed by another.
LEMMA PassCurrent ==
  ASSUME PageAssumption, Types, Current, NEW i \in DOMAIN calls, account' = account, server' = server,
         ~Mends(calls[i]), calls[i].what # "pref", Solo',
         \A j \in DOMAIN calls : j # i => \E k \in DOMAIN calls' : calls'[k] = calls[j],
         \A k \in DOMAIN calls' : calls'[k].what \in {"amount", "pay"}
                                  \/ \E j \in DOMAIN calls : calls'[k] = calls[j]
  PROVE  Current'
<1>1. ASSUME NEW k \in DOMAIN calls'
      PROVE  BalSound(account', server', calls'[k]) /\ PrefSound(account', server', calls'[k])
  <2>1. CASE calls'[k].what \in {"amount", "pay"}
    BY <2>1 DEF BalSound, PrefSound
  <2>2. CASE \E j \in DOMAIN calls : calls'[k] = calls[j]
    BY <2>2 DEF Current
  <2> QED
    BY <1>1, <2>1, <2>2
<1>2. Bal(account', server') \/ \E k \in DOMAIN calls' : Mends(calls'[k])
  BY DEF Current
<1>3. account'.pref = server'.pref \/ \E k \in DOMAIN calls' : calls'[k].what = "pref"
  BY DEF Current
<1> QED
  BY <1>1, <1>2, <1>3 DEF Current, Bal, Mends, Ok

\* A call of the first load returns.
LEMMA EarlyCurrent ==
  ASSUME Types, Current, NEW i \in DOMAIN calls, Early(calls[i]), calls' = Rest(i), server' = server,
         account'.pref = server.pref,
         \/ Bal(account', server)
         \/ account'.quota = account.quota /\ account'.aff = account.aff /\ ~Mends(calls[i])
  PROVE  Current'
<1>1. Solo' /\ Solo
  BY RestSolo DEF Current
<1>2. /\ \A k \in DOMAIN calls' : \E j \in DOMAIN calls : calls'[k] = calls[j]
      /\ \A j \in DOMAIN calls : j # i => \E k \in DOMAIN calls' : calls'[k] = calls[j]
  BY RestOf
<1>3. \A j \in DOMAIN calls : Early(calls[j])
  BY <1>1, EarlyOthers
<1>4. ASSUME NEW k \in DOMAIN calls'
      PROVE  BalSound(account', server', calls'[k]) /\ PrefSound(account', server', calls'[k])
  <2>1. PICK j \in DOMAIN calls : calls'[k] = calls[j]
    BY <1>2
  <2>2. BalSound(account, server, calls[j]) /\ PrefSound(account, server, calls[j]) /\ Early(calls[j])
    BY <1>3 DEF Current
  <2> QED
    BY <2>1, <2>2 DEF BalSound, PrefSound, Early
<1>5. Bal(account', server') \/ \E k \in DOMAIN calls' : Mends(calls'[k])
  <2>1. CASE Bal(account', server)
    BY <2>1
  <2>2. CASE account'.quota = account.quota /\ account'.aff = account.aff /\ ~Mends(calls[i])
    <3>1. CASE Bal(account, server)
      BY <2>2, <3>1 DEF Bal
    <3>2. CASE \E j \in DOMAIN calls : Mends(calls[j])
      BY <1>2, <2>2, <3>2
    <3> QED
      BY <3>1, <3>2 DEF Current
  <2> QED
    BY <2>1, <2>2
<1> QED
  BY <1>1, <1>4, <1>5 DEF Current, Bal, Mends, Ok

\* The only call returns.
LEMMA EndCurrent ==
  ASSUME calls' = <<>>, Bal(account', server'), account'.pref = server'.pref
  PROVE  Current'
<1>1. DOMAIN calls' = {} /\ Len(calls') <= 1
  OBVIOUS
<1> QED
  BY <1>1 DEF Current, Solo, Bal

LEMMA ReturnCurrent ==
  ASSUME PageAssumption, Types, Current, NEW i \in DOMAIN calls, Return(i)
  PROVE  Current'
<1> DEFINE c == calls[i]
<1>1. c \in CallRecords /\ c.answer # None /\ Solo
  BY DEF Types, Return, Settled, Current
<1>2. server' = server
  BY DEF Return
<1>3. BalSound(account, server, c) /\ PrefSound(account, server, c)
  BY DEF Current
<1>4. Ok(c) <=> c.answer.ok
  BY <1>1 DEF Ok
<1>5. account \in [quota : Nat, aff : Nat, pref : PrefSet, subs : [Plans -> Nat]]
  BY DEF Types
<1>6. /\ Rest(i) \in Seq(CallRecords)
      /\ \A k \in DOMAIN Rest(i) : \E j \in DOMAIN calls : Rest(i)[k] = calls[j]
      /\ \A j \in DOMAIN calls : j # i => \E k \in DOMAIN Rest(i) : Rest(i)[k] = calls[j]
  BY RestOf
\* The account stays, and so do the other calls.
<1>7. ASSUME account' = account, calls' = Rest(i), ~Mends(c), c.what # "pref"
      PROVE  Current'
  <2>1. Solo'
    BY <1>1, <1>7, RestSolo
  <2> QED
    BY <1>2, <1>6, <1>7, <2>1, PassCurrent
\* Another call follows.
<1>8. ASSUME account' = account, NEW e \in CallRecords, e.what \in {"amount", "pay"},
             Early(e) \/ ~Early(c), calls' = Append(Rest(i), e), ~Mends(c), c.what # "pref"
      PROVE  Current'
  <2>1. Solo'
    BY <1>1, <1>8, NextSolo
  <2>2. /\ \A k \in DOMAIN calls' : calls'[k] = e \/ \E j \in DOMAIN Rest(i) : calls'[k] = Rest(i)[j]
        /\ \A j \in DOMAIN Rest(i) : \E k \in DOMAIN calls' : calls'[k] = Rest(i)[j]
    BY <1>6, <1>8, Appended
  <2>3. \A j \in DOMAIN calls : j # i => \E k \in DOMAIN calls' : calls'[k] = calls[j]
    BY <1>6, <2>2
  <2>4. \A k \in DOMAIN calls' : calls'[k].what \in {"amount", "pay"}
                                 \/ \E j \in DOMAIN calls : calls'[k] = calls[j]
    BY <1>6, <1>8, <2>2
  <2> QED
    BY <1>2, <1>8, <2>1, <2>3, <2>4, PassCurrent
<1>9. ASSUME ~Early(c)
      PROVE  /\ Rest(i) = <<>>
             /\ c.what # "pref" => account.pref = server.pref
             /\ ~Mends(c) => Bal(account, server)
  <2>1. Rest(i) = <<>> /\ \A j \in DOMAIN calls : j = i
    BY <1>1, <1>9, Alone
  <2> QED
    BY <2>1 DEF Current
<1>10. CASE InfoReturns(i)
  <2>1. c.what = "info" /\ ~Mends(c) /\ account' = account
    BY <1>10 DEF InfoReturns, Mends
  <2>2. CASE c.answer.ok
    <3>1. calls' = Append(Rest(i), AmountCall("alipay", FirstMin, "show"))
      BY Zenon, <1>10, <2>2 DEF InfoReturns
    <3>2. AmountCall("alipay", FirstMin, "show") \in CallRecords
      BY MadeCalls, FirstMinType, WaysType
    <3>3. /\ AmountCall("alipay", FirstMin, "show").what = "amount"
          /\ Early(AmountCall("alipay", FirstMin, "show"))
      BY DEF AmountCall, Early
    <3> QED
      BY <1>8, <2>1, <3>1, <3>2, <3>3
  <2>3. CASE ~c.answer.ok
    <3>1. calls' = Rest(i)
      BY Zenon, <1>10, <2>3 DEF InfoReturns
    <3> QED
      BY <1>7, <2>1, <3>1
  <2> QED
    BY <2>2, <2>3
<1>11. CASE AmountReturns(i)
  <2>1. c.what = "amount" /\ ~Mends(c) /\ account' = account
    BY <1>11 DEF AmountReturns, Mends
  <2>2. calls' = Rest(i) \o (IF c.then = "pay" /\ c.count >= page.min
                             THEN <<PayCall(c.way, c.count, c.seen)>> ELSE <<>>)
    BY Zenon, <1>11, AmountReturned
  <2>3. CASE c.then = "pay" /\ c.count >= page.min
    <3>1. PayCall(c.way, c.count, c.seen) \in CallRecords
      <4>1. c \in AmountCalls
        BY <1>1, <2>1, Kinds
      <4> QED
        BY <4>1, MadeCalls DEF AmountCalls
    <3>2. calls' = Append(Rest(i), PayCall(c.way, c.count, c.seen))
      <4>1. calls' = Rest(i) \o <<PayCall(c.way, c.count, c.seen)>>
        BY Zenon, <2>2, <2>3
      <4> HIDE DEF c
      <4> QED
        BY <1>6, <3>1, <4>1
    <3>3. PayCall(c.way, c.count, c.seen).what = "pay" /\ ~Early(c)
      BY <2>1, <2>3 DEF PayCall, Early
    <3> QED
      BY <1>8, <2>1, <3>1, <3>2, <3>3
  <2>4. CASE ~(c.then = "pay" /\ c.count >= page.min)
    <3>1. calls' = Rest(i) \o <<>>
      BY Zenon, <2>2, <2>4
    <3>2. calls' = Rest(i)
      BY <1>6, <3>1
    <3> QED
      BY <1>7, <2>1, <3>2
  <2> QED
    BY <2>3, <2>4
<1>12. CASE PayReturns(i)
  <2>1. c.what = "pay" /\ ~Mends(c) /\ account' = account /\ calls' = Rest(i)
    BY <1>12 DEF PayReturns, Mends
  <2> QED
    BY <1>7, <2>1
<1>13. CASE RedeemReturns(i)
  <2>1. c.what = "redeem" /\ ~Early(c) /\ calls' = Rest(i)
    BY <1>13 DEF RedeemReturns, Early
  <2>2. CASE c.answer.ok
    <3>1. account' = [account EXCEPT !.quota = c.was + c.answer.data]
      BY Zenon, <1>13, <2>2 DEF RedeemReturns
    <3>2. c.was + c.answer.data = server.quota /\ account.aff = server.aff
      BY <1>3, <1>4, <2>1, <2>2 DEF BalSound
    <3>3. account'.quota = server.quota /\ account'.aff = account.aff /\ account'.pref = account.pref
      BY <1>5, <3>1, <3>2
    <3> QED
      BY <1>2, <1>9, <2>1, <3>2, <3>3, EndCurrent DEF Bal
  <2>3. CASE ~c.answer.ok
    <3>1. account' = account
      BY Zenon, <1>13, <2>3 DEF RedeemReturns
    <3>2. ~Mends(c)
      BY <1>4, <2>1, <2>3 DEF Mends
    <3> QED
      BY <1>7, <2>1, <3>1, <3>2
  <2> QED
    BY <2>2, <2>3
<1>14. CASE TransferReturns(i)
  <2>1. c.what = "transfer" /\ ~Early(c) /\ account' = account
    BY <1>14 DEF TransferReturns, Early
  <2>2. CASE c.answer.ok
    <3>1. calls' = Append(Rest(i), Call("self"))
      BY Zenon, <1>14, <2>2 DEF TransferReturns
    <3>2. calls' = <<Call("self")>>
      BY <1>9, <2>1, <3>1
    <3>3. DOMAIN calls' = 1..1 /\ calls'[1] = Call("self") /\ Len(calls') <= 1
      BY <3>2
    <3>4. BalSound(account', server', Call("self")) /\ PrefSound(account', server', Call("self"))
      BY DEF Call, BalSound, PrefSound
    <3>5. \A k \in DOMAIN calls' : BalSound(account', server', calls'[k])
                                   /\ PrefSound(account', server', calls'[k])
      BY <3>3, <3>4
    <3>6. Mends(Call("self"))
      BY DEF Call, Mends
    <3>7. \E k \in DOMAIN calls' : Mends(calls'[k])
      BY <3>3, <3>6
    <3>8. account'.pref = server'.pref
      BY <1>2, <1>9, <2>1
    <3> QED
      BY <3>3, <3>5, <3>7, <3>8 DEF Current, Solo, Mends, Ok
  <2>3. CASE ~c.answer.ok
    <3>1. calls' = Rest(i)
      BY Zenon, <1>14, <2>3 DEF TransferReturns
    <3>2. ~Mends(c)
      BY <1>4, <2>1, <2>3 DEF Mends
    <3> QED
      BY <1>7, <2>1, <3>1, <3>2
  <2> QED
    BY <2>2, <2>3
<1>15. CASE SelfReturns(i)
  <2>1. c.what = "self" /\ Early(c) /\ calls' = Rest(i)
    BY <1>15 DEF SelfReturns, Early
  <2>2. c.answer = Success([quota |-> server.quota, aff |-> server.aff])
    BY <1>1, <1>3, <2>1 DEF BalSound
  <2>3. c.answer.ok /\ c.answer.data.quota = server.quota /\ c.answer.data.aff = server.aff
    BY <2>2 DEF Success
  <2>4. account' = [account EXCEPT !.quota = c.answer.data.quota, !.aff = c.answer.data.aff]
    BY Zenon, <1>15, <2>3 DEF SelfReturns
  <2>5. account'.quota = server.quota /\ account'.aff = server.aff /\ account'.pref = account.pref
    BY <1>5, <2>3, <2>4
  <2>6. account.pref = server.pref
    <3>1. \A j \in DOMAIN calls : Early(calls[j])
      BY <1>1, <2>1, EarlyOthers
    <3> QED
      BY <3>1 DEF Current, Early
  <2> QED
    BY <1>2, <2>1, <2>5, <2>6, EarlyCurrent DEF Bal
<1>16. CASE SubsReturns(i)
  <2>1. c.what = "subs" /\ Early(c) /\ calls' = Rest(i) /\ ~Mends(c)
    BY <1>16 DEF SubsReturns, Early, Mends
  <2>2. c.answer.ok /\ c.answer.data.pref = server.pref
    BY <1>1, <1>3, <2>1 DEF PrefSound
  <2>3. account' = [account EXCEPT !.pref = c.answer.data.pref, !.subs = c.answer.data.subs]
    BY Zenon, <1>16, <2>2 DEF SubsReturns
  <2>4. account'.quota = account.quota /\ account'.aff = account.aff /\ account'.pref = server.pref
    BY <1>5, <2>2, <2>3
  <2> QED
    BY <1>2, <2>1, <2>4, EarlyCurrent
<1>17. CASE PrefReturns(i)
  <2>1. c.what = "pref" /\ ~Early(c) /\ calls' = Rest(i) /\ ~Mends(c)
    BY <1>17 DEF PrefReturns, Early, Mends
  <2>2. PICK p : account' = [account EXCEPT !.pref = p] /\ p = server.pref
    <3>1. c.answer.ok => c.answer.data = server.pref
      BY <1>3, <1>4, <2>1 DEF PrefSound
    <3>2. ~c.answer.ok => c.was = server.pref
      BY <1>3, <1>4, <2>1 DEF PrefSound
    <3> QED
      BY Zenon, <1>17, <3>1, <3>2 DEF PrefReturns
  <2>3. account'.quota = account.quota /\ account'.aff = account.aff /\ account'.pref = server.pref
    BY <1>5, <2>2
  <2> QED
    BY <1>2, <1>9, <2>1, <2>3, EndCurrent DEF Bal
<1>18. CASE BuyReturns(i)
  <2>1. c.what = "buy" /\ ~Mends(c) /\ account' = account /\ calls' = Rest(i)
    BY <1>18 DEF BuyReturns, Mends
  <2> QED
    BY <1>7, <2>1
<1> QED
  BY Zenon, <1>10, <1>11, <1>12, <1>13, <1>14, <1>15, <1>16, <1>17, <1>18 DEF Return

LEMMA NextCurrent ==
  ASSUME PageAssumption, Types, Current, Waiting, [Next]_vars
  PROVE  Current'
<1>1. CASE UNCHANGED vars
  BY <1>1, SameCurrent DEF vars
<1>2. CASE Next
  <2>1. ASSUME NEW i \in DOMAIN calls, Lose(i) PROVE FALSE
    BY <2>1 DEF Lose, Waiting
  <2> QED
    BY Zenon, <1>1, <1>2, <2>1, Steps, MakersCurrent, ShowersCurrent, CompleteCurrent, ServeCurrent, ReturnCurrent
<1> QED
  BY <1>1, <1>2

-----------------------------------------------------------------------------
(* What the page promises.                                                 *)

\* However many orders of a plan are paid, it is given no more often than its limit allows
\* (CompleteSubscriptionOrder counts again).
THEOREM PlansStayWithinLimit ==
  ASSUME PageAssumption
  PROVE  Spec => []WithinLimit
<1>1. Init => Types
  BY InitTypes
<1>2. Types /\ [Next]_vars => Types'
  BY NextTypes
<1>3. Types => WithinLimit
  BY TypesImplied
<1> QED
  BY <1>1, <1>2, <1>3, PTL DEF Spec

\* A user who waits for the answers pays what the dialog shows, for the amount and through the
\* service it shows (preTopUp, onlineTopUp), when no answer is lost.
THEOREM PaymentsCostWhatIsShown ==
  ASSUME PageAssumption, Waiting
  PROVE  Spec => []ChargedAsShown
<1>1. Init => Types /\ Priced
  BY InitTypes, InitPriced
<1>2. Types /\ Priced /\ [Next]_vars => Types' /\ Priced'
  BY NextTypes, NextPriced
<1>3. Priced => ChargedAsShown
  BY DEF Priced
<1> QED
  BY <1>1, <1>2, <1>3, PTL DEF Spec

\* Once every answer is in, the page of a user who waits shows the balances and the preference the
\* server holds (topUp, transfer, updateBillingPreference), when no answer is lost.
THEOREM AccountIsTheServers ==
  ASSUME PageAssumption, Waiting
  PROVE  Spec => []AccountIsServers
<1>1. Init => Types /\ Current
  BY InitTypes, InitCurrent
<1>2. Types /\ Current /\ [Next]_vars => Types' /\ Current'
  BY NextTypes, NextCurrent
<1>3. Current => AccountIsServers
  BY IdleCurrent DEF AccountIsServers, Bal
<1> QED
  BY <1>1, <1>2, <1>3, PTL DEF Spec

=============================================================================
