-------------------------- MODULE WalletOrdersProofs --------------------------
(***************************************************************************)
(* Proofs about the credit wallet: an order is credited once whatever the  *)
(* gateway, the administrator and the page do, and what the page says of   *)
(* an order is so.                                                         *)
(***************************************************************************)
EXTENDS WalletOrders, TLAPS, SequenceTheorems, WellFoundedInduction

Ended == {"success", "failed", "expired"}
Lists == [Ids -> Statuses \cup {"expired"}]
Balances == [Ids -> {"held", "none"}]
Answers == [ok : BOOLEAN, data : {None} \cup Ids \cup Balances \cup Lists]
CallRecords == [what : {"wallet", "orders", "pay"}, order : Ids \cup {None},
                then : Ids \cup Methods \cup {None}, answer : {None} \cup Answers]
PageRecords == [wallet : Balances \cup {None}, orders : Lists, qr : Ids \cup {None},
                paying : BOOLEAN, said : ({"paid", "void"} \X Ids) \cup {None},
                timer : BOOLEAN, away : BOOLEAN]

-----------------------------------------------------------------------------
(* Sequences of calls.                                                     *)

\* RemoveAt drops one element and moves the later ones up.
LEMMA Removed ==
  ASSUME NEW S, NEW s \in Seq(S), NEW c \in DOMAIN s
  PROVE  /\ RemoveAt(s, c) \in Seq(S)
         /\ Len(RemoveAt(s, c)) = Len(s) - 1
         /\ \A k \in DOMAIN RemoveAt(s, c) :
              /\ k \in Nat /\ (IF k < c THEN k ELSE k + 1) \in DOMAIN s
              /\ RemoveAt(s, c)[k] = s[IF k < c THEN k ELSE k + 1]
<1>1. c \in 1..Len(s) /\ Len(s) \in Nat /\ DOMAIN s = 1..Len(s)
  OBVIOUS
<1> DEFINE a == SubSeq(s, 1, c - 1)
           b == SubSeq(s, c + 1, Len(s))
<1>2. a \in Seq(S) /\ Len(a) = c - 1 /\ \A k \in 1..(c - 1) : a[k] = s[k]
  BY <1>1
<1>3. b \in Seq(S) /\ Len(b) = Len(s) - c /\ \A k \in 1..(Len(s) - c) : b[k] = s[k + c]
  BY <1>1
<1>4. RemoveAt(s, c) = a \o b
  BY DEF RemoveAt
<1> HIDE DEF a, b
<1>5. /\ a \o b \in Seq(S) /\ Len(a \o b) = Len(a) + Len(b)
      /\ \A k \in 1..(Len(a) + Len(b)) : (a \o b)[k] = IF k <= Len(a) THEN a[k] ELSE b[k - Len(a)]
  BY <1>2, <1>3, ConcatProperties
<1>6. Len(a) + Len(b) = Len(s) - 1
  BY <1>1, <1>2, <1>3
<1>7. ASSUME NEW k \in 1..(Len(s) - 1)
      PROVE  /\ k \in Nat /\ (IF k < c THEN k ELSE k + 1) \in DOMAIN s
             /\ (a \o b)[k] = s[IF k < c THEN k ELSE k + 1]
  <2>1. CASE k < c
    <3>1. k \in 1..(c - 1) /\ k <= Len(a)
      BY <1>1, <1>2, <2>1
    <3>2. (a \o b)[k] = a[k]
      BY <1>5, <1>6, <3>1
    <3> QED
      BY <1>1, <1>2, <2>1, <3>1, <3>2
  <2>2. CASE ~(k < c)
    <3>1. /\ k - Len(a) \in 1..(Len(s) - c) /\ (k - Len(a)) + c = k + 1 /\ k + 1 \in 1..Len(s)
          /\ ~(k <= Len(a))
      BY <1>1, <1>2, <2>2
    <3>2. (a \o b)[k] = b[k - Len(a)]
      BY <1>5, <1>6, <3>1
    <3>3. b[k - Len(a)] = s[k + 1]
      BY <1>3, <3>1
    <3> QED
      BY <1>1, <2>2, <3>1, <3>2, <3>3
  <2> QED
    BY <2>1, <2>2
<1>8. DOMAIN (a \o b) = 1..(Len(s) - 1)
  BY <1>5, <1>6
<1> QED
  BY <1>4, <1>5, <1>6, <1>7, <1>8

\* One call changes.
LEMMA Changed ==
  ASSUME NEW S, NEW s \in Seq(S), NEW c \in DOMAIN s, NEW r \in S
  PROVE  /\ [s EXCEPT ![c] = r] \in Seq(S) /\ Len([s EXCEPT ![c] = r]) = Len(s)
         /\ DOMAIN [s EXCEPT ![c] = r] = DOMAIN s /\ [s EXCEPT ![c] = r][c] = r
         /\ \A k \in DOMAIN s : k # c => [s EXCEPT ![c] = r][k] = s[k]
  OBVIOUS

\* One call, or the two of a refresh, are added.
LEMMA Added ==
  ASSUME NEW S, NEW s \in Seq(S), NEW r \in S
  PROVE  /\ Append(s, r) \in Seq(S) /\ Len(Append(s, r)) = Len(s) + 1
         /\ \A k \in DOMAIN Append(s, r) :
              (k \in DOMAIN s /\ Append(s, r)[k] = s[k]) \/ (k = Len(s) + 1 /\ Append(s, r)[k] = r)
  OBVIOUS

LEMMA AddedTwo ==
  ASSUME NEW S, NEW s \in Seq(S), NEW r \in S, NEW t \in S
  PROVE  /\ s \o <<r, t>> \in Seq(S) /\ Len(s \o <<r, t>>) = Len(s) + 2
         /\ \A k \in DOMAIN (s \o <<r, t>>) :
              \/ k \in DOMAIN s /\ (s \o <<r, t>>)[k] = s[k]
              \/ k = Len(s) + 1 /\ (s \o <<r, t>>)[k] = r
              \/ k = Len(s) + 2 /\ (s \o <<r, t>>)[k] = t
  OBVIOUS

-----------------------------------------------------------------------------
(* The inductive invariant.                                                *)

RowsType ==
  /\ order \in [Ids -> [status : Statuses, method : Methods \cup {None}, aged : BOOLEAN]]
  /\ credited \in [Ids -> Nat]
  /\ gateway \in [Ids -> {"none", "open", "paid", "closed"}]
  /\ notes \in [Ids -> 0 .. MaxNotes]

CreditIsStatus == \A i \in Ids : credited[i] = IF order[i].status = "success" THEN 1 ELSE 0

\* The gateway knows no order that was not made.
KnownIsMade == \A i \in Ids : order[i].status = "none" => gateway[i] = "none"

RowsInv == RowsType /\ CreditIsStatus /\ KnownIsMade

Answered(r) == r.answer # None /\ r.answer.ok

\* What a list of orders says was so when it was read, and still is.
ListIsTrue(data) ==
  \A i \in Ids : /\ data[i] = "success" => credited[i] = 1
                 /\ data[i] \in Ended => ShownStatus(i) \in Ended

\* A call and what it brings.  The order of a payment that the gateway has not answered yet
\* is pending and unknown to the gateway: nothing but the call itself can end it.
Sound(r) ==
  /\ r \in CallRecords
  /\ r.what = "orders" => /\ r.then \in Ids \cup {None}
                          /\ Answered(r) => r.answer.data \in Lists /\ ListIsTrue(r.answer.data)
  /\ r.what = "wallet" => /\ r.then \in Ids \cup {None}
                          /\ r.then # None => credited[r.then] = 1
                          /\ Answered(r) => r.answer.data \in Balances
  /\ r.what = "pay" => /\ r.then \in Methods
                       /\ Answered(r) => r.answer.data \in Ids
  /\ r.order # None => /\ r.what = "pay" /\ r.answer = None
                       /\ order[r.order].status = "pending" /\ gateway[r.order] = "none"

AllSound(s) ==
  /\ s \in Seq(CallRecords)
  /\ \A c \in DOMAIN s : Sound(s[c])
  /\ \A c, d \in DOMAIN s : (s[c].order # None /\ s[c].order = s[d].order) => c = d

CallsInv == AllSound(calls)

SaysPaid == page.said # None /\ page.said[1] = "paid"

PageInv ==
  /\ page \in PageRecords
  /\ \A i \in Ids : page.orders[i] = "success" => credited[i] = 1
  /\ SaysPaid => credited[page.said[2]] = 1

OrderInv == RowsInv /\ CallsInv /\ PageInv

\* Credits stay and ended orders stay ended.
Grows ==
  \A i \in Ids : /\ credited[i] = 1 => credited'[i] = 1
                 /\ ShownStatus(i) \in Ended => ShownStatus(i)' \in Ended

-----------------------------------------------------------------------------
(* The rows.                                                               *)

LEMMA OrdersInitially ==
  ASSUME None \notin Ids, MaxNotes \in Nat, Init
  PROVE  OrderInv
<1>1. RowsInv
  BY DEF Init, RowsInv, RowsType, CreditIsStatus, KnownIsMade, NoOrder, Statuses
<1>2. \A w \in {"wallet", "orders"} : Sound(Call(w)) /\ Call(w).order = None
  BY DEF Call, Sound, CallRecords, Answered
<1>3. CallsInv
  <2> DEFINE w == Call("wallet")
             o == Call("orders")
  <2>1. Sound(w) /\ w.order = None /\ Sound(o) /\ o.order = None /\ calls = <<w, o>>
    BY <1>2 DEF Init
  <2> HIDE DEF w, o
  <2>2. w \in CallRecords /\ o \in CallRecords
    BY <2>1 DEF Sound
  <2>3. calls \in Seq(CallRecords) /\ DOMAIN calls = 1..2 /\ calls[1] = w /\ calls[2] = o
    BY <2>1, <2>2
  <2>4. ASSUME NEW c \in DOMAIN calls
        PROVE  calls[c] = w \/ calls[c] = o
    <3>1. c = 1 \/ c = 2
      BY <2>3
    <3> QED
      BY <2>3, <3>1
  <2> QED
    BY <2>1, <2>3, <2>4 DEF CallsInv, AllSound
<1>4. PageInv
  BY DEF Init, PageInv, SaysPaid, FreshPage, PageRecords, Lists, Statuses
<1> QED
  BY <1>1, <1>3, <1>4 DEF OrderInv

\* Crediting a pending or failed order.
LEMMA Crediting ==
  ASSUME RowsInv, NEW i \in Ids, order[i].status \in {"pending", "failed"}, Credit(i, "success")
  PROVE  /\ RowsType' <=> gateway' \in [Ids -> {"none", "open", "paid", "closed"}]
                          /\ notes' \in [Ids -> 0 .. MaxNotes]
         /\ CreditIsStatus' /\ Grows /\ order'[i].status = "success"
         /\ \A j \in Ids : j # i => order'[j] = order[j]
<1>1. /\ order' = [order EXCEPT ![i].status = "success"]
      /\ credited' = [credited EXCEPT ![i] = @ + 1]
  BY DEF Credit
<1>2. /\ order'[i].status = "success" /\ \A j \in Ids : j # i => order'[j] = order[j] /\ credited'[j] = credited[j]
      /\ credited[i] = 0 /\ credited'[i] = 1
  BY <1>1 DEF RowsInv, RowsType, CreditIsStatus
<1>3. /\ order' \in [Ids -> [status : Statuses, method : Methods \cup {None}, aged : BOOLEAN]]
      /\ credited' \in [Ids -> Nat]
  BY <1>1 DEF RowsInv, RowsType, Statuses
<1>4. CreditIsStatus'
  BY <1>2 DEF CreditIsStatus, RowsInv
<1>5. Grows
  BY <1>2 DEF Grows, ShownStatus, Ended
<1> QED
  BY <1>2, <1>3, <1>4, <1>5 DEF RowsType

\* What the server, the gateway and the administrator do to the rows; the calls and the page
\* are left alone, and so are the orders of payments that are not answered.
RowStep ==
  \E i \in Ids : Notify(i) \/ ManualCompleteTopUp(i) \/ GatewayPaid(i) \/ OrderAges(i) \/ GatewayCloses(i)

LEMMA RowsKeep ==
  ASSUME MaxNotes \in Nat, RowsInv, RowStep
  PROVE  /\ RowsInv' /\ Grows /\ UNCHANGED <<page, calls>>
         /\ \A j \in Ids :
              (order[j].status = "pending" /\ gateway[j] = "none" /\ \E c \in DOMAIN calls : calls[c].order = j)
                 => order'[j].status = "pending" /\ gateway'[j] = "none"
<1> USE DEF RowsInv
<1>1. PICK i \in Ids : Notify(i) \/ ManualCompleteTopUp(i) \/ GatewayPaid(i) \/ OrderAges(i) \/ GatewayCloses(i)
  BY DEF RowStep
<1>2. CASE Notify(i)
  <2>1. /\ gateway[i] = "paid" /\ notes' = [notes EXCEPT ![i] = @ + 1] /\ notes[i] < MaxNotes
        /\ UNCHANGED <<gateway, page, calls>>
    BY <1>2 DEF Notify
  <2>2. notes' \in [Ids -> 0 .. MaxNotes] /\ gateway' \in [Ids -> {"none", "open", "paid", "closed"}]
    BY <2>1 DEF RowsType
  <2>3. CASE Credit(i, "success") /\ order[i].status \in {"pending", "failed"}
    BY <2>1, <2>2, <2>3, Crediting DEF KnownIsMade
  <2>4. CASE UNCHANGED <<order, credited>>
    BY <2>1, <2>2, <2>4 DEF RowsType, CreditIsStatus, KnownIsMade, Grows, ShownStatus
  <2> QED
    BY <1>2, <2>3, <2>4 DEF Notify, CompleteTopUp
<1>3. CASE ManualCompleteTopUp(i)
  <2>1. /\ order[i].status = "pending" /\ Credit(i, "success") /\ UNCHANGED <<gateway, notes, page, calls>>
        /\ ~\E c \in DOMAIN calls : calls[c].order = i
    BY <1>3 DEF ManualCompleteTopUp
  <2>2. notes' \in [Ids -> 0 .. MaxNotes] /\ gateway' \in [Ids -> {"none", "open", "paid", "closed"}]
    BY <2>1 DEF RowsType
  <2> QED
    BY <2>1, <2>2, Crediting DEF KnownIsMade
<1>4. CASE GatewayPaid(i) \/ GatewayCloses(i)
  BY <1>4 DEF GatewayPaid, GatewayCloses, RowsType, CreditIsStatus, KnownIsMade, Grows, ShownStatus
<1>5. CASE OrderAges(i)
  <2>1. /\ order' = [order EXCEPT ![i].aged = TRUE] /\ order[i].method = "wechat"
        /\ UNCHANGED <<credited, gateway, notes, page, calls>>
    BY <1>5 DEF OrderAges
  <2>2. RowsType' /\ \A j \in Ids : /\ order'[j].status = order[j].status /\ order'[j].method = order[j].method
                                    /\ order[j].aged => order'[j].aged
    BY <2>1 DEF RowsType
  <2>3. CreditIsStatus' /\ KnownIsMade'
    BY <2>1, <2>2 DEF CreditIsStatus, KnownIsMade
  <2>4. Grows
    BY <2>1, <2>2 DEF Grows, ShownStatus, Ended
  <2> QED
    BY <2>1, <2>2, <2>3, <2>4
<1> QED
  BY <1>1, <1>2, <1>3, <1>4, <1>5

\* A sound call stays sound when the rows grow and its own order is left alone.
LEMMA SoundStays ==
  ASSUME NEW r, Sound(r), Grows,
         r.order # None => order'[r.order].status = "pending" /\ gateway'[r.order] = "none"
  PROVE  Sound(r)'
<1>1. ASSUME NEW data, ListIsTrue(data)
      PROVE  ListIsTrue(data)'
  BY <1>1 DEF ListIsTrue, Grows
<1>2. r \in CallRecords
  BY DEF Sound
<1>3. CASE r.what = "orders"
  BY <1>1, <1>2, <1>3 DEF Sound, Answered
<1>4. CASE r.what = "wallet"
  <2>1. r.then # None => r.then \in Ids /\ credited'[r.then] = 1
    BY <1>4 DEF Sound, Grows
  <2> QED
    BY <1>2, <1>4, <2>1 DEF Sound, Answered
<1>5. CASE r.what = "pay"
  BY <1>2, <1>5 DEF Sound, Answered
<1> QED
  BY <1>2, <1>3, <1>4, <1>5 DEF CallRecords

LEMMA AllSoundStay ==
  ASSUME NEW s, AllSound(s), Grows,
         \A c \in DOMAIN s : s[c].order # None =>
            order'[s[c].order].status = "pending" /\ gateway'[s[c].order] = "none"
  PROVE  AllSound(s)'
<1>1. ASSUME NEW c \in DOMAIN s
      PROVE  Sound(s[c])'
  BY SoundStays DEF AllSound
<1> QED
  BY <1>1 DEF AllSound

LEMMA RowStepKeeps ==
  ASSUME MaxNotes \in Nat, OrderInv, RowStep
  PROVE  OrderInv'
<1> USE DEF OrderInv
<1>1. /\ RowsInv' /\ Grows /\ UNCHANGED <<page, calls>>
      /\ \A j \in Ids :
              (order[j].status = "pending" /\ gateway[j] = "none" /\ \E c \in DOMAIN calls : calls[c].order = j)
                 => order'[j].status = "pending" /\ gateway'[j] = "none"
  BY RowsKeep
<1>2. CallsInv'
  <2>1. PICK s : s = calls
    OBVIOUS
  <2>2. ASSUME NEW c \in DOMAIN s
        PROVE  s[c].order # None => order'[s[c].order].status = "pending" /\ gateway'[s[c].order] = "none"
    <3>1. Sound(s[c])
      BY <2>1 DEF CallsInv, AllSound
    <3> QED
      BY <1>1, <2>1, <3>1 DEF Sound, CallRecords
  <2>3. AllSound(s)'
    BY <1>1, <2>1, <2>2, AllSoundStay DEF CallsInv
  <2>4. calls' = s
    BY <1>1, <2>1
  <2> QED
    BY <2>3, <2>4 DEF CallsInv
<1>4. PageInv'
  <2>1. SaysPaid => page.said[2] \in Ids
    BY DEF PageInv, SaysPaid, PageRecords
  <2> QED
    BY <1>1, <2>1 DEF PageInv, SaysPaid, Grows
<1> QED
  BY <1>1, <1>2, <1>4

-----------------------------------------------------------------------------
(* The calls.                                                              *)

LEMMA SoundWithout ==
  ASSUME NEW s, AllSound(s), NEW c \in DOMAIN s
  PROVE  AllSound(RemoveAt(s, c))
<1>1. s \in Seq(CallRecords)
  BY DEF AllSound
<1> DEFINE r == RemoveAt(s, c)
           at(k) == IF k < c THEN k ELSE k + 1
<1>2. r \in Seq(CallRecords) /\ \A k \in DOMAIN r : k \in Nat /\ at(k) \in DOMAIN s /\ r[k] = s[at(k)]
  BY <1>1, Removed
<1>3. c \in Nat
  BY <1>1
<1>4. \A k, l \in DOMAIN r : at(k) = at(l) => k = l
  BY <1>2, <1>3
<1> HIDE DEF r, at
<1>5. \A k \in DOMAIN r : Sound(r[k])
  BY <1>2 DEF AllSound
<1>6. \A k, l \in DOMAIN r : (r[k].order # None /\ r[k].order = r[l].order) => k = l
  BY <1>2, <1>4 DEF AllSound
<1>7. AllSound(r)
  BY <1>2, <1>5, <1>6 DEF AllSound
<1> QED
  BY <1>7 DEF r

LEMMA SoundWith ==
  ASSUME NEW s, AllSound(s), NEW r, Sound(r), r.order = None
  PROVE  AllSound(Append(s, r))
<1>1. s \in Seq(CallRecords) /\ r \in CallRecords
  BY DEF AllSound, Sound
<1> DEFINE t == Append(s, r)
<1>2. t \in Seq(CallRecords) /\ \A k \in DOMAIN t : (k \in DOMAIN s /\ t[k] = s[k]) \/ t[k] = r
  BY <1>1, Added
<1> HIDE DEF t
<1>3. AllSound(t)
  BY <1>2 DEF AllSound
<1> QED
  BY <1>3 DEF t

\* The two calls of a refresh.
LEMMA SoundRefresh ==
  ASSUME NEW s, AllSound(s)
  PROVE  AllSound(s \o <<Call("wallet"), Call("orders")>>)
<1>1. Sound(Call("wallet")) /\ Call("wallet").order = None
      /\ Sound(Call("orders")) /\ Call("orders").order = None
  BY DEF Call, Sound, CallRecords, Answered
<1>2. PICK w, o : w = Call("wallet") /\ o = Call("orders")
  OBVIOUS
<1>3. s \in Seq(CallRecords) /\ w \in CallRecords /\ o \in CallRecords
  BY <1>1, <1>2 DEF AllSound, Sound
<1> DEFINE t == s \o <<w, o>>
<1>4. t \in Seq(CallRecords) /\ \A k \in DOMAIN t : (k \in DOMAIN s /\ t[k] = s[k]) \/ t[k] = w \/ t[k] = o
  BY <1>3, AddedTwo
<1> HIDE DEF t
<1>5. AllSound(t)
  BY <1>1, <1>2, <1>4 DEF AllSound
<1> QED
  BY <1>2, <1>5 DEF t

\* With the rows unchanged, sound calls are sound in the next state.
LEMMA SoundNext ==
  ASSUME NEW s, AllSound(s), UNCHANGED <<order, credited, gateway>>, calls' = s
  PROVE  CallsInv'
<1>1. Grows
  BY DEF Grows, ShownStatus
<1>2. AllSound(s)'
  BY <1>1, AllSoundStay DEF AllSound, Sound
<1> QED
  BY <1>2 DEF CallsInv

\* One call is rewritten, and the rows may change with it.
LEMMA CallRewritten ==
  ASSUME OrderInv, Grows, NEW c \in DOMAIN calls, NEW r, Sound(r)', r \in CallRecords,
         calls' = [calls EXCEPT ![c] = r],
         \A k \in DOMAIN calls : (k # c /\ calls[k].order # None) =>
            /\ order'[calls[k].order].status = "pending" /\ gateway'[calls[k].order] = "none"
            /\ calls[k].order # r.order
  PROVE  CallsInv'
<1>1. PICK s : s = calls
  OBVIOUS
<1>2. AllSound(s) /\ s \in Seq(CallRecords) /\ c \in DOMAIN s
  BY <1>1 DEF OrderInv, CallsInv, AllSound
<1>3. /\ calls' \in Seq(CallRecords) /\ DOMAIN calls' = DOMAIN s /\ calls'[c] = r
      /\ \A k \in DOMAIN s : k # c => calls'[k] = s[k]
  BY <1>1, <1>2, Changed
<1>4. ASSUME NEW k \in DOMAIN s
      PROVE  Sound(calls[k])'
  <2>1. CASE k = c
    BY <1>3, <2>1
  <2>2. CASE k # c
    <3>1. Sound(s[k])'
      BY <1>1, <1>2, <2>2, SoundStays DEF AllSound
    <3> QED
      BY <1>3, <2>2, <3>1
  <2> QED
    BY <2>1, <2>2
<1>5. ASSUME NEW k \in DOMAIN s, NEW l \in DOMAIN s,
             calls'[k].order # None, calls'[k].order = calls'[l].order
      PROVE  k = l
  BY <1>1, <1>2, <1>3, <1>5 DEF AllSound
<1> QED
  BY <1>3, <1>4, <1>5 DEF CallsInv, AllSound

\* The page's own steps: refreshes, payments, polls, dialogs, and the way back.
PageStep ==
  \/ Refresh \/ TimerFires \/ refreshQrOrder \/ CloseQr \/ ComeBack
  \/ \E method \in Methods : createPayment(method)

LEMMA PageStepKeeps ==
  ASSUME OrderInv, PageStep
  PROVE  OrderInv'
<1> USE DEF OrderInv
<1>1. UNCHANGED <<order, credited, gateway, notes>>
  BY DEF PageStep, Refresh, TimerFires, createPayment, refreshQrOrder, CloseQr, ComeBack
<1>2. RowsInv'
  BY <1>1 DEF RowsInv, RowsType, CreditIsStatus, KnownIsMade
<1>3. page \in PageRecords
  BY DEF PageInv
<1>4. FreshPage \in PageRecords
  BY DEF FreshPage, PageRecords, Lists, Statuses
<1>5. PageInv'
  <2>1. CASE UNCHANGED page
    BY <1>1, <2>1 DEF PageInv, SaysPaid
  <2>2. CASE ComeBack
    <3>1. page' = [FreshPage EXCEPT !.timer = TRUE]
      BY <2>2 DEF ComeBack
    <3>2. page' \in PageRecords /\ page'.orders = [i \in Ids |-> "none"] /\ page'.said = None
      BY <1>4, <3>1 DEF PageRecords, FreshPage
    <3> QED
      BY <3>2 DEF PageInv, SaysPaid
  <2>3. CASE TimerFires \/ CloseQr \/ \E method \in Methods : createPayment(method)
    <3>1. page' \in PageRecords /\ page'.orders = page.orders /\ page'.said = page.said
      BY <1>3, <2>3 DEF TimerFires, CloseQr, createPayment, PageRecords
    <3> QED
      BY <1>1, <3>1 DEF PageInv, SaysPaid
  <2> QED
    BY <2>1, <2>2, <2>3 DEF PageStep, Refresh, refreshQrOrder
<1>6. CallsInv'
  <2>1. AllSound(calls)
    BY DEF CallsInv
  <2>2. CASE Refresh \/ TimerFires
    BY <1>1, <2>1, <2>2, SoundRefresh, SoundNext DEF Refresh, TimerFires
  <2>3. CASE ComeBack
    <3>1. AllSound(<<>>)
      BY DEF AllSound
    <3>2. AllSound(<<>> \o <<Call("wallet"), Call("orders")>>)
      BY <3>1, SoundRefresh
    <3>3. <<>> \o <<Call("wallet"), Call("orders")>> = <<Call("wallet"), Call("orders")>>
      OBVIOUS
    <3> QED
      BY <1>1, <2>3, <3>2, <3>3, SoundNext DEF ComeBack
  <2>4. CASE CloseQr
    BY <1>1, <2>1, <2>4, SoundNext DEF CloseQr
  <2>5. CASE refreshQrOrder
    <3>1. Sound(PollCall) /\ PollCall.order = None
      BY <1>3, <2>5 DEF refreshQrOrder, PollCall, Call, Sound, CallRecords, Answered, PageRecords
    <3> QED
      BY <1>1, <2>1, <2>5, <3>1, SoundWith, SoundNext DEF refreshQrOrder
  <2>6. CASE \E method \in Methods : createPayment(method)
    <3>1. PICK method \in Methods : createPayment(method)
      BY <2>6
    <3>2. Sound(PayCall(method)) /\ PayCall(method).order = None
      BY DEF PayCall, Call, Sound, CallRecords, Answered
    <3> QED
      BY <1>1, <2>1, <3>1, <3>2, SoundWith, SoundNext DEF createPayment
  <2> QED
    BY <2>2, <2>3, <2>4, <2>5, <2>6 DEF PageStep
<1> QED
  BY <1>2, <1>5, <1>6

\* The database gives the next order the least id that is free.
LEMMA LeastId ==
  ASSUME Ids \subseteq Nat, NEW T, T \subseteq Ids, T # {}
  PROVE  \E x \in T : \A y \in T : x = y \/ x < y
<1>1. PICK x \in T : \A y \in T : ~(<<y, x>> \in OpToRel(<, Nat))
  BY NatLessThanWellFounded, WFMin
<1>2. \A y \in T : ~(y < x)
  BY <1>1 DEF OpToRel
<1> QED
  BY <1>2

\* An order is inserted: it was nobody's, and nothing said it had ended.
LEMMA InsertKeeps ==
  ASSUME None \notin Ids, Ids \subseteq Nat, OrderInv, NEW c \in DOMAIN calls, InsertOrder(c)
  PROVE  OrderInv'
<1> USE DEF OrderInv
<1> DEFINE Free == {x \in Ids : order[x].status = "none"}
<1>1. PICK i : /\ order' = [order EXCEPT ![i] = [status |-> "pending", method |-> calls[c].then, aged |-> FALSE]]
               /\ calls' = [calls EXCEPT ![c].order = i]
               /\ i = CHOOSE x \in Ids : /\ order[x].status = "none"
                                         /\ \A j \in Ids : order[j].status = "none" => x = j \/ x < j
  BY DEF InsertOrder
<1>2. /\ calls[c].what = "pay" /\ calls[c].order = None /\ calls[c].answer = None
      /\ UNCHANGED <<credited, gateway, notes, page>>
      /\ Free # {} /\ Free \subseteq Ids
  BY DEF InsertOrder
<1>3. PICK x \in Free : \A y \in Free : x = y \/ x < y
  BY <1>2, LeastId
<1>4. i \in Ids /\ order[i].status = "none"
  BY <1>1, <1>3
<1> HIDE DEF Free
<1>5. PICK old : old = calls[c]
  OBVIOUS
<1>6. Sound(old) /\ old \in CallRecords /\ old.then \in Methods
  BY <1>2, <1>5 DEF CallsInv, AllSound, Sound
<1>7. RowsInv'
  <2>1. RowsType'
    BY <1>1, <1>2, <1>4, <1>5, <1>6 DEF RowsInv, RowsType, Statuses
  <2>2. CreditIsStatus' /\ KnownIsMade'
    BY <1>1, <1>2, <1>4 DEF RowsInv, RowsType, CreditIsStatus, KnownIsMade
  <2> QED
    BY <2>1, <2>2 DEF RowsInv
<1>8. /\ order'[i].status = "pending" /\ \A j \in Ids : j # i => order'[j] = order[j]
      /\ credited' = credited
  BY <1>1, <1>2, <1>4 DEF RowsInv, RowsType
<1>9. Grows
  BY <1>4, <1>8 DEF Grows, ShownStatus, Ended
<1>10. gateway'[i] = "none"
  BY <1>2, <1>4 DEF RowsInv, KnownIsMade
<1>11. CallsInv'
  <2>1. PICK r : r = [old EXCEPT !.order = i]
    OBVIOUS
  <2>2. /\ r \in CallRecords /\ r.what = "pay" /\ r.order = i /\ r.then = old.then /\ r.answer = None
    BY <1>2, <1>4, <1>5, <1>6, <2>1 DEF CallRecords
  <2>3. Sound(r)'
    BY <1>4, <1>6, <1>8, <1>10, <2>2 DEF Sound, Answered
  <2>4. calls' = [calls EXCEPT ![c] = r]
    BY <1>1, <1>5, <2>1 DEF CallsInv, AllSound
  <2>5. ASSUME NEW k \in DOMAIN calls, k # c, calls[k].order # None
        PROVE  /\ order'[calls[k].order].status = "pending" /\ gateway'[calls[k].order] = "none"
               /\ calls[k].order # r.order
    <3>1. Sound(calls[k])
      BY DEF CallsInv, AllSound
    <3>2. calls[k].order \in Ids /\ order[calls[k].order].status = "pending" /\ gateway[calls[k].order] = "none"
      BY <2>5, <3>1 DEF Sound, CallRecords
    <3> QED
      BY <1>2, <1>4, <1>8, <2>2, <3>2
  <2> QED
    BY <1>9, <2>2, <2>3, <2>4, <2>5, CallRewritten
<1>12. PageInv'
  BY <1>2 DEF PageInv, SaysPaid
<1> QED
  BY <1>7, <1>11, <1>12

\* The gateway answers a payment, or fails to.
LEMMA PrepayKeeps ==
  ASSUME None \notin Ids, OrderInv, NEW c \in DOMAIN calls, Prepaid(c) \/ PrepayFails(c)
  PROVE  OrderInv'
<1> USE DEF OrderInv
<1>1. PICK old, i : old = calls[c] /\ i = calls[c].order
  OBVIOUS
<1>2. Sound(old) /\ old \in CallRecords /\ old.what = "pay" /\ old.then \in Methods /\ i # None
      /\ old.answer = None /\ i = old.order
  BY <1>1 DEF CallsInv, AllSound, Sound, Prepaid, PrepayFails
<1>3. i \in Ids /\ order[i].status = "pending" /\ gateway[i] = "none"
  BY <1>2 DEF Sound, CallRecords
<1>4. UNCHANGED <<credited, notes, page>>
  BY DEF Prepaid, PrepayFails
<1>5. /\ gateway' \in [Ids -> {"none", "open", "paid", "closed"}]
      /\ \A j \in Ids : j # i => gateway'[j] = gateway[j] /\ order'[j] = order[j]
      /\ order' \in [Ids -> [status : Statuses, method : Methods \cup {None}, aged : BOOLEAN]]
      /\ order'[i].status \in {"pending", "failed"}
  <2>1. CASE Prepaid(c)
    BY <1>1, <1>3, <2>1 DEF Prepaid, RowsInv, RowsType
  <2>2. CASE PrepayFails(c)
    <3>1. PICK known \in {"none", "open"} : gateway' = [gateway EXCEPT ![i] = known]
      BY <1>1, <2>2 DEF PrepayFails
    <3>2. order' = [order EXCEPT ![i].status = "failed"]
      BY <1>1, <2>2 DEF PrepayFails
    <3> QED
      BY <1>3, <3>1, <3>2 DEF RowsInv, RowsType, Statuses
  <2> QED
    BY <2>1, <2>2
<1>6. RowsInv'
  <2>1. RowsType'
    BY <1>4, <1>5 DEF RowsInv, RowsType
  <2>2. CreditIsStatus' /\ KnownIsMade'
    BY <1>3, <1>4, <1>5 DEF RowsInv, CreditIsStatus, KnownIsMade
  <2> QED
    BY <2>1, <2>2 DEF RowsInv
<1>7. Grows
  <2>1. Prepaid(c) => order' = order
    BY DEF Prepaid
  <2>2. PrepayFails(c) => order'[i].status = "failed"
    BY <1>1, <1>3 DEF PrepayFails, RowsInv, RowsType
  <2> QED
    BY <1>4, <1>5, <2>1, <2>2 DEF Grows, ShownStatus, Ended
<1>8. CallsInv'
  <2>1. PICK a \in Answers : /\ calls' = [calls EXCEPT ![c].answer = a, ![c].order = None]
                             /\ a.ok => a.data = i
    <3>1. /\ Success(i) \in Answers /\ Success(i).data = i
          /\ Failure \in Answers /\ ~Failure.ok
      BY <1>3 DEF Success, Failure, Answers
    <3>2. \/ calls' = [calls EXCEPT ![c].answer = Success(i), ![c].order = None]
          \/ calls' = [calls EXCEPT ![c].answer = Failure, ![c].order = None]
      BY <1>1 DEF Prepaid, PrepayFails
    <3> QED
      BY <3>1, <3>2
  <2>2. PICK r : r = [old EXCEPT !.answer = a, !.order = None]
    OBVIOUS
  <2>3. /\ r \in CallRecords /\ r.what = "pay" /\ r.order = None /\ r.then = old.then /\ r.answer = a
    BY <1>2, <2>2 DEF CallRecords
  <2>4. Sound(r)'
    BY <1>2, <1>3, <2>1, <2>3 DEF Sound, Answered
  <2>5. calls' = [calls EXCEPT ![c] = r]
    BY <1>1, <2>1, <2>2 DEF CallsInv, AllSound
  <2>6. ASSUME NEW k \in DOMAIN calls, k # c, calls[k].order # None
        PROVE  /\ order'[calls[k].order].status = "pending" /\ gateway'[calls[k].order] = "none"
               /\ calls[k].order # r.order
    <3>1. Sound(calls[k])
      BY DEF CallsInv, AllSound
    <3>2. calls[k].order \in Ids /\ order[calls[k].order].status = "pending" /\ gateway[calls[k].order] = "none"
      BY <2>6, <3>1 DEF Sound, CallRecords
    <3>3. calls[k].order # i
      BY <1>1, <1>2, <2>6 DEF CallsInv, AllSound
    <3> QED
      BY <1>5, <2>3, <2>6, <3>2, <3>3
  <2> QED
    BY <1>7, <2>3, <2>4, <2>5, <2>6, CallRewritten
<1>9. PageInv'
  BY <1>4 DEF PageInv, SaysPaid
<1> QED
  BY <1>6, <1>8, <1>9

\* A read brings what is so; a lost answer brings nothing.
LEMMA ReadKeeps ==
  ASSUME OrderInv, NEW c \in DOMAIN calls, Read(c) \/ Lose(c)
  PROVE  OrderInv'
<1> USE DEF OrderInv
<1>1. UNCHANGED <<order, credited, gateway, notes, page>>
  BY DEF Read, Lose
<1>2. RowsInv' /\ PageInv' /\ Grows
  BY <1>1 DEF RowsInv, RowsType, CreditIsStatus, KnownIsMade, PageInv, SaysPaid, Grows, ShownStatus
<1>3. PICK old : old = calls[c]
  OBVIOUS
<1>4. Sound(old) /\ old \in CallRecords
  BY <1>3 DEF CallsInv, AllSound, Sound
<1>5. Wallet \in Balances
  BY DEF Wallet, Balances
<1>6. OrdersShown \in Lists /\ ListIsTrue(OrdersShown)
  <2>1. \A i \in Ids : order[i].status \in Statuses
    BY DEF RowsInv, RowsType
  <2>2. \A i \in Ids : ShownStatus(i) \in Statuses \cup {"expired"}
    BY <2>1 DEF ShownStatus
  <2>3. \A i \in Ids : ShownStatus(i) = "success" => credited[i] = 1
    BY DEF ShownStatus, RowsInv, CreditIsStatus
  <2>4. OrdersShown \in Lists /\ \A i \in Ids : OrdersShown[i] = ShownStatus(i)
    BY <2>2 DEF OrdersShown, Lists
  <2> QED
    BY <2>3, <2>4 DEF ListIsTrue
<1>7. PICK a \in Answers :
        /\ calls' = [calls EXCEPT ![c].answer = a]
        /\ a.ok => \/ old.what = "wallet" /\ a.data \in Balances
                   \/ old.what = "orders" /\ a.data \in Lists /\ ListIsTrue(a.data)
  <2>1. /\ Success(Wallet) \in Answers /\ Success(Wallet).data = Wallet
        /\ Success(OrdersShown) \in Answers /\ Success(OrdersShown).data = OrdersShown
        /\ Failure \in Answers /\ ~Failure.ok
    BY <1>5, <1>6 DEF Success, Failure, Answers
  <2>2. \/ calls' = [calls EXCEPT ![c].answer = Success(Wallet)] /\ old.what = "wallet"
        \/ calls' = [calls EXCEPT ![c].answer = Success(OrdersShown)] /\ old.what = "orders"
        \/ calls' = [calls EXCEPT ![c].answer = Failure]
    BY <1>3 DEF Read, Lose
  <2> QED
    BY <1>5, <1>6, <2>1, <2>2
<1>8. old.order = None
  BY <1>3, <1>4 DEF Read, Lose, Sound
<1>9. PICK r : r = [old EXCEPT !.answer = a]
  OBVIOUS
<1>10. r \in CallRecords /\ r.what = old.what /\ r.order = None /\ r.then = old.then /\ r.answer = a
  BY <1>4, <1>8, <1>9 DEF CallRecords
<1>11. Sound(r)
  BY <1>4, <1>7, <1>10 DEF Sound, Answered
<1>12. Sound(r)'
  BY <1>2, <1>10, <1>11, SoundStays
<1>13. calls' = [calls EXCEPT ![c] = r]
  BY <1>3, <1>7, <1>9 DEF CallsInv, AllSound
<1>14. ASSUME NEW k \in DOMAIN calls, k # c, calls[k].order # None
       PROVE  /\ order'[calls[k].order].status = "pending" /\ gateway'[calls[k].order] = "none"
              /\ calls[k].order # r.order
  BY <1>1, <1>10, <1>14 DEF CallsInv, AllSound, Sound
<1> QED
  BY <1>2, <1>10, <1>12, <1>13, <1>14, CallRewritten

\* The ways in which an answered call r, number c, goes on.
BalanceComes(c, r) ==
  /\ r.what = "wallet" /\ calls' = Rest(c)
  /\ page' = [page EXCEPT !.wallet = IF r.answer.ok THEN r.answer.data ELSE @,
                          !.said = IF r.then = None THEN @ ELSE <<"paid", r.then>>]

PollEnds(c, r) ==
  /\ r.what = "orders" /\ Answered(r) /\ r.then # None /\ r.answer.data[r.then] \in Ended
  /\ \/ /\ r.answer.data[r.then] = "success"
        /\ page' = [page EXCEPT !.orders = r.answer.data, !.qr = None]
        /\ calls' = Append(Rest(c), [Call("wallet") EXCEPT !.then = r.then])
     \/ /\ page' = [page EXCEPT !.orders = r.answer.data, !.qr = None, !.said = <<"void", r.then>>]
        /\ calls' = Rest(c)

ListComes(c, r) ==
  /\ r.what = "orders" /\ calls' = Rest(c)
  /\ page' = page \/ (Answered(r) /\ page' = [page EXCEPT !.orders = r.answer.data])

PayRefused(c, r) ==
  /\ r.what = "pay" /\ page' = [page EXCEPT !.paying = FALSE] /\ calls' = Rest(c)

QrShown(c, r) ==
  /\ r.what = "pay" /\ Answered(r)
  /\ page' = [page EXCEPT !.paying = FALSE, !.qr = r.answer.data]
  /\ calls' = Append(Rest(c), Call("orders"))

BrowserLeaves(c, r) ==
  /\ r.what = "pay" /\ page' = [FreshPage EXCEPT !.away = TRUE] /\ calls' = <<>>

LEMMA Returns ==
  ASSUME NEW c \in DOMAIN calls, Return(c), NEW r, r = calls[c]
  PROVE  /\ UNCHANGED <<order, credited, gateway, notes>> /\ r.answer # None
         /\ \/ BalanceComes(c, r) \/ PollEnds(c, r) \/ ListComes(c, r)
            \/ PayRefused(c, r) \/ QrShown(c, r) \/ BrowserLeaves(c, r)
<1>1. UNCHANGED <<order, credited, gateway, notes>> /\ r.answer # None
  BY DEF Return
<1>2. CASE WalletReturns(c)
  BY <1>1, <1>2 DEF WalletReturns, BalanceComes
<1>3. CASE OrdersReturn(c)
  <2> DEFINE found == IF r.then = None \/ ~r.answer.ok THEN "none" ELSE r.answer.data[r.then]
             next == IF r.answer.ok THEN [page EXCEPT !.orders = r.answer.data] ELSE page
  <2>1. /\ r.what = "orders"
        /\ CASE found = "success" ->
                  /\ page' = [next EXCEPT !.qr = None]
                  /\ calls' = Append(Rest(c), [Call("wallet") EXCEPT !.then = r.then])
             [] found \in {"failed", "expired"} ->
                  /\ page' = [next EXCEPT !.qr = None, !.said = <<"void", r.then>>]
                  /\ calls' = Rest(c)
             [] OTHER -> page' = next /\ calls' = Rest(c)
    BY <1>3 DEF OrdersReturn
  <2>2. found \in Ended => /\ Answered(r) /\ r.then # None /\ found = r.answer.data[r.then]
                           /\ next = [page EXCEPT !.orders = r.answer.data]
    BY <1>1 DEF Ended, Answered
  <2>3. next = page \/ (Answered(r) /\ next = [page EXCEPT !.orders = r.answer.data])
    BY <1>1 DEF Answered
  <2> HIDE DEF found, next
  <2>4. CASE found = "success"
    <3>1. /\ page' = [next EXCEPT !.qr = None]
          /\ calls' = Append(Rest(c), [Call("wallet") EXCEPT !.then = r.then])
      BY <2>1, <2>4
    <3> QED
      BY <1>1, <2>1, <2>2, <2>4, <3>1 DEF PollEnds, Ended
  <2>5. CASE found \in {"failed", "expired"}
    <3>1. /\ page' = [next EXCEPT !.qr = None, !.said = <<"void", r.then>>]
          /\ calls' = Rest(c)
      BY <2>1, <2>5
    <3> QED
      BY <1>1, <2>1, <2>2, <2>5, <3>1 DEF PollEnds, Ended
  <2>6. CASE found \notin {"success", "failed", "expired"}
    <3>1. page' = next /\ calls' = Rest(c)
      BY <2>1, <2>6
    <3> QED
      BY <1>1, <2>1, <2>3, <3>1 DEF ListComes
  <2> QED
    BY <1>1, <2>4, <2>5, <2>6
<1>4. CASE PayReturns(c)
  <2>1. /\ r.what = "pay"
        /\ CASE ~r.answer.ok -> page' = [page EXCEPT !.paying = FALSE] /\ calls' = Rest(c)
             [] r.answer.ok /\ r.then = "wechat" ->
                  /\ page' = [page EXCEPT !.paying = FALSE, !.qr = r.answer.data]
                  /\ calls' = Append(Rest(c), Call("orders"))
             [] OTHER -> page' = [FreshPage EXCEPT !.away = TRUE] /\ calls' = <<>>
    BY <1>4 DEF PayReturns
  <2>2. CASE ~r.answer.ok
    <3>1. page' = [page EXCEPT !.paying = FALSE] /\ calls' = Rest(c)
      BY <2>1, <2>2
    <3> QED
      BY <1>1, <2>1, <3>1 DEF PayRefused
  <2>3. CASE r.answer.ok /\ r.then = "wechat"
    <3>1. /\ page' = [page EXCEPT !.paying = FALSE, !.qr = r.answer.data]
          /\ calls' = Append(Rest(c), Call("orders"))
      BY <2>1, <2>3
    <3> QED
      BY <1>1, <2>1, <2>3, <3>1 DEF QrShown, Answered
  <2>4. CASE r.answer.ok /\ r.then # "wechat"
    <3>1. page' = [FreshPage EXCEPT !.away = TRUE] /\ calls' = <<>>
      BY <2>1, <2>4
    <3> QED
      BY <1>1, <2>1, <3>1 DEF BrowserLeaves
  <2> QED
    BY <2>2, <2>3, <2>4
<1> QED
  BY <1>1, <1>2, <1>3, <1>4 DEF Return

LEMMA ReturnKeeps ==
  ASSUME None \notin Ids, OrderInv, NEW c \in DOMAIN calls, Return(c)
  PROVE  OrderInv'
<1> USE DEF OrderInv
<1>1. PICK r : r = calls[c]
  OBVIOUS
<1>2. /\ UNCHANGED <<order, credited, gateway, notes>> /\ r.answer # None
      /\ \/ BalanceComes(c, r) \/ PollEnds(c, r) \/ ListComes(c, r)
         \/ PayRefused(c, r) \/ QrShown(c, r) \/ BrowserLeaves(c, r)
  BY <1>1, Returns
<1>3. RowsInv'
  BY <1>2 DEF RowsInv, RowsType, CreditIsStatus, KnownIsMade
<1>4. Sound(r) /\ AllSound(calls) /\ page \in PageRecords
  BY <1>1 DEF CallsInv, AllSound, PageInv
<1>5. AllSound(Rest(c)) /\ AllSound(<<>>)
  BY <1>4, SoundWithout DEF Rest, AllSound
<1>6. CallsInv'
  <2>1. CASE calls' = Rest(c) \/ calls' = <<>>
    BY <1>2, <1>5, <2>1, SoundNext
  <2>2. CASE PollEnds(c, r) /\ calls' = Append(Rest(c), [Call("wallet") EXCEPT !.then = r.then])
    <3>1. r.then \in Ids /\ (r.answer.data[r.then] = "success" => credited[r.then] = 1)
      BY <1>4, <2>2 DEF PollEnds, Sound, ListIsTrue
    <3>2. CASE r.answer.data[r.then] = "success"
      <4>1. PICK w : w = [Call("wallet") EXCEPT !.then = r.then]
        OBVIOUS
      <4>2. Sound(w) /\ w.order = None
        BY <3>1, <3>2, <4>1 DEF Call, Sound, CallRecords, Answered
      <4> QED
        BY <1>2, <1>5, <2>2, <4>1, <4>2, SoundWith, SoundNext
    <3>3. CASE r.answer.data[r.then] # "success"
      <4>1. calls' = Rest(c)
        BY <2>2, <3>3 DEF PollEnds
      <4> QED
        BY <1>2, <1>5, <4>1, SoundNext
    <3> QED
      BY <3>2, <3>3
  <2>3. CASE QrShown(c, r)
    <3>1. Sound(Call("orders")) /\ Call("orders").order = None
      BY DEF Call, Sound, CallRecords, Answered
    <3> QED
      BY <1>2, <1>5, <2>3, <3>1, SoundWith, SoundNext DEF QrShown
  <2> QED
    BY <1>2, <2>1, <2>2, <2>3 DEF BalanceComes, PollEnds, ListComes, PayRefused, BrowserLeaves
<1>7. PageInv'
  <2>1. FreshPage \in PageRecords
    BY DEF FreshPage, PageRecords, Lists, Statuses
  <2>2. ASSUME r.what = "orders", Answered(r)
        PROVE  r.answer.data \in Lists /\ \A i \in Ids : r.answer.data[i] = "success" => credited[i] = 1
    BY <1>4, <2>2 DEF Sound, ListIsTrue
  <2>3. CASE BalanceComes(c, r)
    <3>1. /\ r.then # None => r.then \in Ids /\ credited[r.then] = 1
          /\ r.answer.ok => r.answer.data \in Balances
      BY <1>2, <1>4, <2>3 DEF BalanceComes, Sound, Answered
    <3>2. /\ page' \in PageRecords /\ page'.orders = page.orders
          /\ page'.said = IF r.then = None THEN page.said ELSE <<"paid", r.then>>
      BY <1>4, <2>3, <3>1 DEF BalanceComes, PageRecords
    <3> QED
      BY <1>2, <3>1, <3>2 DEF PageInv, SaysPaid
  <2>4. CASE PollEnds(c, r)
    <3>1. r.then \in Ids
      BY <1>4, <2>4 DEF PollEnds, Sound
    <3>2. /\ page' \in PageRecords /\ page'.orders = r.answer.data
          /\ page'.said = page.said \/ page'.said = <<"void", r.then>>
      <4>1. r.answer.data \in Lists
        BY <2>2, <2>4 DEF PollEnds
      <4>2. CASE page' = [page EXCEPT !.orders = r.answer.data, !.qr = None]
        BY <1>4, <4>1, <4>2 DEF PageRecords
      <4>3. CASE page' = [page EXCEPT !.orders = r.answer.data, !.qr = None, !.said = <<"void", r.then>>]
        <5>1. <<"void", r.then>> \in {"paid", "void"} \X Ids
          BY <3>1
        <5> QED
          BY <1>4, <4>1, <4>3, <5>1 DEF PageRecords
      <4> QED
        BY <2>4, <4>2, <4>3 DEF PollEnds
    <3> QED
      BY <1>2, <2>2, <2>4, <3>2 DEF PageInv, SaysPaid, PollEnds
  <2>5. CASE ListComes(c, r)
    <3>1. CASE page' = page
      BY <1>2, <3>1 DEF PageInv, SaysPaid
    <3>2. CASE page' # page
      <4>1. /\ page' \in PageRecords /\ page'.orders = r.answer.data /\ page'.said = page.said
            /\ Answered(r) /\ r.what = "orders"
        BY <1>4, <2>2, <2>5, <3>2 DEF ListComes, PageRecords
      <4> QED
        BY <1>2, <2>2, <4>1 DEF PageInv, SaysPaid
    <3> QED
      BY <3>1, <3>2
  <2>6. CASE PayRefused(c, r) \/ QrShown(c, r)
    <3>1. QrShown(c, r) => r.answer.data \in Ids
      BY <1>4 DEF QrShown, Sound
    <3>2. page' \in PageRecords /\ page'.orders = page.orders /\ page'.said = page.said
      BY <1>4, <2>6, <3>1 DEF PayRefused, QrShown, PageRecords
    <3> QED
      BY <1>2, <3>2 DEF PageInv, SaysPaid
  <2>7. CASE BrowserLeaves(c, r)
    <3>1. page' \in PageRecords /\ page'.orders = [i \in Ids |-> "none"] /\ page'.said = None
      BY <2>1, <2>7 DEF BrowserLeaves, FreshPage, PageRecords
    <3> QED
      BY <3>1 DEF PageInv, SaysPaid
  <2> QED
    BY <1>2, <2>3, <2>4, <2>5, <2>6, <2>7
<1> QED
  BY <1>3, <1>6, <1>7

LEMMA OrderStep ==
  ASSUME None \notin Ids, Ids \subseteq Nat, MaxNotes \in Nat, OrderInv, [Next]_vars
  PROVE  OrderInv'
<1>1. CASE UNCHANGED vars
  <2>1. UNCHANGED <<order, credited, gateway, notes, page, calls>>
    BY <1>1 DEF vars
  <2>2. RowsInv' /\ PageInv'
    BY <2>1 DEF OrderInv, RowsInv, RowsType, CreditIsStatus, KnownIsMade, PageInv, SaysPaid
  <2>3. CallsInv'
    BY <2>1, SoundNext DEF OrderInv, CallsInv
  <2> QED
    BY <2>2, <2>3 DEF OrderInv
<1>2. CASE Next
  BY <1>2, RowStepKeeps, PageStepKeeps, InsertKeeps, PrepayKeeps, ReadKeeps, ReturnKeeps
     DEF Next, RowStep, PageStep
<1> QED
  BY <1>1, <1>2

-----------------------------------------------------------------------------
\* For any orders, methods, faults and bounds, hurried or not, the wallet keeps OrderInv.
THEOREM OrderInvariance ==
  ASSUME None \notin Ids, Ids \subseteq Nat, MaxNotes \in Nat
  PROVE  Spec => []OrderInv
<1>1. Init => OrderInv
  BY OrdersInitially
<1>2. OrderInv /\ [Next]_vars => OrderInv'
  BY OrderStep
<1> QED
  BY <1>1, <1>2, PTL DEF Spec

\* Orders, credits, notifications and the page keep their types.
THEOREM OrderTypes ==
  ASSUME None \notin Ids, Ids \subseteq Nat, MaxNotes \in Nat
  PROVE  Spec => []TypeOK
<1>1. OrderInv => TypeOK
  BY DEF OrderInv, RowsInv, RowsType, PageInv, PageRecords, Lists, TypeOK
<1> QED
  BY <1>1, OrderInvariance, PTL

\* An order is credited once however often its payment is notified and whoever completes
\* it, and none is shown as paid that was not credited.
THEOREM OrdersAreCreditedOnce ==
  ASSUME None \notin Ids, Ids \subseteq Nat, MaxNotes \in Nat
  PROVE  Spec => []CreditedOnce
<1>1. OrderInv => CreditedOnce
  BY DEF OrderInv, RowsInv, CreditIsStatus, PageInv, CreditedOnce
<1> QED
  BY <1>1, OrderInvariance, PTL

-----------------------------------------------------------------------------
(* A user who waits for the page to settle.  The calls under way are then  *)
(* of one kind at a time: those of a refresh, one payment, or the polls of *)
(* one order and the balances they ask for.                                *)

Under == {calls[c] : c \in DOMAIN calls}
Payments == {r \in Under : r.what = "pay"}
Polls == {r \in Under : r.what # "pay" /\ r.then # None}
Plain == {r \in Under : r.what = "wallet" /\ r.then = None}

Settled ==
  /\ Payments # {} => Len(calls) = 1 /\ page.qr = None /\ ~page.timer
  /\ (page.timer \/ Plain # {}) => page.qr = None /\ \A r \in Under : r.then = None
  /\ \A r, q \in Polls : r.then = q.then
  /\ \A r \in Polls : page.qr # None => r.then = page.qr
  /\ page.away => calls = <<>> /\ page.qr = None /\ ~page.timer

\* The balances that arrive hold what is announced or about to be.
Held ==
  /\ \A r \in Under : (r.what # "pay" /\ r.answer # None) => r.answer.ok
  /\ SaysPaid => /\ page.wallet # None /\ page.wallet[page.said[2]] = "held"
                 /\ \A r \in Under : (r.what = "wallet" /\ r.answer # None) => r.answer.data[page.said[2]] = "held"
  /\ \A q \in Polls : q.what = "wallet" =>
       \A r \in Under : (r.what = "wallet" /\ r.answer # None) => r.answer.data[q.then] = "held"

WaitInv == OrderInv /\ Settled /\ ("lost" \notin Faults => Held)

\* What the calls under way become.
LEMMA UnderRest ==
  ASSUME CallsInv, NEW c \in DOMAIN calls, calls' = Rest(c)
  PROVE  Under' \subseteq Under /\ Len(calls') = Len(calls) - 1 /\ (Len(calls) = 1 => Under' = {})
<1> DEFINE s == Rest(c)
<1>1. /\ s \in Seq(CallRecords) /\ Len(s) = Len(calls) - 1
      /\ \A k \in DOMAIN s : s[k] \in Under
  BY Removed DEF CallsInv, AllSound, Rest, Under
<1>2. calls' = s
  OBVIOUS
<1> HIDE DEF s
<1>3. Len(calls) = 1 => DOMAIN calls' = {}
  BY <1>1, <1>2
<1> QED
  BY <1>1, <1>2, <1>3 DEF Under

LEMMA UnderRestAnd ==
  ASSUME CallsInv, NEW c \in DOMAIN calls, NEW r \in CallRecords, calls' = Append(Rest(c), r)
  PROVE  Under' \subseteq Under \cup {r} /\ Len(calls') = Len(calls)
         /\ (Len(calls) = 1 => Under' = {r})
<1> DEFINE s == Rest(c)
<1>1. /\ s \in Seq(CallRecords) /\ Len(s) = Len(calls) - 1
      /\ \A k \in DOMAIN s : s[k] \in Under
  BY Removed DEF CallsInv, AllSound, Rest, Under
<1>2. calls' = Append(s, r)
  OBVIOUS
<1>3. Len(calls) \in Nat
  BY DEF CallsInv, AllSound
<1> HIDE DEF s
<1>4. Len(calls') = Len(calls) /\ DOMAIN calls' = 1..Len(calls) /\ calls'[Len(calls)] = r /\ Len(calls) >= 1
      /\ \A k \in DOMAIN calls' : (k \in DOMAIN s /\ calls'[k] = s[k]) \/ (k = Len(calls) /\ calls'[k] = r)
  BY <1>1, <1>2, <1>3
<1>5. Len(calls) = 1 => DOMAIN calls' = {1} /\ calls'[1] = r
  BY <1>4
<1> QED
  BY <1>1, <1>4, <1>5 DEF Under

LEMMA UnderAnd ==
  ASSUME CallsInv, NEW r \in CallRecords, calls' = Append(calls, r)
  PROVE  Under' = Under \cup {r} /\ (calls = <<>> => Under' = {r} /\ Len(calls') = 1)
<1>1. calls \in Seq(CallRecords)
  BY DEF CallsInv, AllSound
<1>2. /\ DOMAIN calls' = (DOMAIN calls) \cup {Len(calls) + 1} /\ calls'[Len(calls) + 1] = r
      /\ \A k \in DOMAIN calls : calls'[k] = calls[k]
      /\ Len(calls') = Len(calls) + 1
  BY <1>1
<1>3. Under' = Under \cup {r}
  BY <1>2 DEF Under
<1> QED
  BY <1>1, <1>2, <1>3 DEF Under

LEMMA UnderTwo ==
  ASSUME CallsInv, NEW s \in Seq(CallRecords), s = calls \/ s = <<>>,
         calls' = s \o <<Call("wallet"), Call("orders")>>
  PROVE  \A r \in Under' : (s = calls /\ r \in Under) \/ r = Call("wallet") \/ r = Call("orders")
<1>1. PICK w, o : w = Call("wallet") /\ o = Call("orders")
  OBVIOUS
<1>2. w \in CallRecords /\ o \in CallRecords
  BY <1>1 DEF Call, CallRecords
<1> DEFINE t == s \o <<w, o>>
<1>3. \A k \in DOMAIN t : (k \in DOMAIN s /\ t[k] = s[k]) \/ t[k] = w \/ t[k] = o
  BY <1>2, AddedTwo
<1>4. calls' = t
  BY <1>1
<1> HIDE DEF t
<1> QED
  BY <1>1, <1>3, <1>4 DEF Under

LEMMA UnderRewritten ==
  ASSUME CallsInv, NEW c \in DOMAIN calls, NEW r \in CallRecords, calls' = [calls EXCEPT ![c] = r]
  PROVE  Under' \subseteq Under \cup {r} /\ r \in Under' /\ Len(calls') = Len(calls)
  BY Changed DEF CallsInv, AllSound, Under

-----------------------------------------------------------------------------
\* A call that is served keeps its kind and its purpose.
LEMMA ServedWaits ==
  ASSUME None \notin Ids, WaitInv, NEW c \in DOMAIN calls, NEW old, old = calls[c], NEW r \in CallRecords,
         r.what = old.what, r.then = old.then,
         calls' = [calls EXCEPT ![c] = r], UNCHANGED page,
         "lost" \notin Faults =>
            /\ (r.what # "pay" /\ r.answer # None) => r.answer.ok
            /\ (r.what = "wallet" /\ r.answer # None) =>
                  \A i \in Ids : credited[i] = 1 => r.answer.data[i] = "held"
  PROVE  Settled' /\ ("lost" \notin Faults => Held')
<1> USE DEF WaitInv, OrderInv
<1>1. Under' \subseteq Under \cup {r} /\ Len(calls') = Len(calls) /\ old \in Under
  BY UnderRewritten DEF Under
<1>2. calls # <<>>
  BY DEF CallsInv, AllSound
<1>3. ~page.away
  BY <1>2 DEF Settled
<1>4. (Payments' # {} => Payments # {}) /\ (Plain' # {} => Plain # {})
      /\ (\A q \in Under' : q.then = None \/ \E p \in Under : p.then = q.then)
  BY <1>1 DEF Payments, Plain
<1>5. \A q \in Polls' : \E p \in Polls : p.what = q.what /\ p.then = q.then
  BY <1>1 DEF Polls
<1>6. Settled'
  <2>1. Payments' # {} => Len(calls') = 1 /\ page'.qr = None /\ ~page'.timer
    BY <1>1, <1>4 DEF Settled
  <2>2. (page'.timer \/ Plain' # {}) => page'.qr = None /\ \A q \in Under' : q.then = None
    BY <1>1, <1>4 DEF Settled
  <2>3. \A q, p \in Polls' : q.then = p.then
    BY <1>5 DEF Settled
  <2>4. \A q \in Polls' : page'.qr # None => q.then = page'.qr
    BY <1>5 DEF Settled
  <2> QED
    BY <1>3, <2>1, <2>2, <2>3, <2>4 DEF Settled
<1>7. ASSUME "lost" \notin Faults
      PROVE  Held'
  <2>1. ASSUME NEW i \in Ids, credited[i] = 1,
               \A q \in Under : (q.what = "wallet" /\ q.answer # None) => q.answer.data[i] = "held"
        PROVE  \A q \in Under' : (q.what = "wallet" /\ q.answer # None) => q.answer.data[i] = "held"
    BY <1>1, <1>7, <2>1
  <2>2. \A q \in Under' : (q.what # "pay" /\ q.answer # None) => q.answer.ok
    BY <1>1, <1>7 DEF Held
  <2>3. SaysPaid' => /\ page'.wallet # None /\ page'.wallet[page'.said[2]] = "held"
                     /\ \A q \in Under' : (q.what = "wallet" /\ q.answer # None) => q.answer.data[page'.said[2]] = "held"
    <3> SUFFICES ASSUME SaysPaid
                 PROVE  /\ page.wallet # None /\ page.wallet[page.said[2]] = "held"
                        /\ \A q \in Under' : (q.what = "wallet" /\ q.answer # None) => q.answer.data[page.said[2]] = "held"
      BY DEF SaysPaid
    <3>1. page.said[2] \in Ids /\ credited[page.said[2]] = 1
      BY DEF PageInv, PageRecords, SaysPaid
    <3> QED
      BY <1>7, <2>1, <3>1 DEF Held
  <2>4. ASSUME NEW q \in Polls', q.what = "wallet"
        PROVE  \A x \in Under' : (x.what = "wallet" /\ x.answer # None) => x.answer.data[q.then] = "held"
    <3>1. PICK p \in Polls : p.what = "wallet" /\ p.then = q.then
      BY <1>5, <2>4
    <3>2. Sound(p) /\ p.then # None
      BY DEF Polls, Under, CallsInv, AllSound
    <3>3. q.then \in Ids /\ credited[q.then] = 1
      BY <3>1, <3>2 DEF Sound
    <3> QED
      BY <1>7, <2>1, <3>1, <3>3 DEF Held
  <2> QED
    BY <2>2, <2>3, <2>4 DEF Held
<1> QED
  BY <1>6, <1>7

\* What serves a call: the server, the gateway, or the network.
ServeStep(c) == InsertOrder(c) \/ Prepaid(c) \/ PrepayFails(c) \/ Read(c) \/ Lose(c)

LEMMA ServeWaits ==
  ASSUME None \notin Ids, Ids \subseteq Nat, WaitInv, NEW c \in DOMAIN calls, ServeStep(c)
  PROVE  Settled' /\ ("lost" \notin Faults => Held')
<1>1. PICK old : old = calls[c]
  OBVIOUS
<1>2. Sound(old) /\ old \in CallRecords /\ calls \in Seq(CallRecords)
  BY <1>1 DEF WaitInv, OrderInv, CallsInv, AllSound, Sound
<1>3. UNCHANGED page
  BY DEF ServeStep, InsertOrder, Prepaid, PrepayFails, Read, Lose
<1>4. OrderInv'
  BY InsertKeeps, PrepayKeeps, ReadKeeps DEF WaitInv, ServeStep
<1>5. /\ calls'[c] \in CallRecords /\ calls' = [calls EXCEPT ![c] = calls'[c]]
      /\ calls'[c].what = old.what /\ calls'[c].then = old.then
  <2>1. calls'[c] \in CallRecords
    <3>1. DOMAIN calls' = DOMAIN calls
      BY <1>2 DEF ServeStep, InsertOrder, Prepaid, PrepayFails, Read, Lose
    <3> QED
      BY <1>4, <3>1 DEF OrderInv, CallsInv, AllSound
  <2>2. /\ calls' = [calls EXCEPT ![c] = calls'[c]]
        /\ calls'[c].what = old.what /\ calls'[c].then = old.then
    BY <1>1, <1>2 DEF ServeStep, InsertOrder, Prepaid, PrepayFails, Read, Lose, CallRecords
  <2> QED
    BY <2>1, <2>2
<1>6. PICK r : r = calls'[c]
  OBVIOUS
<1>7. ASSUME "lost" \notin Faults, r.what # "pay", r.answer # None
      PROVE  r.answer.ok /\ (r.what = "wallet" => \A i \in Ids : credited[i] = 1 => r.answer.data[i] = "held")
  <2>1. Read(c)
    BY <1>1, <1>2, <1>5, <1>6, <1>7 DEF ServeStep, InsertOrder, Prepaid, PrepayFails, Lose
  <2>2. r.answer = Success(IF old.what = "wallet" THEN Wallet ELSE OrdersShown)
    BY <1>1, <1>2, <1>6, <2>1 DEF Read, CallRecords
  <2>3. r.answer.ok /\ (r.what = "wallet" => r.answer.data = Wallet)
    BY <1>5, <1>6, <2>2 DEF Success
  <2> QED
    BY <2>3 DEF Wallet
<1> QED
  BY <1>1, <1>3, <1>5, <1>6, <1>7, ServedWaits

\* Nothing under way and no timer: the user may act.
LEMMA PageWaits ==
  ASSUME None \notin Ids, None \notin Methods, Unhurried, WaitInv, PageStep
  PROVE  Settled' /\ ("lost" \notin Faults => Held')
<1> USE DEF WaitInv, OrderInv
<1>1. page \in PageRecords /\ calls \in Seq(CallRecords) /\ CallsInv
  BY DEF PageInv, CallsInv, AllSound
<1>2. calls = <<>> => Under = {}
  BY DEF Under
<1>3. ASSUME NEW s \in Seq(CallRecords), s = calls \/ s = <<>>,
             calls' = s \o <<Call("wallet"), Call("orders")>>,
             s = <<>> \/ page.timer,
             page'.qr = None, ~page'.away,
             (page'.said = page.said /\ page'.wallet = page.wallet) \/ page'.said = None
      PROVE  Settled' /\ ("lost" \notin Faults => Held')
  <2>1. \A r \in Under' : (s = calls /\ r \in Under) \/ r = Call("wallet") \/ r = Call("orders")
    BY <1>1, <1>3, UnderTwo
  <2>2. /\ Call("wallet").then = None /\ Call("wallet").what = "wallet" /\ Call("wallet").answer = None
        /\ Call("orders").then = None /\ Call("orders").what = "orders" /\ Call("orders").answer = None
    BY DEF Call
  <2>3. \A r \in Under' : r.then = None /\ r.what # "pay" /\ (r.answer # None => r \in Under)
    <3>1. ASSUME NEW r \in Under, s = calls
          PROVE  r.then = None /\ r.what # "pay"
      <4>1. page.timer
        BY <1>2, <1>3, <3>1
      <4>2. r.then = None
        BY <4>1 DEF Settled
      <4>3. Sound(r)
        BY DEF Under, CallsInv, AllSound
      <4> QED
        BY <4>2, <4>3 DEF Sound
    <3> QED
      BY <2>1, <2>2, <3>1
  <2>4. Payments' = {} /\ Polls' = {}
    BY <2>3 DEF Payments, Polls
  <2>5. Settled'
    BY <1>3, <2>3, <2>4 DEF Settled
  <2>6. ASSUME "lost" \notin Faults
        PROVE  Held'
    <3>1. SaysPaid' => SaysPaid /\ page'.said = page.said /\ page'.wallet = page.wallet
      BY <1>3 DEF SaysPaid
    <3>2. \A r \in Under' : r.answer # None => r \in Under
      BY <2>3
    <3> QED
      BY <2>4, <2>6, <3>1, <3>2 DEF Held
  <2> QED
    BY <2>5, <2>6
<1>4. CASE Refresh
  <2>1. calls = <<>> /\ page.qr = None /\ ~page.away /\ UNCHANGED page
        /\ calls' = calls \o <<Call("wallet"), Call("orders")>>
    BY <1>4 DEF Refresh, User, Idle
  <2> QED
    BY <1>1, <1>3, <2>1
<1>5. CASE TimerFires
  <2>1. page.timer /\ page' = [page EXCEPT !.timer = FALSE] /\ calls' = calls \o <<Call("wallet"), Call("orders")>>
    BY <1>5 DEF TimerFires
  <2>2. page'.qr = page.qr /\ page'.away = page.away /\ page'.said = page.said /\ page'.wallet = page.wallet
    BY <1>1, <2>1 DEF PageRecords
  <2>3. page.qr = None /\ ~page.away
    BY <2>1 DEF Settled
  <2> QED
    BY <1>1, <1>3, <2>1, <2>2, <2>3
<1>6. CASE ComeBack
  <2>1. page' = [FreshPage EXCEPT !.timer = TRUE] /\ calls' = <<Call("wallet"), Call("orders")>>
    BY <1>6 DEF ComeBack
  <2>2. page'.qr = None /\ ~page'.away /\ page'.said = None
    BY <2>1 DEF FreshPage
  <2>3. <<>> \o <<Call("wallet"), Call("orders")>> = <<Call("wallet"), Call("orders")>> /\ <<>> \in Seq(CallRecords)
    OBVIOUS
  <2> QED
    BY <1>3, <2>1, <2>2, <2>3
<1>7. CASE CloseQr
  <2>1. calls = <<>> /\ UNCHANGED calls /\ page' = [page EXCEPT !.qr = None] /\ ~page.timer /\ ~page.away
    BY <1>7 DEF CloseQr, User, Idle
  <2>2. page'.qr = None /\ page'.timer = page.timer /\ page'.away = page.away
        /\ page'.said = page.said /\ page'.wallet = page.wallet
    BY <1>1, <2>1 DEF PageRecords
  <2>3. Under' = {} /\ Payments' = {} /\ Polls' = {} /\ Plain' = {}
    BY <1>2, <2>1 DEF Under, Payments, Polls, Plain
  <2>4. Settled'
    BY <2>1, <2>2, <2>3 DEF Settled
  <2>5. "lost" \notin Faults => Held'
    BY <2>2, <2>3 DEF Held, SaysPaid
  <2> QED
    BY <2>4, <2>5
<1>8. CASE refreshQrOrder
  <2>1. page.qr # None /\ calls' = Append(calls, PollCall) /\ UNCHANGED page
    BY <1>8 DEF refreshQrOrder
  <2>2. PICK r : r = PollCall
    OBVIOUS
  <2>3. r \in CallRecords /\ r.what = "orders" /\ r.then = page.qr /\ r.answer = None
    BY <1>1, <2>2 DEF PollCall, Call, CallRecords, PageRecords
  <2>4. Under' = Under \cup {r}
    BY <1>1, <2>1, <2>2, <2>3, UnderAnd
  <2>5. Payments' = Payments /\ Plain' = Plain /\ Polls' = Polls \cup {r}
    BY <2>1, <2>3, <2>4 DEF Payments, Plain, Polls
  <2>6. Payments = {} /\ Plain = {} /\ ~page.timer /\ ~page.away /\ \A q \in Polls : q.then = page.qr
    BY <2>1 DEF Settled
  <2>7. Settled'
    BY <2>1, <2>3, <2>5, <2>6 DEF Settled
  <2>8. ASSUME "lost" \notin Faults
        PROVE  Held'
    BY <2>1, <2>3, <2>4, <2>5, <2>8 DEF Held, SaysPaid
  <2> QED
    BY <2>7, <2>8
<1>9. CASE \E method \in Methods : createPayment(method)
  <2>1. PICK method \in Methods : createPayment(method)
    BY <1>9
  <2>2. /\ calls = <<>> /\ page.qr = None /\ ~page.timer /\ ~page.away
        /\ page' = [page EXCEPT !.paying = TRUE] /\ calls' = Append(calls, PayCall(method))
    BY <2>1 DEF createPayment, User, Idle
  <2>3. PICK r : r = PayCall(method)
    OBVIOUS
  <2>4. r \in CallRecords /\ r.what = "pay"
    BY <2>3 DEF PayCall, Call, CallRecords
  <2>5. Under' = {r} /\ Len(calls') = 1
    BY <1>1, <2>2, <2>3, <2>4, UnderAnd
  <2>6. Plain' = {} /\ Polls' = {}
    BY <2>4, <2>5 DEF Plain, Polls
  <2>7. page'.qr = page.qr /\ page'.timer = page.timer /\ page'.away = page.away
        /\ page'.said = page.said /\ page'.wallet = page.wallet
    BY <1>1, <2>2 DEF PageRecords
  <2>8. Settled'
    BY <2>2, <2>5, <2>6, <2>7 DEF Settled
  <2>9. "lost" \notin Faults => Held'
    BY <2>4, <2>5, <2>6, <2>7 DEF Held, SaysPaid
  <2> QED
    BY <2>8, <2>9
<1> QED
  BY <1>4, <1>5, <1>6, <1>7, <1>8, <1>9 DEF PageStep

LEMMA ReturnWaits ==
  ASSUME None \notin Ids, None \notin Methods, None \notin Balances, WaitInv, NEW c \in DOMAIN calls, Return(c)
  PROVE  Settled' /\ ("lost" \notin Faults => Held')
<1> USE DEF WaitInv, OrderInv
<1>1. PICK r : r = calls[c]
  OBVIOUS
<1>2. /\ UNCHANGED <<order, credited, gateway, notes>> /\ r.answer # None
      /\ \/ BalanceComes(c, r) \/ PollEnds(c, r) \/ ListComes(c, r)
         \/ PayRefused(c, r) \/ QrShown(c, r) \/ BrowserLeaves(c, r)
  BY <1>1, Returns
<1>3. page \in PageRecords /\ CallsInv /\ r \in Under /\ Sound(r) /\ calls # <<>>
  BY <1>1 DEF PageInv, CallsInv, AllSound, Under
<1>4. ~page.away
  BY <1>3 DEF Settled
<1>5. ASSUME calls' = Rest(c)
      PROVE  /\ Under' \subseteq Under /\ Payments' \subseteq Payments /\ Polls' \subseteq Polls /\ Plain' \subseteq Plain
             /\ Payments # {} => Under' = {} /\ Payments' = {} /\ Polls' = {} /\ Plain' = {}
  <2>1. Under' \subseteq Under /\ (Len(calls) = 1 => Under' = {})
    BY <1>3, <1>5, UnderRest
  <2> QED
    BY <2>1 DEF Payments, Polls, Plain, Settled
<1>6. ASSUME calls' = Rest(c), page'.qr \in {page.qr, None}, page'.timer = page.timer, page'.away = page.away
      PROVE  Settled'
  BY <1>4, <1>5, <1>6 DEF Settled
<1>7. ASSUME calls' = Rest(c), page'.said = page.said, page'.wallet = page.wallet, "lost" \notin Faults
      PROVE  Held'
  BY <1>5, <1>7 DEF Held, SaysPaid
<1>8. CASE BalanceComes(c, r)
  <2>1. /\ calls' = Rest(c) /\ r.what = "wallet"
        /\ page' = [page EXCEPT !.wallet = IF r.answer.ok THEN r.answer.data ELSE @,
                                !.said = IF r.then = None THEN @ ELSE <<"paid", r.then>>]
    BY <1>8 DEF BalanceComes
  <2>2. page'.qr = page.qr /\ page'.timer = page.timer /\ page'.away = page.away
        /\ page'.said = (IF r.then = None THEN page.said ELSE <<"paid", r.then>>)
        /\ page'.wallet = IF r.answer.ok THEN r.answer.data ELSE page.wallet
    BY <1>3, <2>1 DEF PageRecords
  <2>3. ASSUME "lost" \notin Faults
        PROVE  Held'
    <3>1. /\ r.answer.ok /\ r.answer.data \in Balances /\ page'.wallet = r.answer.data /\ page'.wallet # None
      BY <1>2, <1>3, <2>1, <2>2, <2>3 DEF Held, Sound, Answered
    <3>2. ASSUME SaysPaid'
          PROVE  /\ r.answer.data[page'.said[2]] = "held"
                 /\ \A q \in Under : (q.what = "wallet" /\ q.answer # None) => q.answer.data[page'.said[2]] = "held"
      <4>1. CASE r.then = None
        <5>1. SaysPaid /\ page'.said = page.said
          BY <2>2, <3>2, <4>1 DEF SaysPaid
        <5> QED
          BY <1>2, <1>3, <2>1, <2>3, <5>1 DEF Held
      <4>2. CASE r.then # None
        <5>1. r \in Polls /\ page'.said[2] = r.then
          BY <1>3, <2>1, <2>2, <4>2 DEF Polls
        <5> QED
          BY <1>2, <1>3, <2>1, <2>3, <5>1 DEF Held
      <4> QED
        BY <4>1, <4>2
    <3> QED
      BY <1>5, <2>1, <2>3, <3>1, <3>2 DEF Held
  <2> QED
    BY <1>6, <2>1, <2>2, <2>3
<1>9. CASE ListComes(c, r)
  <2>1. calls' = Rest(c) /\ page'.qr = page.qr /\ page'.timer = page.timer /\ page'.away = page.away
        /\ page'.said = page.said /\ page'.wallet = page.wallet
    BY <1>3, <1>9 DEF ListComes, PageRecords
  <2> QED
    BY <1>6, <1>7, <2>1
<1>10. CASE PayRefused(c, r)
  <2>1. calls' = Rest(c) /\ page'.qr = page.qr /\ page'.timer = page.timer /\ page'.away = page.away
        /\ page'.said = page.said /\ page'.wallet = page.wallet
    BY <1>3, <1>10 DEF PayRefused, PageRecords
  <2> QED
    BY <1>6, <1>7, <2>1
<1>11. CASE PollEnds(c, r) /\ calls' = Rest(c)
  <2>1. /\ page'.qr = None /\ page'.timer = page.timer /\ page'.away = page.away
        /\ (page'.said = page.said /\ page'.wallet = page.wallet)
           \/ page'.said = <<"void", r.then>>
    BY <1>3, <1>11 DEF PollEnds, PageRecords
  <2>2. ASSUME "lost" \notin Faults
        PROVE  Held'
    <3>1. SaysPaid' => page'.said = page.said /\ page'.wallet = page.wallet
      BY <2>1 DEF SaysPaid
    <3> QED
      BY <1>5, <1>11, <2>2, <3>1 DEF Held, SaysPaid
  <2> QED
    BY <1>6, <1>11, <2>1, <2>2
<1>12. CASE PollEnds(c, r) /\ calls' # Rest(c)
  <2>1. /\ r.what = "orders" /\ r.then # None
        /\ page' = [page EXCEPT !.orders = r.answer.data, !.qr = None]
        /\ calls' = Append(Rest(c), [Call("wallet") EXCEPT !.then = r.then])
    BY <1>12 DEF PollEnds
  <2>2. PICK w : w = [Call("wallet") EXCEPT !.then = r.then]
    OBVIOUS
  <2>3. w \in CallRecords /\ w.what = "wallet" /\ w.then = r.then /\ w.answer = None
    BY <1>3, <2>1, <2>2 DEF Call, CallRecords, Sound
  <2>4. Under' \subseteq Under \cup {w}
    BY <1>3, <2>1, <2>2, <2>3, UnderRestAnd
  <2>5. r \in Polls
    BY <1>3, <2>1 DEF Polls
  <2>6. Payments = {} /\ Plain = {} /\ ~page.timer /\ \A q \in Polls : q.then = r.then
    <3>1. Payments = {}
      <4> SUFFICES ASSUME Payments # {} PROVE FALSE
        OBVIOUS
      <4>1. Len(calls) = 1
        BY DEF Settled
      <4>2. Under = {r}
        BY <1>1, <1>3, <4>1 DEF Under, CallsInv, AllSound
      <4> QED
        BY <2>1, <4>2 DEF Payments
    <3> QED
      BY <1>3, <2>1, <2>5, <3>1 DEF Settled
  <2>7. Payments' = {} /\ Plain' = {} /\ \A q \in Polls' : q.then = r.then
    BY <2>1, <2>3, <2>4, <2>6 DEF Payments, Plain, Polls
  <2>8. page'.qr = None /\ page'.timer = page.timer /\ page'.away = page.away
        /\ page'.said = page.said /\ page'.wallet = page.wallet
    BY <1>3, <2>1 DEF PageRecords
  <2>9. Settled'
    BY <1>4, <2>6, <2>7, <2>8 DEF Settled
  <2>10. ASSUME "lost" \notin Faults
         PROVE  Held'
    <3>1. ASSUME NEW q \in Under, q.what = "wallet", q.answer # None
          PROVE  q.answer.data[r.then] = "held"
      <4>1. q \in Polls
        BY <2>6, <3>1 DEF Plain, Polls
      <4> QED
        BY <2>6, <2>10, <3>1, <4>1 DEF Held
    <3>2. \A q \in Under' : q.answer # None => q \in Under
      BY <2>3, <2>4
    <3>3. \A q \in Polls' : q.then = r.then
      BY <2>7
    <3>4. SaysPaid' => SaysPaid
      BY <2>8 DEF SaysPaid
    <3> QED
      BY <2>8, <2>10, <3>1, <3>2, <3>3, <3>4 DEF Held
  <2> QED
    BY <2>9, <2>10
<1>13. CASE QrShown(c, r)
  <2>1. /\ r.what = "pay" /\ calls' = Append(Rest(c), Call("orders"))
        /\ page' = [page EXCEPT !.paying = FALSE, !.qr = r.answer.data]
    BY <1>13 DEF QrShown
  <2>2. PICK o : o = Call("orders")
    OBVIOUS
  <2>3. o \in CallRecords /\ o.what = "orders" /\ o.then = None /\ o.answer = None
    BY <2>2 DEF Call, CallRecords
  <2>4. Len(calls) = 1 /\ ~page.timer
    BY <1>3, <2>1 DEF Settled, Payments
  <2>5. Under' = {o}
    BY <1>3, <2>1, <2>2, <2>3, <2>4, UnderRestAnd
  <2>6. Payments' = {} /\ Plain' = {} /\ Polls' = {}
    BY <2>3, <2>5 DEF Payments, Plain, Polls
  <2>7. page'.timer = page.timer /\ page'.away = page.away /\ page'.said = page.said /\ page'.wallet = page.wallet
    BY <1>3, <2>1 DEF PageRecords
  <2>8. Settled'
    BY <1>4, <2>4, <2>6, <2>7 DEF Settled
  <2>9. "lost" \notin Faults => Held'
    BY <2>3, <2>5, <2>6, <2>7 DEF Held, SaysPaid
  <2> QED
    BY <2>8, <2>9
<1>14. CASE BrowserLeaves(c, r)
  <2>1. page' = [FreshPage EXCEPT !.away = TRUE] /\ calls' = <<>>
    BY <1>14 DEF BrowserLeaves
  <2>2. page'.qr = None /\ ~page'.timer /\ page'.said = None
    BY <2>1 DEF FreshPage
  <2>3. Under' = {}
    BY <2>1 DEF Under
  <2>4. Payments' = {} /\ Plain' = {} /\ Polls' = {}
    BY <2>3 DEF Payments, Plain, Polls
  <2>5. Settled' /\ Held'
    BY <2>1, <2>2, <2>3, <2>4 DEF Settled, Held, SaysPaid
  <2> QED
    BY <2>5
<1> QED
  BY <1>2, <1>8, <1>9, <1>10, <1>11, <1>12, <1>13, <1>14

\* The page opens with the two calls of a refresh.
LEMMA WaitsInitially ==
  ASSUME None \notin Ids, MaxNotes \in Nat, Init
  PROVE  WaitInv
<1>1. OrderInv
  BY OrdersInitially
<1>2. PICK w, o : w = Call("wallet") /\ o = Call("orders")
  OBVIOUS
<1>3. /\ w.then = None /\ w.what = "wallet" /\ w.answer = None
      /\ o.then = None /\ o.what = "orders" /\ o.answer = None
  BY <1>2 DEF Call
<1>4. calls = <<w, o>>
  BY <1>2 DEF Init
<1>5. Under \subseteq {w, o}
  <2>1. ASSUME NEW c \in DOMAIN calls
        PROVE  calls[c] = w \/ calls[c] = o
    <3>1. c = 1 \/ c = 2
      BY <1>4
    <3> QED
      BY <1>4, <3>1
  <2> QED
    BY <2>1 DEF Under
<1>6. Payments = {} /\ Polls = {} /\ \A r \in Under : r.then = None /\ r.answer = None
  BY <1>3, <1>5 DEF Payments, Polls
<1>7. page.qr = None /\ page.said = None /\ page.timer = FALSE /\ page.away = FALSE
  BY DEF Init, FreshPage
<1>8. Settled
  BY <1>6, <1>7 DEF Settled
<1>9. Held
  BY <1>6, <1>7 DEF Held, SaysPaid
<1> QED
  BY <1>1, <1>8, <1>9 DEF WaitInv

LEMMA WaitStep ==
  ASSUME None \notin Ids, None \notin Methods, None \notin Balances, Ids \subseteq Nat,
         MaxNotes \in Nat, Unhurried, WaitInv, [Next]_vars
  PROVE  WaitInv'
<1>1. OrderInv'
  BY OrderStep DEF WaitInv
<1>2. ASSUME UNCHANGED <<page, calls>>
      PROVE  Settled' /\ ("lost" \notin Faults => Held')
  <2>1. Under' = Under
    BY <1>2 DEF Under
  <2>2. Payments' = Payments /\ Polls' = Polls /\ Plain' = Plain
    BY <2>1 DEF Payments, Polls, Plain
  <2> QED
    BY <1>2, <2>1, <2>2 DEF WaitInv, Settled, Held, SaysPaid
<1>3. CASE UNCHANGED vars
  BY <1>1, <1>2, <1>3 DEF vars, WaitInv
<1>4. CASE RowStep
  <2>1. UNCHANGED <<page, calls>>
    BY <1>4, RowsKeep DEF WaitInv, OrderInv
  <2> QED
    BY <1>1, <1>2, <2>1 DEF WaitInv
<1>5. CASE PageStep
  BY <1>1, <1>5, PageWaits DEF WaitInv
<1>6. ASSUME NEW c \in DOMAIN calls, ServeStep(c)
      PROVE  WaitInv'
  BY <1>1, <1>6, ServeWaits DEF WaitInv
<1>7. ASSUME NEW c \in DOMAIN calls, Return(c)
      PROVE  WaitInv'
  BY <1>1, <1>7, ReturnWaits DEF WaitInv
<1> QED
  BY <1>3, <1>4, <1>5, <1>6, <1>7 DEF Next, RowStep, PageStep, ServeStep

-----------------------------------------------------------------------------
\* For a user who waits, the wallet keeps WaitInv.
THEOREM WaitInvariance ==
  ASSUME None \notin Ids, None \notin Methods, None \notin Balances, Ids \subseteq Nat,
         MaxNotes \in Nat, Unhurried
  PROVE  Spec => []WaitInv
<1>1. Init => WaitInv
  BY WaitsInitially
<1>2. WaitInv /\ [Next]_vars => WaitInv'
  BY WaitStep
<1> QED
  BY <1>1, <1>2, PTL DEF Spec

\* What the page announces as paid is credited and, when no answer is lost, is in the
\* balance it shows from then on.
THEOREM AnnouncedIsHeld ==
  ASSUME None \notin Ids, None \notin Methods, None \notin Balances, Ids \subseteq Nat,
         MaxNotes \in Nat, Unhurried
  PROVE  Spec => []AnnouncedIsInBalance
<1>1. WaitInv => AnnouncedIsInBalance
  BY DEF WaitInv, OrderInv, PageInv, Held, SaysPaid, AnnouncedIsInBalance
<1> QED
  BY <1>1, WaitInvariance, PTL

\* A step that closes a QR code is the user's, or the code's order has ended.
LEMMA QrStep ==
  ASSUME None \notin Ids, WaitInv, [Next]_vars
  PROVE  QrClosesForItsOrder
<1> SUFFICES ASSUME page.qr # None, page'.qr # page.qr
             PROVE  CloseQr \/ ShownStatus(page.qr) \in Ended
  BY DEF QrClosesForItsOrder, Ended
<1>1. page \in PageRecords /\ CallsInv /\ RowsInv
  BY DEF WaitInv, OrderInv, PageInv
<1>2. ~RowStep /\ ~UNCHANGED vars
  BY DEF RowStep, Notify, ManualCompleteTopUp, GatewayPaid, OrderAges, GatewayCloses, vars
<1>3. ASSUME PageStep, ~CloseQr
      PROVE  FALSE
  BY <1>1, <1>3 DEF PageStep, Refresh, TimerFires, refreshQrOrder, ComeBack, createPayment,
     PageRecords, WaitInv, Settled
<1>4. ASSUME NEW c \in DOMAIN calls, ServeStep(c)
      PROVE  FALSE
  BY <1>4 DEF ServeStep, InsertOrder, Prepaid, PrepayFails, Read, Lose
<1>5. ASSUME NEW c \in DOMAIN calls, Return(c)
      PROVE  ShownStatus(page.qr) \in Ended
  <2>1. PICK r : r = calls[c]
    OBVIOUS
  <2>2. \/ BalanceComes(c, r) \/ PollEnds(c, r) \/ ListComes(c, r)
        \/ PayRefused(c, r) \/ QrShown(c, r) \/ BrowserLeaves(c, r)
    BY <1>5, <2>1, Returns
  <2>3. r \in Under /\ Sound(r)
    BY <1>1, <2>1 DEF Under, CallsInv, AllSound
  <2>4. r.what # "pay"
    BY <2>3 DEF WaitInv, Settled, Payments
  <2>5. PollEnds(c, r)
    BY <1>1, <2>2, <2>4 DEF BalanceComes, ListComes, PayRefused, QrShown, BrowserLeaves, PageRecords
  <2>6. r \in Polls /\ r.what = "orders" /\ Answered(r) /\ r.answer.data[r.then] \in Ended
    BY <2>3, <2>5 DEF PollEnds, Polls
  <2>7. r.then = page.qr /\ r.then \in Ids
    BY <1>1, <2>6 DEF WaitInv, Settled, PageRecords
  <2> QED
    BY <2>3, <2>6, <2>7 DEF Sound, ListIsTrue
<1> QED
  BY <1>2, <1>3, <1>4, <1>5 DEF Next, RowStep, PageStep, ServeStep

\* The page closes a QR code only when the user does, or when the order of that code,
\* and no other, has ended.
THEOREM QrClosesRightly ==
  ASSUME None \notin Ids, None \notin Methods, None \notin Balances, Ids \subseteq Nat,
         MaxNotes \in Nat, Unhurried
  PROVE  Spec => [][QrClosesForItsOrder]_vars
<1>1. WaitInv /\ [Next]_vars => [QrClosesForItsOrder]_vars
  BY QrStep
<1> QED
  BY <1>1, WaitInvariance, PTL DEF Spec

=============================================================================
