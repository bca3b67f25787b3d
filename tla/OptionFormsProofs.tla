-------------------------- MODULE OptionFormsProofs --------------------------
(***************************************************************************)
(* Proofs about the settings pages, for tabs of any number of forms on any *)
(* pages: what a page reports as saved is stored, and what its forms       *)
(* compare with is what the server stores.  The last part does the same    *)
(* for the cards of the system settings, then for the synchronisation of   *)
(* ratios: what it announces is applied, and only what was confirmed.      *)
(***************************************************************************)
EXTENDS OptionForms, TLAPS, SequenceTheorems

Cells == [n : 0..2, as : {"string", "boolean", "number"}]
Toasts == {"none", "nothing", "check", "saved", "failed"}
Stages == {"sent", "done", "refused", "rejected"}

\* A value for every field of every form; pg names the pages, as in page.
PerField(pg, s) ==
  /\ s = [f \in Forms |-> s[f]]
  /\ \A f \in Forms : s[f] = [k \in pg[f].fields |-> s[f][k]]

Stored(pg, s) ==
  PerField(pg, s) /\ \A f \in Forms : \A k \in pg[f].fields : s[f][k] \in Values(k)

Displayed(pg, s) ==
  /\ PerField(pg, s)
  /\ \A f \in Forms : \A k \in pg[f].fields : s[f][k] \in Cells /\ s[f][k].n \in Values(k)

\* A request stores a value of a field, for a submit of its form.
Request(pg, count, p) ==
  /\ p.form \in Forms /\ p.batch \in 1 .. count[p.form] /\ p.field \in pg[p.form].fields
  /\ p.n \in Values(p.field) /\ p.at \in Stages
  /\ p = [form |-> p.form, batch |-> p.batch, field |-> p.field, n |-> p.n, at |-> p.at]

FormsInv ==
  /\ page \in [Forms -> Pages] /\ saves \in [Forms -> 0..MaxSaves] /\ saving \in [Forms -> Nat]
  /\ toast \in [Forms -> Toasts] /\ joined \in BOOLEAN /\ claimed = [f \in Forms |-> claimed[f]]
  /\ Stored(page, server) /\ Displayed(page, inputs) /\ Displayed(page, row)
  /\ \A p \in puts : Request(page, saves, p)
  /\ get \notin {None, Unread} => Stored(page, get)

-----------------------------------------------------------------------------
(* Values, what is shown of them, and what a submit sends.                 *)

LEMMA ValuesAreSmall == \A k : Values(k) \subseteq 0..2 /\ 0 \in Values(k)
  BY DEF Values

LEMMA ShownCell ==
  ASSUME NEW f, NEW k, NEW n \in Values(k)
  PROVE  /\ Shown(f, k, n) \in Cells /\ Shown(f, k, n).n \in Values(k)
         /\ k # "secret" => Shown(f, k, n).n = n
  BY ValuesAreSmall DEF Shown, Cells

LEMMA EditedCell ==
  ASSUME NEW f, NEW k, NEW n \in Values(k)
  PROVE  Edited(f, k, n) \in Cells /\ Edited(f, k, n).n \in Values(k)
  BY ValuesAreSmall DEF Edited, Shown, Cells

\* One value changes.
Changed(s, f, k, v) == [s EXCEPT ![f][k] = v]

LEMMA OneChanges ==
  ASSUME NEW pg, NEW s, PerField(pg, s), NEW f \in Forms, NEW k \in pg[f].fields, NEW v,
         NEW t, t = Changed(s, f, k, v)
  PROVE  /\ PerField(pg, t) /\ t[f][k] = v
         /\ \A g \in Forms : \A j \in pg[g].fields : (g # f \/ j # k) => t[g][j] = s[g][j]
<1>1. /\ t = [g \in Forms |-> t[g]] /\ \A g \in Forms : g # f => t[g] = s[g]
      /\ t[f] = [s[f] EXCEPT ![k] = v]
  BY DEF PerField, Changed
<1>2. t[f] = [j \in pg[f].fields |-> t[f][j]] /\ t[f][k] = v /\ \A j \in pg[f].fields : j # k => t[f][j] = s[f][j]
  BY <1>1 DEF PerField
<1> QED
  BY <1>1, <1>2 DEF PerField

LEMMA QueuedAreFields ==
  ASSUME NEW f \in Forms
  PROVE  Queue(f) \subseteq Fields(f)
  BY DEF Queue, compareObjects

\* What an answer to a request becomes.
LEMMA AnsweredRequest ==
  ASSUME NEW pg, NEW count, NEW p, Request(pg, count, p), NEW at \in Stages,
         NEW q, q = [p EXCEPT !.at = at]
  PROVE  /\ Request(pg, count, q)
         /\ q.form = p.form /\ q.batch = p.batch /\ q.field = p.field /\ q.n = p.n /\ q.at = at
<1>1. q = [form |-> p.form, batch |-> p.batch, field |-> p.field, n |-> p.n, at |-> at]
  BY DEF Request
<1>2. q.form = p.form /\ q.batch = p.batch /\ q.field = p.field /\ q.n = p.n /\ q.at = at
  BY <1>1
<1> QED
  BY <1>1, <1>2 DEF Request

-----------------------------------------------------------------------------
(* Types.                                                                  *)

LEMMA FormsInitially ==
  ASSUME MaxSaves \in Nat, Init
  PROVE  FormsInv
<1>1. page \in [Forms -> Pages] /\ get = None /\ puts = {} /\ joined = FALSE
  BY DEF Init
<1>2. saves \in [Forms -> 0..MaxSaves] /\ saving \in [Forms -> Nat] /\ toast \in [Forms -> Toasts]
      /\ claimed = [f \in Forms |-> claimed[f]]
  BY DEF Init, Toasts
<1>3. Stored(page, server)
  BY ValuesAreSmall DEF Init, Stored, PerField, Fields
<1>4. Displayed(page, inputs)
  BY ValuesAreSmall, ShownCell DEF Init, Displayed, PerField, Fields
<1>5. row = inputs
  BY DEF Init
<1> QED
  BY <1>1, <1>2, <1>3, <1>4, <1>5 DEF FormsInv

LEMMA FormsStep ==
  ASSUME MaxSaves \in Nat, FormsInv, [Next]_vars
  PROVE  FormsInv'
<1> USE DEF FormsInv
<1>1. ASSUME NEW f \in Forms, NEW k \in Fields(f), NEW n \in Values(k), Edit(f, k, n)
      PROVE  FormsInv'
  <2>1. PICK t : t = inputs' /\ t = [inputs EXCEPT ![f][k] = Edited(f, k, n)]
    BY <1>1 DEF Edit
  <2>2. PICK v : v = Edited(f, k, n) /\ v \in Cells /\ v.n \in Values(k)
    BY EditedCell
  <2>3. PerField(page, t) /\ t[f][k] = v
        /\ \A g \in Forms : \A j \in page[g].fields : (g # f \/ j # k) => t[g][j] = inputs[g][j]
    <3>1. PerField(page, inputs) /\ k \in page[f].fields /\ t = Changed(inputs, f, k, v)
      BY <2>1, <2>2 DEF Displayed, Fields, Changed
    <3> QED  BY <3>1, OneChanges
  <2>4. Displayed(page, t)
    BY <2>2, <2>3 DEF Displayed
  <2>5. toast' \in [Forms -> Toasts]
    BY <1>1 DEF Edit, Toasts
  <2> QED  BY <1>1, <2>1, <2>4, <2>5 DEF Edit
<1>2. ASSUME NEW f \in Forms, onSubmit(f)  PROVE FormsInv'
  <2>1. toast' \in [Forms -> Toasts]
    BY <1>2 DEF onSubmit, Toasts
  <2>2. CASE UNCHANGED <<saving, puts, saves, claimed>>
    BY <1>2, <2>1, <2>2 DEF onSubmit
  <2>3. CASE /\ puts' = puts \cup {Put(f, k) : k \in Queue(f)}
             /\ saving' = [saving EXCEPT ![f] = saves[f] + 1]
             /\ saves' = [saves EXCEPT ![f] = @ + 1]
             /\ claimed' = [claimed EXCEPT ![f] = [k \in Queue(f) |-> inputs[f][k].n]]
    <3>1. saves[f] \in 0..MaxSaves /\ saves[f] < MaxSaves
      BY <1>2 DEF onSubmit
    <3>2. saves' \in [Forms -> 0..MaxSaves] /\ saving' \in [Forms -> Nat]
      BY <2>3, <3>1
    <3>3. claimed' = [g \in Forms |-> claimed'[g]]
      <4>1. PICK c, d : d = claimed' /\ d = [claimed EXCEPT ![f] = c]
        BY <2>3
      <4>2. d = [g \in Forms |-> IF g = f THEN c ELSE claimed[g]]
        BY <4>1
      <4> QED  BY <4>1, <4>2
    <3>4. \A g \in Forms : saves[g] \in Nat /\ saves'[g] \in Nat /\ saves[g] <= saves'[g]
      <4> TAKE g \in Forms
      <4>1. saves[g] \in Nat /\ saves'[g] = IF g = f THEN saves[g] + 1 ELSE saves[g]
        BY <2>3
      <4> QED  BY <4>1
    <3>5. ASSUME NEW p \in puts  PROVE Request(page, saves', p)
      BY <3>4 DEF Request
    <3>6. ASSUME NEW k \in Queue(f)  PROVE Request(page, saves', Put(f, k))
      <4>1. k \in page[f].fields
        BY QueuedAreFields DEF Fields
      <4>2. inputs[f][k].n \in Values(k) /\ saves'[f] = saves[f] + 1
        BY <4>1, <2>3 DEF Displayed
      <4> QED  BY <3>1, <4>1, <4>2 DEF Put, Request, Stages
    <3>7. UNCHANGED <<page, server, inputs, row, get, joined>>
      BY <1>2 DEF onSubmit
    <3>8. \A p \in puts' : Request(page, saves', p)
      BY <2>3, <3>5, <3>6
    <3> QED  BY <2>1, <3>2, <3>7, <3>8, <3>3
  <2> QED  BY <1>2, <2>2, <2>3 DEF onSubmit
<1>3. ASSUME NEW f \in Forms, BatchResolves(f)  PROVE FormsInv'
  <2>1. puts' \subseteq puts /\ saving' \in [Forms -> Nat] /\ toast' \in [Forms -> Toasts]
    BY <1>3 DEF BatchResolves, Toasts
  <2>2. joined' \in BOOLEAN /\ (get' = get \/ get' = Unread)
    BY <1>3 DEF BatchResolves, onRefresh
  <2>3. Displayed(page, row')
    <3>1. CASE row' = row  BY <3>1
    <3>2. CASE row' = [row EXCEPT ![f] = inputs[f]]
      BY <3>2 DEF Displayed, PerField
    <3> QED  BY <1>3, <3>1, <3>2 DEF BatchResolves
  <2> QED  BY <1>3, <2>1, <2>2, <2>3 DEF BatchResolves
<1>4. ASSUME NEW f \in Forms, BatchRejects(f)  PROVE FormsInv'
  BY <1>4 DEF BatchRejects, Toasts
<1>5. ASSUME NEW p \in puts, PutForgotten(p)  PROVE FormsInv'
  BY <1>5 DEF PutForgotten
<1>6. ASSUME NEW p \in puts, NEW at \in {"done", "refused", "rejected"}, PutAnswers(p, at)
      PROVE  FormsInv'
  <2>1. PICK q : q = [p EXCEPT !.at = at]
    OBVIOUS
  <2>2. Request(page, saves, q) /\ puts' = (puts \ {p}) \cup {q}
    BY <1>6, <2>1, AnsweredRequest DEF PutAnswers, Stages
  <2>3. Stored(page, server')
    <3>1. CASE server' = server  BY <3>1
    <3>2. CASE server' = [server EXCEPT ![p.form][p.field] = p.n]
      <4>1. p.form \in Forms /\ p.field \in page[p.form].fields /\ p.n \in Values(p.field)
        BY DEF Request
      <4>2. PICK t : t = server' /\ t = Changed(server, p.form, p.field, p.n)
        BY <3>2 DEF Changed
      <4>3. /\ PerField(page, t) /\ t[p.form][p.field] = p.n
            /\ \A g \in Forms : \A j \in page[g].fields : (g # p.form \/ j # p.field) => t[g][j] = server[g][j]
        <5>1. PerField(page, server)
          BY DEF Stored
        <5> QED  BY <4>1, <4>2, <5>1, OneChanges
      <4> QED  BY <4>1, <4>2, <4>3 DEF Stored
    <3> QED  BY <1>6, <3>1, <3>2 DEF PutAnswers
  <2> QED  BY <1>6, <2>2, <2>3 DEF PutAnswers
<1>7. ASSUME GetReads  PROVE FormsInv'
  BY <1>7 DEF GetReads
<1>8. ASSUME GetArrives  PROVE FormsInv'
  <2>1. PICK v : /\ v = [f \in Forms |-> [k \in Fields(f) |-> Shown(f, k, get[f][k])]]
                 /\ inputs' = v /\ row' = v
    BY <1>8 DEF GetArrives
  <2>2. Stored(page, get)
    BY <1>8 DEF GetArrives
  <2>3. PerField(page, v) /\ \A f \in Forms : \A k \in page[f].fields : v[f][k] = Shown(f, k, get[f][k])
    BY <2>1 DEF PerField, Fields
  <2>4. \A f \in Forms : \A k \in page[f].fields : v[f][k] \in Cells /\ v[f][k].n \in Values(k)
    BY <2>2, <2>3, ShownCell DEF Stored
  <2>5. Displayed(page, v)
    BY <2>3, <2>4 DEF Displayed
  <2> QED  BY <1>8, <2>1, <2>5 DEF GetArrives
<1>9. ASSUME UNCHANGED vars  PROVE FormsInv'
  BY <1>9 DEF vars
<1> QED
  BY <1>1, <1>2, <1>3, <1>4, <1>5, <1>6, <1>7, <1>8, <1>9 DEF Next

\* The state of the forms keeps its shape whatever answers the requests get.
THEOREM FormsInvariance ==
  ASSUME MaxSaves \in Nat
  PROVE  Spec => []FormsInv
  BY FormsInitially, FormsStep, PTL DEF Spec

\* Forms and options keep their types on every tab (onSubmit, getOptions).
THEOREM FormTypes ==
  ASSUME MaxSaves \in Nat
  PROVE  Spec => []TypeOK
<1>1. FormsInv => TypeOK
  BY DEF FormsInv, TypeOK, Stored, Displayed, Fields, Request, Toasts
<1> QED
  BY <1>1, FormsInvariance, PTL

-----------------------------------------------------------------------------
(* What is in flight.  While no request rejects, every request is one the  *)
(* form still waits for, so a form that waits for nothing has no request   *)
(* on its way that could change what is stored.                            *)

AwaitedInv ==
  \A p \in puts : /\ p.batch = saving[p.form] /\ p.at # "rejected"
                  /\ "refuse" \notin Faults => p.at # "refused"

\* A form that waits for nothing has nothing in flight.
LEMMA NothingInFlight ==
  ASSUME FormsInv, AwaitedInv, NEW p \in puts
  PROVE  p.form \in Forms /\ saving[p.form] # 0 /\ p.batch = saving[p.form]
  BY DEF FormsInv, AwaitedInv, Request

LEMMA ResolvedBatch ==
  ASSUME FormsInv, AwaitedInv, NEW f \in Forms, BatchResolves(f)
  PROVE  puts' = {p \in puts : p.form # f}
  BY DEF AwaitedInv, BatchResolves, Batch

LEMMA NothingRejects ==
  ASSUME FormsInv, AwaitedInv, "reject" \notin Faults
  PROVE  /\ \A f \in Forms : ~BatchRejects(f)
         /\ \A p \in puts : ~PutForgotten(p) /\ ~PutAnswers(p, "rejected")
  BY DEF AwaitedInv, BatchRejects, Batch, PutForgotten, PutAnswers

LEMMA AwaitedStep ==
  ASSUME "reject" \notin Faults, FormsInv, AwaitedInv, [Next]_vars
  PROVE  AwaitedInv'
<1>1. ASSUME NEW f \in Forms, onSubmit(f)  PROVE AwaitedInv'
  <2>1. CASE UNCHANGED <<saving, puts, saves, claimed>>
    BY <2>1 DEF AwaitedInv
  <2>2. CASE /\ puts' = puts \cup {Put(f, k) : k \in Queue(f)}
             /\ saving' = [saving EXCEPT ![f] = saves[f] + 1]
    <3>1. saving[f] = 0
      BY <1>1 DEF onSubmit, Spinning
    <3>2. ASSUME NEW p \in puts  PROVE saving'[p.form] = saving[p.form]
      BY <2>2, <3>1, NothingInFlight DEF FormsInv
    <3>3. ASSUME NEW k \in Queue(f)
          PROVE  Put(f, k).batch = saving'[Put(f, k).form] /\ Put(f, k).at = "sent"
      BY <2>2 DEF Put, FormsInv
    <3> QED  BY <2>2, <3>2, <3>3 DEF AwaitedInv
  <2> QED  BY <1>1, <2>1, <2>2 DEF onSubmit
<1>2. ASSUME NEW f \in Forms, BatchResolves(f)  PROVE AwaitedInv'
  <2>1. saving' = [saving EXCEPT ![f] = 0]
    BY <1>2 DEF BatchResolves
  <2>2. ASSUME NEW p \in puts, p.form # f  PROVE saving'[p.form] = saving[p.form]
    BY <2>1, <2>2, NothingInFlight DEF FormsInv
  <2> QED  BY <1>2, <2>2, ResolvedBatch DEF AwaitedInv
<1>3. ASSUME NEW p \in puts, NEW at \in {"done", "refused"}, PutAnswers(p, at)  PROVE AwaitedInv'
  <2>1. PICK q : q = [p EXCEPT !.at = at]
    OBVIOUS
  <2>2. q.form = p.form /\ q.batch = p.batch /\ q.at = at
    <3>1. Request(page, saves, p) /\ at \in Stages
      BY DEF FormsInv, Stages
    <3> QED  BY <3>1, <2>1, AnsweredRequest
  <2>3. puts' = (puts \ {p}) \cup {q} /\ saving' = saving /\ (at = "refused" => "refuse" \in Faults)
    BY <1>3, <2>1 DEF PutAnswers
  <2> QED  BY <2>2, <2>3 DEF AwaitedInv
<1>4. ASSUME UNCHANGED <<puts, saving>>  PROVE AwaitedInv'
  BY <1>4 DEF AwaitedInv
<1>5. \/ \E f \in Forms : onSubmit(f) \/ BatchResolves(f)
      \/ \E p \in puts : \E at \in {"done", "refused"} : PutAnswers(p, at)
      \/ UNCHANGED <<puts, saving>>
  BY NothingRejects DEF Next, vars, Edit, GetReads, GetArrives
<1> QED
  BY <1>1, <1>2, <1>3, <1>4, <1>5

LEMMA AwaitedInvariance ==
  ASSUME MaxSaves \in Nat, "reject" \notin Faults
  PROVE  Spec => [](FormsInv /\ AwaitedInv)
<1>1. Init => AwaitedInv
  BY DEF Init, AwaitedInv
<1> QED
  BY <1>1, AwaitedStep, FormsInvariance, PTL DEF Spec

-----------------------------------------------------------------------------
(* What is said to be saved.                                               *)

\* The page looks at the answers, or none is a refusal.
Acknowledged == (\A p \in Pages : p.checks) \/ "refuse" \notin Faults

\* A request carries what the submit noted, and has stored it once it is done; a form that
\* waits has a request for everything it noted; what is said to be saved is stored.
Noted(p) == p.field \in DOMAIN claimed[p.form] /\ p.n = claimed[p.form][p.field]
Landed(p) == p.at = "done" => server[p.form][p.field] = p.n
Covered(f) == \A k \in DOMAIN claimed[f] : \E p \in puts : p.form = f /\ p.field = k
AllStored(f) == \A k \in DOMAIN claimed[f] : server[f][k] = claimed[f][k]

SavedInv ==
  /\ \A p \in puts : Noted(p) /\ Landed(p)
  /\ \A f \in Forms : saving[f] # 0 => Covered(f)
  /\ \A f \in Forms : toast[f] = "saved" => saving[f] = 0 /\ AllStored(f)

LEMMA SavedSubmit ==
  ASSUME FormsInv, AwaitedInv, SavedInv, NEW f \in Forms, onSubmit(f)
  PROVE  SavedInv'
<1>1. server' = server /\ inputs' = inputs /\ saving[f] = 0
  BY DEF onSubmit, Spinning
<1>2. CASE UNCHANGED <<saving, puts, saves, claimed>> /\ \E w \in {"nothing", "check"} : toast' = [toast EXCEPT ![f] = w]
  <2>1. \A g \in Forms : toast'[g] = "saved" => toast[g] = "saved"
    BY <1>2 DEF FormsInv
  <2> QED  BY <1>1, <1>2, <2>1 DEF SavedInv, Noted, Landed, Covered, AllStored
<1>3. CASE /\ puts' = puts \cup {Put(f, k) : k \in Queue(f)}
           /\ saving' = [saving EXCEPT ![f] = saves[f] + 1]
           /\ claimed' = [claimed EXCEPT ![f] = [k \in Queue(f) |-> inputs[f][k].n]]
           /\ toast' = [toast EXCEPT ![f] = "none"]
  <2>1. PICK c : c = [k \in Queue(f) |-> inputs[f][k].n]
    OBVIOUS
  <2>2. DOMAIN c = Queue(f) /\ \A k \in Queue(f) : c[k] = inputs[f][k].n
    BY <2>1
  <2>3. claimed'[f] = c /\ \A g \in Forms : g # f => claimed'[g] = claimed[g]
    <3>1. claimed' = [claimed EXCEPT ![f] = c] /\ claimed = [g \in Forms |-> claimed[g]]
      BY <1>3, <2>1 DEF FormsInv
    <3> QED  BY <3>1
  <2>4. toast'[f] = "none" /\ \A g \in Forms : g # f => toast'[g] = toast[g] /\ saving'[g] = saving[g]
    BY <1>3 DEF FormsInv
  <2>5. \A p \in puts : p.form \in Forms /\ p.form # f
    BY <1>1, NothingInFlight
  <2>6. ASSUME NEW k \in Queue(f)
        PROVE  /\ Put(f, k).form = f /\ Put(f, k).field = k /\ Put(f, k).n = inputs[f][k].n
               /\ Put(f, k).at = "sent"
    BY DEF Put
  <2>7. ASSUME NEW p \in puts'  PROVE Noted(p)' /\ Landed(p)'
    <3>1. CASE p \in puts
      BY <3>1, <2>3, <2>5, <1>1 DEF SavedInv, Noted, Landed
    <3>2. CASE \E k \in Queue(f) : p = Put(f, k)
      BY <3>2, <2>2, <2>3, <2>6 DEF Noted, Landed
    <3> QED  BY <1>3, <3>1, <3>2
  <2>8. ASSUME NEW g \in Forms, saving'[g] # 0  PROVE Covered(g)'
    <3>1. CASE g = f
      <4> SUFFICES ASSUME NEW k \in DOMAIN claimed'[g]
                   PROVE  \E p \in puts' : p.form = g /\ p.field = k
        BY DEF Covered
      <4>1. k \in Queue(f)
        BY <3>1, <2>2, <2>3
      <4>2. Put(f, k) \in puts'
        BY <4>1, <1>3
      <4> QED  BY <4>1, <4>2, <2>6, <3>1
    <3>2. CASE g # f
      BY <3>2, <2>8, <2>3, <2>4, <1>3 DEF SavedInv, Covered
    <3> QED  BY <3>1, <3>2
  <2>9. ASSUME NEW g \in Forms, toast'[g] = "saved"  PROVE saving'[g] = 0 /\ AllStored(g)'
    BY <2>9, <2>3, <2>4, <1>1 DEF SavedInv, AllStored
  <2> QED  BY <2>7, <2>8, <2>9 DEF SavedInv
<1> QED
  BY <1>2, <1>3 DEF onSubmit

LEMMA SavedResolve ==
  ASSUME Acknowledged, FormsInv, AwaitedInv, SavedInv, NEW f \in Forms, BatchResolves(f)
  PROVE  SavedInv'
<1>1. /\ saving' = [saving EXCEPT ![f] = 0] /\ server' = server /\ claimed' = claimed
      /\ toast' = [toast EXCEPT ![f] = IF SaysSaved(f) THEN "saved" ELSE "failed"]
      /\ saving[f] # 0 /\ \A p \in Batch(f) : p.at \in {"done", "refused"}
  BY DEF BatchResolves
<1>2. puts' = {p \in puts : p.form # f}
  BY ResolvedBatch
<1>3. \A g \in Forms : saving'[g] = IF g = f THEN 0 ELSE saving[g]
  BY <1>1 DEF FormsInv
<1>4. \A g \in Forms : g # f => toast'[g] = toast[g]
  BY <1>1 DEF FormsInv
<1>5. \A p \in puts' : Noted(p)' /\ Landed(p)'
  BY <1>1, <1>2 DEF SavedInv, Noted, Landed
<1>6. ASSUME NEW g \in Forms, saving'[g] # 0  PROVE Covered(g)'
  <2>1. g # f /\ Covered(g)
    BY <1>6, <1>3 DEF SavedInv
  <2> QED  BY <2>1, <1>1, <1>2 DEF Covered
<1>7. ASSUME SaysSaved(f)  PROVE AllStored(f)
  <2>1. \A p \in Batch(f) : p.at = "done"
    <3>1. CASE "refuse" \notin Faults
      BY <3>1, <1>1 DEF AwaitedInv, Batch
    <3>2. CASE \A p \in Pages : p.checks
      BY <3>2, <1>1, <1>7 DEF SaysSaved, Refused, FormsInv
    <3> QED  BY <3>1, <3>2 DEF Acknowledged
  <2>2. \A k \in DOMAIN claimed[f] : \E p \in puts : p.form = f /\ p.field = k
    BY <1>1 DEF SavedInv, Covered
  <2>3. \A p \in puts : p.form = f => p \in Batch(f)
    BY DEF AwaitedInv, Batch
  <2> QED  BY <2>1, <2>2, <2>3 DEF SavedInv, Noted, Landed, AllStored
<1>8. ASSUME NEW g \in Forms, toast'[g] = "saved"  PROVE saving'[g] = 0 /\ AllStored(g)'
  <2>1. CASE g = f
    <3>1. SaysSaved(f)
      BY <1>1, <1>8, <2>1 DEF FormsInv
    <3> QED  BY <1>1, <1>3, <1>7, <2>1, <3>1 DEF AllStored
  <2>2. CASE g # f
    BY <1>1, <1>3, <1>4, <1>8, <2>2 DEF SavedInv, AllStored
  <2> QED  BY <2>1, <2>2
<1> QED
  BY <1>5, <1>6, <1>8 DEF SavedInv

LEMMA SavedAnswer ==
  ASSUME FormsInv, AwaitedInv, SavedInv, NEW p \in puts, NEW at \in {"done", "refused"}, PutAnswers(p, at)
  PROVE  SavedInv'
<1>1. PICK q : q = [p EXCEPT !.at = at]
  OBVIOUS
<1>2. q.form = p.form /\ q.field = p.field /\ q.n = p.n /\ q.at = at
  <2>1. Request(page, saves, p) /\ at \in Stages
    BY DEF FormsInv, Stages
  <2> QED  BY <2>1, <1>1, AnsweredRequest
<1>3. puts' = (puts \ {p}) \cup {q} /\ UNCHANGED <<saving, claimed, toast>>
  BY <1>1 DEF PutAnswers
<1>4. p.form \in Forms /\ p.field \in page[p.form].fields /\ saving[p.form] # 0
  BY NothingInFlight DEF FormsInv, Request
<1>5. \/ server' = server /\ at # "done"
      \/ server' = [server EXCEPT ![p.form][p.field] = p.n]
  BY DEF PutAnswers
<1>6. /\ at = "done" => server'[p.form][p.field] = p.n
      /\ \A g \in Forms : \A j \in page[g].fields :
           (g # p.form \/ j # p.field) => server'[g][j] = server[g][j]
      /\ server'[p.form][p.field] \in {p.n, server[p.form][p.field]}
      /\ \A g \in Forms : g # p.form => server'[g] = server[g]
  <2>1. CASE server' = server /\ at # "done"
    BY <2>1
  <2>2. CASE server' = [server EXCEPT ![p.form][p.field] = p.n]
    <3>1. PICK t : t = server' /\ t = Changed(server, p.form, p.field, p.n)
      BY <2>2 DEF Changed
    <3>2. PerField(page, server)
      BY DEF FormsInv, Stored
    <3>3. /\ t[p.form][p.field] = p.n
          /\ \A g \in Forms : \A j \in page[g].fields :
               (g # p.form \/ j # p.field) => t[g][j] = server[g][j]
      BY <1>4, <3>1, <3>2, OneChanges
    <3>4. \A g \in Forms : g # p.form => t[g] = server[g]
      BY <1>4, <3>1, <3>2 DEF Changed, PerField
    <3> QED  BY <3>1, <3>3, <3>4
  <2> QED  BY <1>5, <2>1, <2>2
<1>7. ASSUME NEW r \in puts'  PROVE Noted(r)' /\ Landed(r)'
  <2>1. Noted(r)'
    BY <1>2, <1>3 DEF SavedInv, Noted
  <2>2. CASE r = q
    BY <1>2, <1>3, <1>6, <2>1, <2>2 DEF Landed
  <2>3. CASE r \in puts
    <3>1. r.form \in Forms /\ r.field \in page[r.form].fields /\ Noted(r) /\ Landed(r) /\ Noted(p)
      BY <2>3 DEF FormsInv, Request, SavedInv
    <3>2. CASE r.form = p.form /\ r.field = p.field
      <4>1. r.n = p.n
        BY <3>1, <3>2 DEF Noted
      <4> QED  BY <2>1, <3>1, <3>2, <4>1, <1>6 DEF Landed
    <3>3. CASE r.form # p.form \/ r.field # p.field
      BY <2>1, <3>1, <3>3, <1>6 DEF Landed
    <3> QED  BY <3>2, <3>3
  <2> QED  BY <1>3, <2>2, <2>3
<1>8. ASSUME NEW g \in Forms, saving'[g] # 0  PROVE Covered(g)'
  <2>1. Covered(g)
    BY <1>3, <1>8 DEF SavedInv
  <2> QED  BY <2>1, <1>2, <1>3 DEF Covered
<1>9. ASSUME NEW g \in Forms, toast'[g] = "saved"  PROVE saving'[g] = 0 /\ AllStored(g)'
  <2>1. saving[g] = 0 /\ AllStored(g)
    BY <1>3, <1>9 DEF SavedInv
  <2> QED  BY <2>1, <1>3, <1>4, <1>6 DEF AllStored
<1> QED
  BY <1>7, <1>8, <1>9 DEF SavedInv

LEMMA SavedStep ==
  ASSUME "reject" \notin Faults, Acknowledged, FormsInv, AwaitedInv, SavedInv, [Next]_vars
  PROVE  SavedInv'
<1>1. ASSUME UNCHANGED <<server, saving, puts, claimed>>, 
             \A g \in Forms : toast'[g] = "saved" => toast[g] = "saved"
      PROVE  SavedInv'
  BY <1>1 DEF SavedInv, Noted, Landed, Covered, AllStored
<1>2. ASSUME NEW f \in Forms, NEW k \in Fields(f), NEW n \in Values(k), Edit(f, k, n)  PROVE SavedInv'
  <2>1. \A g \in Forms : toast'[g] = "saved" => toast[g] = "saved"
    BY <1>2 DEF Edit, FormsInv
  <2> QED  BY <1>1, <1>2, <2>1 DEF Edit
<1>3. ASSUME GetReads \/ GetArrives \/ UNCHANGED vars  PROVE SavedInv'
  BY <1>1, <1>3 DEF GetReads, GetArrives, vars
<1> QED
  BY <1>2, <1>3, SavedSubmit, SavedResolve, SavedAnswer, NothingRejects DEF Next

\* "保存成功" means stored: a page that looks at the answers, or whose requests are not
\* refused, says so only when the server holds every option the submit sent, as long as no
\* request rejects, since Promise.all then leaves the others of the batch behind (onSubmit).
THEOREM SavedMeansStored ==
  ASSUME MaxSaves \in Nat, "reject" \notin Faults, Acknowledged
  PROVE  Spec => []SavedIsStored
<1>1. Init => SavedInv
  BY DEF Init, SavedInv
<1>2. SavedInv => SavedIsStored
  BY DEF SavedInv, SavedIsStored, AllStored
<1> QED
  BY <1>1, <1>2, SavedStep, AwaitedInvariance, PTL DEF Spec

-----------------------------------------------------------------------------
(* What the forms compare with.                                            *)

\* No page keeps its baseline because of a refusal: none looks at the answers, or none refuses.
Unrefused == (\A p \in Pages : ~p.checks) \/ "refuse" \notin Faults

\* The two marks of get are not options read.
Marks == None # Unread /\ \A s : s = [f \in Forms |-> s[f]] => s # None /\ s # Unread

ReadOf(pg, f, r, s) == \A k \in pg[f].fields : r[f][k] = s[f][k]
BaseOf(pg, f, r, s) == \A k \in pg[f].fields \ {"secret"} : r[f][k].n = s[f][k]

\* What a form compares with is stored, or will be read again, or has just been read, or the
\* form waits for a batch, at whose end it asks for the options again.
Fresh(f) ==
  \/ saving[f] # 0
  \/ get = Unread
  \/ get \notin {None, Unread} /\ ReadOf(page, f, get, server)
  \/ get = None /\ BaseOf(page, f, row, server)

FreshInv == joined \/ \A f \in Forms : Fresh(f)

LEMMA FreshInitially ==
  ASSUME Init
  PROVE  FreshInv
<1> SUFFICES ASSUME NEW f \in Forms
             PROVE  get = None /\ BaseOf(page, f, row, server)
  BY DEF FreshInv, Fresh
<1>1. \A k \in page[f].fields : server[f][k] = 0 /\ row[f][k] = Shown(f, k, 0)
  BY DEF Init, Fields
<1>2. \A k \in page[f].fields : k # "secret" => Shown(f, k, 0).n = 0
  BY ValuesAreSmall, ShownCell
<1> QED
  BY <1>1, <1>2 DEF Init, BaseOf

LEMMA FreshStep ==
  ASSUME "reject" \notin Faults, Unrefused, Marks, FormsInv, AwaitedInv, FreshInv, [Next]_vars
  PROVE  FreshInv'
<1>1. ASSUME UNCHANGED <<page, server, row, get, joined>>, \A f \in Forms : saving[f] # 0 => saving'[f] # 0
      PROVE  FreshInv'
  BY <1>1 DEF FreshInv, Fresh
<1>2. ASSUME NEW f \in Forms, NEW k \in Fields(f), NEW n \in Values(k), Edit(f, k, n)  PROVE FreshInv'
  BY <1>1, <1>2 DEF Edit
<1>3. ASSUME NEW f \in Forms, onSubmit(f)  PROVE FreshInv'
  <2>1. \A g \in Forms : saving[g] # 0 => saving'[g] # 0
    <3>1. saving[f] = 0
      BY <1>3 DEF onSubmit, Spinning
    <3> QED  BY <1>3, <3>1 DEF onSubmit, FormsInv
  <2> QED  BY <1>1, <1>3, <2>1 DEF onSubmit
<1>4. ASSUME NEW f \in Forms, BatchResolves(f)  PROVE FreshInv'
  <2>1. SaysSaved(f)
    <3>1. CASE "refuse" \notin Faults
      BY <3>1 DEF SaysSaved, Refused, Batch, AwaitedInv
    <3>2. CASE \A p \in Pages : ~p.checks
      BY <3>2 DEF SaysSaved, FormsInv
    <3> QED  BY <3>1, <3>2 DEF Unrefused
  <2>2. onRefresh
    BY <1>4, <2>1 DEF BatchResolves
  <2> QED  BY <2>2 DEF onRefresh, FreshInv, Fresh
<1>5. ASSUME NEW p \in puts, NEW at \in {"done", "refused"}, PutAnswers(p, at)  PROVE FreshInv'
  <2>1. p.form \in Forms /\ p.field \in page[p.form].fields /\ saving[p.form] # 0
    BY NothingInFlight DEF FormsInv, Request
  <2>2. UNCHANGED <<page, row, saving, get, joined>>
        /\ (server' = server \/ server' = [server EXCEPT ![p.form][p.field] = p.n])
    BY <1>5 DEF PutAnswers
  <2>3. \A g \in Forms : g # p.form => server'[g] = server[g]
    <3>1. server = [g \in Forms |-> server[g]]
      BY DEF FormsInv, Stored, PerField
    <3>2. CASE server' = server  BY <3>2
    <3>3. CASE server' = [server EXCEPT ![p.form][p.field] = p.n]
      BY <3>1, <3>3
    <3> QED  BY <2>2, <3>2, <3>3
  <2>4. ASSUME NEW g \in Forms, Fresh(g)  PROVE Fresh(g)'
    <3>1. CASE g = p.form
      BY <2>1, <2>2, <3>1 DEF Fresh
    <3>2. CASE g # p.form
      BY <2>2, <2>3, <2>4, <3>2 DEF Fresh, ReadOf, BaseOf
    <3> QED  BY <3>1, <3>2
  <2> QED  BY <2>2, <2>4 DEF FreshInv
<1>6. ASSUME GetReads  PROVE FreshInv'
  <2>1. get' = server /\ server' = server /\ page' = page
    BY <1>6 DEF GetReads
  <2>2. server # None /\ server # Unread
    BY DEF Marks, FormsInv, Stored, PerField
  <2> QED  BY <2>1, <2>2 DEF FreshInv, Fresh, ReadOf
<1>7. ASSUME GetArrives  PROVE FreshInv'
  <2>1. UNCHANGED <<page, server, saving, joined>> /\ get' = None /\ get \notin {None, Unread}
    BY <1>7 DEF GetArrives
  <2>2. PICK v : v = [f \in Forms |-> [k \in Fields(f) |-> Shown(f, k, get[f][k])]] /\ row' = v
    BY <1>7 DEF GetArrives
  <2>3. \A f \in Forms : \A k \in page[f].fields : v[f][k] = Shown(f, k, get[f][k]) /\ get[f][k] \in Values(k)
    BY <2>1, <2>2 DEF Fields, FormsInv, Stored
  <2>4. ASSUME NEW f \in Forms, ReadOf(page, f, get, server)  PROVE BaseOf(page, f, v, server)
    BY <2>3, <2>4, ShownCell DEF ReadOf, BaseOf
  <2> QED  BY <2>1, <2>2, <2>4 DEF FreshInv, Fresh
<1>8. ASSUME UNCHANGED vars  PROVE FreshInv'
  BY <1>1, <1>8 DEF vars
<1> QED
  BY <1>2, <1>3, <1>4, <1>5, <1>6, <1>7, <1>8, NothingRejects DEF Next

LEMMA FreshInvariance ==
  ASSUME MaxSaves \in Nat, "reject" \notin Faults, Unrefused, Marks
  PROVE  Spec => [](FormsInv /\ AwaitedInv /\ FreshInv)
  BY FreshInitially, FreshStep, AwaitedInvariance, PTL DEF Spec

\* Whichever forms of a tab were saved together, and in whatever order their requests and the
\* refreshes were answered, a tab at rest compares with what the server stores, unless
\* a refresh was given the answer of an older one (onRefresh, API.get).
THEOREM TabAtRestIsCurrent ==
  ASSUME MaxSaves \in Nat, "reject" \notin Faults, Unrefused, Marks
  PROVE  Spec => []BaselineIsStored
<1>1. FreshInv => BaselineIsStored
  BY DEF FreshInv, Fresh, BaselineIsStored, BaseOf, Idle, Fields, Marks
<1> QED
  BY <1>1, FreshInvariance, PTL

-----------------------------------------------------------------------------
(* A page alone on its tab.                                                *)

\* While it waits no refresh is under way, and what it found to be saved already is stored.
AloneInv ==
  /\ ~joined
  /\ \A f \in Forms : saving[f] # 0 => get = None
  /\ \A f \in Forms : toast[f] = "nothing" =>
       saving[f] = 0 /\ get = None /\ BaseOf(page, f, inputs, server)

LEMMA AloneStep ==
  ASSUME "reject" \notin Faults, Unrefused, Marks, \A f, g \in Forms : f = g,
         \A p \in Pages : p.warns => p.sends = "changed",
         FormsInv, AwaitedInv, FreshInv, AloneInv, [Next]_vars
  PROVE  AloneInv'
<1>1. ASSUME NEW f \in Forms, NEW k \in Fields(f), NEW n \in Values(k), Edit(f, k, n)  PROVE AloneInv'
  <2>1. toast'[f] = "none"
    BY <1>1 DEF Edit, FormsInv
  <2> QED  BY <1>1, <2>1 DEF Edit, AloneInv
<1>2. ASSUME NEW f \in Forms, onSubmit(f)  PROVE AloneInv'
  <2>1. saving[f] = 0 /\ get = None /\ UNCHANGED <<page, server, inputs, row, get, joined>>
    BY <1>2 DEF onSubmit, Spinning
  <2>2. CASE toast'[f] # "nothing"
    BY <2>1, <2>2 DEF AloneInv
  <2>3. CASE Queue(f) = {} /\ page[f].warns /\ saving' = saving
    <3>1. page[f].sends = "changed"
      BY <2>3 DEF FormsInv
    <3>2. \A k \in page[f].fields \ {"secret"} : inputs[f][k] = row[f][k]
      BY <2>3, <3>1 DEF Queue, compareObjects, Fields
    <3>3. BaseOf(page, f, row, server)
      BY <2>1 DEF FreshInv, Fresh, AloneInv, Marks
    <3>4. BaseOf(page, f, inputs, server)
      BY <3>2, <3>3 DEF BaseOf
    <3> QED  BY <2>1, <2>3, <3>4 DEF AloneInv
  <2> QED
    <3>1. toast'[f] = "nothing" => Queue(f) = {} /\ page[f].warns /\ saving' = saving
      BY <1>2 DEF onSubmit, FormsInv
    <3> QED  BY <2>2, <2>3, <3>1
<1>3. ASSUME NEW f \in Forms, BatchResolves(f)  PROVE AloneInv'
  <2>1. saving[f] # 0 /\ get = None
    BY <1>3 DEF BatchResolves, AloneInv
  <2>2. saving'[f] = 0 /\ toast'[f] # "nothing"
    BY <1>3 DEF BatchResolves, FormsInv
  <2>3. joined' = FALSE
    BY <1>3, <2>1 DEF BatchResolves, onRefresh, AloneInv, FormsInv
  <2> QED  BY <2>2, <2>3 DEF AloneInv
<1>4. ASSUME NEW p \in puts, NEW at \in {"done", "refused"}, PutAnswers(p, at)  PROVE AloneInv'
  <2>1. p.form \in Forms /\ saving[p.form] # 0
    BY NothingInFlight
  <2>2. \A f \in Forms : toast[f] # "nothing"
    BY <2>1 DEF AloneInv
  <2> QED  BY <1>4, <2>2 DEF PutAnswers, AloneInv
<1>5. ASSUME GetReads \/ GetArrives  PROVE AloneInv'
  <2>1. get # None /\ UNCHANGED <<joined, saving, toast>>
    BY <1>5 DEF GetReads, GetArrives, Marks
  <2>2. \A f \in Forms : saving[f] = 0 /\ toast[f] # "nothing"
    BY <2>1 DEF AloneInv
  <2> QED  BY <2>1, <2>2 DEF AloneInv
<1>6. ASSUME UNCHANGED vars  PROVE AloneInv'
  BY <1>6 DEF vars, AloneInv
<1> QED
  BY <1>1, <1>2, <1>3, <1>4, <1>5, <1>6, NothingRejects DEF Next

\* "你似乎并没有修改什么" means stored: a page alone on its tab that compares with its
\* baseline and finds nothing to send shows what the server stores (compareObjects).
THEOREM NothingToSaveIsStored ==
  ASSUME MaxSaves \in Nat, "reject" \notin Faults, Unrefused, Marks, \A f, g \in Forms : f = g,
         \A p \in Pages : p.warns => p.sends = "changed"
  PROVE  Spec => []NothingMeansStored
<1>1. Init => AloneInv
  BY DEF Init, AloneInv
<1>2. AloneInv => NothingMeansStored
  BY DEF AloneInv, NothingMeansStored, BaseOf, Fields
<1> QED
  BY <1>1, <1>2, AloneStep, FreshInvariance, PTL DEF Spec

-----------------------------------------------------------------------------
(* The cards of the system and the other settings, for any number of       *)
(* cards, of any of the kinds, and any number of saves.                    *)

CONSTANTS Cards, Kinds

VARIABLES card, cardServer, origin, cardForm, cardInputs, cardSaves, cardCount, cardToast,
          cardClaimed, overlap, lag

System == INSTANCE SystemSettings
            WITH server <- cardServer, form <- cardForm, inputs <- cardInputs, saves <- cardSaves,
                 count <- cardCount, toast <- cardToast, claimed <- cardClaimed

CardsAssumption ==
  /\ Kinds \subseteq System!SystemCards \cup System!OtherCards
  /\ MaxSaves \in Nat

Names == {"text", "switch", "secret"}

-----------------------------------------------------------------------------
(* What the cards have in common.                                          *)

GoodCard(k) == k.fields \in SUBSET Names /\ (k.blank = "noText" => "text" \in k.fields)

LEMMA PlainCards ==
  ASSUME NEW F \in SUBSET Names, NEW diff
  PROVE  GoodCard(System!Card(F, diff)) /\ System!Card(F, diff).blank = "never"
  BY DEF System!Card, GoodCard

LEMMA OddCards ==
  /\ GoodCard(System!submitWorker) /\ GoodCard(System!submitTelegramSettings)
  /\ GoodCard(System!submitNotice) /\ GoodCard(System!submitSystemName)
  BY DEF System!submitWorker, System!submitTelegramSettings, System!submitNotice,
     System!submitSystemName, System!Card, GoodCard, Names,
         System!WorkerCard, System!TelegramCard, System!NoticeCard, System!PersonalCard

LEMMA TheCards == \A k \in System!SystemCards \cup System!OtherCards : GoodCard(k)
  <1> USE DEF Names
  <1>1. /\ GoodCard(System!submitServerAddress) /\ GoodCard(System!submitSSRF) /\ GoodCard(System!submitPasskeySettings)
        /\ GoodCard(System!submitEmailDomainWhitelist) /\ GoodCard(System!handleCheckboxChange)
    BY PlainCards DEF System!submitServerAddress, System!submitSSRF, System!submitPasskeySettings,
       System!submitEmailDomainWhitelist,
       System!handleCheckboxChange, System!ServerCard, System!SSRFCard, System!PasskeyCard,
       System!EmailDomainCard, System!LoginCard
  <1>2. /\ GoodCard(System!submitSMTP) /\ GoodCard(System!submitWeChat) /\ GoodCard(System!submitGitHubOAuth)
        /\ GoodCard(System!submitDiscordOAuth) /\ GoodCard(System!submitOIDCSettings)
        /\ GoodCard(System!submitLinuxDOOAuth) /\ GoodCard(System!submitTurnstile)
    BY PlainCards DEF System!submitSMTP, System!submitWeChat, System!submitGitHubOAuth,
       System!submitDiscordOAuth,
       System!submitOIDCSettings, System!submitLinuxDOOAuth, System!submitTurnstile, System!SMTPCard,
       System!WeChatCard, System!GitHubCard,
       System!DiscordCard, System!OIDCCard, System!LinuxDOCard, System!TurnstileCard
  <1> QED BY <1>1, <1>2, OddCards DEF System!SystemCards, System!OtherCards

-----------------------------------------------------------------------------
(* The invariant.                                                          *)

Inputs == [Cards -> UNION {[F -> 0..1] : F \in SUBSET Names}]

\* The values of all fields of all cards.
AreValues(f) == f \in Inputs /\ \A c \in Cards : f[c] \in [System!Fields(c) -> 0..1]

Save == [id : Nat, card : Cards, opts : SUBSET Names, caps : Inputs, seen : Inputs,
         lagged : BOOLEAN, fly : SUBSET Names, then : SUBSET Names]

\* A save sends fields of its card, with the inputs it was started with.
GoodSave(s) ==
  /\ s \in Save
  /\ s.opts \in SUBSET System!Fields(s.card) /\ s.fly \in SUBSET s.opts /\ s.then \in SUBSET s.opts
  /\ AreValues(s.caps) /\ AreValues(s.seen)

CardTypes ==
  /\ card \in [Cards -> Kinds]
  /\ AreValues(cardServer) /\ AreValues(cardForm) /\ AreValues(cardInputs)
  /\ \A s \in cardSaves : GoodSave(s)
  /\ cardCount \in Nat
  /\ cardToast \in [Cards -> {"none", "saved", "failed"}]
  /\ DOMAIN cardClaimed = Cards /\ cardClaimed = [c \in Cards |-> cardClaimed[c]]
  /\ lag \in BOOLEAN

\* Without a save since the last edit the inputs are what the screen shows.
Seen ==
  /\ ~lag => cardInputs = cardForm
  /\ \A s \in cardSaves : ~s.lagged => s.caps = s.seen

\* An empty secret is not among the options of a card that keeps it.
Secrets ==
  \A s \in cardSaves : ("secret" \in s.opts /\ card[s.card].blank = "never") => s.caps[s.card]["secret"] = 1

LEMMA FieldsAreNames ==
  ASSUME CardsAssumption, card \in [Cards -> Kinds], NEW c \in Cards
  PROVE  System!Fields(c) \in SUBSET Names /\ (card[c].blank = "noText" => "text" \in System!Fields(c))
  BY TheCards DEF CardsAssumption, GoodCard, System!Fields

LEMMA ValuesChange ==
  ASSUME CardsAssumption, card \in [Cards -> Kinds], NEW f, AreValues(f), NEW c \in Cards,
         NEW g \in [System!Fields(c) -> 0..1]
  PROVE  AreValues([f EXCEPT ![c] = g])
  <1>1. System!Fields(c) \in SUBSET Names
    BY FieldsAreNames
  <1>2. g \in UNION {[F -> 0..1] : F \in SUBSET Names}
    BY <1>1
  <1>3. [f EXCEPT ![c] = g] \in Inputs
    BY <1>2 DEF AreValues, Inputs
  <1>4. \A d \in Cards : [f EXCEPT ![c] = g][d] \in [System!Fields(d) -> 0..1]
    BY DEF AreValues, Inputs
  <1> QED BY <1>3, <1>4 DEF AreValues

LEMMA ValueChanges ==
  ASSUME CardsAssumption, card \in [Cards -> Kinds], NEW f, AreValues(f), NEW c \in Cards,
         NEW k \in System!Fields(c), NEW n \in 0..1
  PROVE  AreValues([f EXCEPT ![c][k] = n])
  <1>1. f[c] \in [System!Fields(c) -> 0..1]
    BY DEF AreValues
  <1>2. PICK g : g = [f[c] EXCEPT ![k] = n]
    OBVIOUS
  <1>3. g \in [System!Fields(c) -> 0..1]
    BY <1>1, <1>2
  <1>4. AreValues([f EXCEPT ![c] = g])
    BY <1>3, ValuesChange
  <1>5. [f EXCEPT ![c][k] = n] = [f EXCEPT ![c] = g]
    BY <1>2
  <1> QED BY <1>4, <1>5

\* The kinds of the cards do not change, so what the values and saves are does not either.
LEMMA TypesNext ==
  ASSUME card' = card, card \in [Cards -> Kinds],
         AreValues(cardServer'), AreValues(cardForm'), AreValues(cardInputs'),
         \A s \in cardSaves' : GoodSave(s),
         cardCount' \in Nat, cardToast' \in [Cards -> {"none", "saved", "failed"}],
         cardClaimed' = [c \in Cards |-> cardClaimed'[c]], lag' \in BOOLEAN
  PROVE  CardTypes'
  <1>1. AreValues(cardServer)' /\ AreValues(cardForm)' /\ AreValues(cardInputs)'
    BY DEF AreValues, System!Fields
  <1>2. \A s \in cardSaves' : GoodSave(s)'
    BY DEF GoodSave, AreValues, System!Fields
  <1> QED BY <1>1, <1>2 DEF CardTypes

\* The options of a button are fields of its card.
LEMMA OptionsAreFields ==
  ASSUME NEW c \in Cards
  PROVE  /\ System!Options(c) \in SUBSET System!Fields(c)
         /\ ("secret" \in System!Options(c) /\ card[c].blank = "never") => cardInputs[c]["secret"] # 0
  BY DEF System!Options, System!BlankSent

LEMMA EditKeepsTypes ==
  ASSUME CardsAssumption, CardTypes, NEW c \in Cards, NEW k \in System!Fields(c), NEW n \in 0..1, System!Edit(c, k, n)
  PROVE  CardTypes'
  <1>1. AreValues(cardForm')
    BY ValueChanges DEF System!Edit, CardTypes
  <1> QED BY <1>1, TypesNext DEF System!Edit, CardTypes

LEMMA SubmitIs ==
  ASSUME CardsAssumption, CardTypes, NEW c \in Cards, System!submit(c)
  PROVE  \E s : /\ GoodSave(s) /\ cardSaves' = cardSaves \cup {s}
                /\ s.card = c /\ s.caps = cardInputs /\ s.seen = cardForm /\ s.lagged = lag
                /\ s.opts = System!Options(c) /\ s.opts = s.fly \cup s.then
                /\ s.fly = {} => s.then = {}
  <1> DEFINE O == System!Options(c)
             S == O \cap {"switch"}
             fly == IF S # {} THEN S ELSE O
             then == IF S # {} THEN O \ S ELSE {}
             s == [id |-> cardCount, card |-> c, opts |-> O, caps |-> cardInputs, seen |-> cardForm,
                   lagged |-> lag, fly |-> fly, then |-> then]
  <1>1. cardSaves' = cardSaves \cup {s}
    BY DEF System!submit
  <1>2. O \in SUBSET System!Fields(c) /\ System!Fields(c) \in SUBSET Names
    BY OptionsAreFields, FieldsAreNames DEF CardTypes
  <1>3. /\ fly \in SUBSET O /\ then \in SUBSET O /\ O = fly \cup then
        /\ fly = {} => then = {}
    OBVIOUS
  <1> HIDE DEF O, fly, then
  <1>4. cardInputs \in Inputs /\ cardForm \in Inputs /\ cardCount \in Nat /\ lag \in BOOLEAN
    BY DEF CardTypes, AreValues
  <1>5. s \in Save
    BY <1>2, <1>3, <1>4 DEF Save
  <1>6. GoodSave(s)
    BY <1>2, <1>3, <1>5 DEF GoodSave, CardTypes
  <1>7. /\ s.card = c /\ s.caps = cardInputs /\ s.seen = cardForm /\ s.lagged = lag
        /\ s.opts = O /\ s.opts = s.fly \cup s.then
        /\ s.fly = {} => s.then = {}
    BY <1>3
  <1> QED BY <1>1, <1>6, <1>7 DEF O

LEMMA SubmitKeepsTypes ==
  ASSUME CardsAssumption, CardTypes, NEW c \in Cards, System!submit(c)
  PROVE  CardTypes'
  <1>1. \A s \in cardSaves' : GoodSave(s)
    BY SubmitIs DEF CardTypes
  <1>2. /\ card' = card /\ cardServer' = cardServer /\ cardForm' = cardForm /\ cardInputs' = cardInputs /\ cardClaimed' = cardClaimed
        /\ lag' = lag /\ cardCount' = cardCount + 1 /\ cardToast' = [cardToast EXCEPT ![c] = "none"]
    BY DEF System!submit
  <1>3. cardCount' \in Nat /\ cardToast' \in [Cards -> {"none", "saved", "failed"}]
    BY <1>2 DEF CardTypes
  <1> QED BY <1>1, <1>2, <1>3, TypesNext DEF CardTypes

\* A save after one answer.
Rest(s, k) ==
  [s EXCEPT !.fly = IF s.fly = {k} THEN s.then ELSE s.fly \ {k}, !.then = IF s.fly = {k} THEN {} ELSE s.then]

LEMMA RestIs ==
  ASSUME NEW s, GoodSave(s), NEW k \in s.fly
  PROVE  /\ GoodSave(Rest(s, k))
         /\ Rest(s, k).card = s.card /\ Rest(s, k).caps = s.caps /\ Rest(s, k).seen = s.seen
         /\ Rest(s, k).lagged = s.lagged /\ Rest(s, k).opts = s.opts
         /\ s.fly \cup s.then \subseteq Rest(s, k).fly \cup Rest(s, k).then \cup {k}
         /\ Rest(s, k).fly = {} => Rest(s, k).then = {}
  <1>1. PICK f, t : f = (IF s.fly = {k} THEN s.then ELSE s.fly \ {k}) /\ t = (IF s.fly = {k} THEN {} ELSE s.then)
    OBVIOUS
  <1>2. /\ f \in SUBSET s.opts /\ t \in SUBSET s.opts /\ s.fly \cup s.then \subseteq f \cup t \cup {k}
        /\ f = {} => t = {}
    BY <1>1 DEF GoodSave
  <1>3. s \in Save
    BY DEF GoodSave
  <1>4. PICK r : r = [[s EXCEPT !.fly = f] EXCEPT !.then = t]
    OBVIOUS
  <1>5. Rest(s, k) = r
    BY <1>1, <1>4 DEF Rest
  <1>6. /\ r.id = s.id /\ r.card = s.card /\ r.caps = s.caps /\ r.seen = s.seen
        /\ r.lagged = s.lagged /\ r.opts = s.opts /\ r.fly = f /\ r.then = t
    BY <1>3, <1>4 DEF Save
  <1>7. r \in Save
    BY <1>2, <1>3, <1>4 DEF Save
  <1>8. GoodSave(r)
    BY <1>2, <1>6, <1>7 DEF GoodSave
  <1> QED BY <1>2, <1>5, <1>6, <1>8

LEMMA PutKeepsTypes ==
  ASSUME CardsAssumption, CardTypes, NEW s \in cardSaves, NEW k \in s.fly, NEW ok \in BOOLEAN, System!PutAnswers(s, k, ok)
  PROVE  CardTypes'
  <1>1. GoodSave(s)
    BY DEF CardTypes
  <1>2. s.card \in Cards /\ k \in System!Fields(s.card) /\ s.caps[s.card][k] \in 0..1
    BY <1>1 DEF GoodSave, Save, AreValues
  <1>3. AreValues(cardServer')
    <2>1. AreValues([cardServer EXCEPT ![s.card][k] = s.caps[s.card][k]])
      BY <1>2, ValueChanges DEF CardTypes
    <2> QED BY <2>1 DEF System!PutAnswers, CardTypes
  <1>4. cardSaves' \subseteq cardSaves \cup {Rest(s, k)}
    BY DEF System!PutAnswers, Rest
  <1>5. \A x \in cardSaves' : GoodSave(x)
    BY <1>1, <1>4, RestIs DEF CardTypes
  <1>6. /\ card' = card /\ cardForm' = cardForm /\ cardInputs' = cardInputs /\ cardClaimed' = cardClaimed
        /\ lag' = lag /\ cardCount' = cardCount /\ cardToast' = cardToast
    BY DEF System!PutAnswers
  <1> QED BY <1>3, <1>5, <1>6, TypesNext DEF CardTypes

LEMMA EndKeepsTypes ==
  ASSUME CardsAssumption, CardTypes, NEW s \in cardSaves, System!SaveEnds(s)
  PROVE  CardTypes'
  <1>1. GoodSave(s)
    BY DEF CardTypes
  <1>2. s.card \in Cards /\ AreValues(s.caps) /\ s.caps[s.card] \in [System!Fields(s.card) -> 0..1]
    BY <1>1 DEF GoodSave, Save, AreValues
  <1>3. AreValues([cardInputs EXCEPT ![s.card] = s.caps[s.card]])
    BY <1>2, ValuesChange DEF CardTypes
  <1>4. AreValues(cardInputs')
    BY <1>2, <1>3 DEF System!SaveEnds, System!WrittenBack
  <1>5. PICK x : cardClaimed' = [cardClaimed EXCEPT ![s.card] = x]
    BY DEF System!SaveEnds
  <1>6. cardClaimed' = [c \in Cards |-> cardClaimed'[c]]
    BY <1>5 DEF CardTypes
  <1>7. /\ card' = card /\ cardServer' = cardServer /\ cardForm' = cardForm /\ lag' = TRUE /\ cardCount' = cardCount
        /\ cardToast' = [cardToast EXCEPT ![s.card] = "saved"] /\ cardSaves' \subseteq cardSaves
    BY DEF System!SaveEnds
  <1>8. cardToast' \in [Cards -> {"none", "saved", "failed"}]
    BY <1>7 DEF CardTypes
  <1> QED BY <1>4, <1>6, <1>7, <1>8, TypesNext DEF CardTypes

LEMMA RejectKeepsTypes ==
  ASSUME CardsAssumption, CardTypes, NEW s \in cardSaves, System!SaveRejects(s)
  PROVE  CardTypes'
  <1>1. GoodSave(s)
    BY DEF CardTypes
  <1>2. s.card \in Cards /\ s.caps[s.card] \in [System!Fields(s.card) -> 0..1] /\ cardServer[s.card] \in [System!Fields(s.card) -> 0..1]
    BY <1>1 DEF GoodSave, Save, AreValues, CardTypes
  <1>3. PICK A \in SUBSET s.fly : cardServer' = [cardServer EXCEPT ![s.card] =
           [k \in System!Fields(s.card) |-> IF k \in A THEN s.caps[s.card][k] ELSE cardServer[s.card][k]]]
    BY DEF System!SaveRejects
  <1>4. PICK g : g = [k \in System!Fields(s.card) |-> IF k \in A THEN s.caps[s.card][k] ELSE cardServer[s.card][k]]
    OBVIOUS
  <1>5. g \in [System!Fields(s.card) -> 0..1]
    BY <1>2, <1>4
  <1>6. AreValues(cardServer')
    BY <1>2, <1>3, <1>4, <1>5, ValuesChange DEF CardTypes
  <1>7. /\ card' = card /\ cardForm' = cardForm /\ cardInputs' = cardInputs /\ cardClaimed' = cardClaimed /\ lag' = lag
        /\ cardCount' = cardCount /\ cardToast' = [cardToast EXCEPT ![s.card] = "failed"] /\ cardSaves' \subseteq cardSaves
    BY DEF System!SaveRejects
  <1>8. cardToast' \in [Cards -> {"none", "saved", "failed"}]
    BY <1>7 DEF CardTypes
  <1> QED BY <1>6, <1>7, <1>8, TypesNext DEF CardTypes

-----------------------------------------------------------------------------
(* What a save sends.                                                      *)

Sends == Seen /\ Secrets

\* An answer leaves what a save sends alone.
SavesGoOn(S, T) ==
  \A s \in T : \E r \in S : s.card = r.card /\ s.caps = r.caps /\ s.seen = r.seen
                            /\ s.lagged = r.lagged /\ s.opts = r.opts

LEMMA GoingOnKeepsSends ==
  ASSUME Sends, SavesGoOn(cardSaves, cardSaves'), card' = card, ~lag' => cardInputs' = cardForm'
  PROVE  Sends'
  <1>1. \A s \in cardSaves' : ~s.lagged => s.caps = s.seen
    BY DEF Sends, Seen, SavesGoOn
  <1>2. \A s \in cardSaves' : ("secret" \in s.opts /\ card[s.card].blank = "never") => s.caps[s.card]["secret"] = 1
    BY DEF Sends, Secrets, SavesGoOn
  <1>3. Seen'
    BY <1>1 DEF Seen
  <1>4. Secrets'
    BY <1>2 DEF Secrets
  <1> QED BY <1>3, <1>4 DEF Sends

LEMMA SubmitKeepsSends ==
  ASSUME CardsAssumption, CardTypes, Sends, NEW c \in Cards, System!submit(c)
  PROVE  Sends'
  <1>1. PICK s : /\ cardSaves' = cardSaves \cup {s}
                 /\ s.card = c /\ s.caps = cardInputs /\ s.seen = cardForm /\ s.lagged = lag
                 /\ s.opts = System!Options(c)
    BY SubmitIs
  <1>2. card' = card /\ cardInputs' = cardInputs /\ cardForm' = cardForm /\ lag' = lag
    BY DEF System!submit
  <1>3. ~s.lagged => s.caps = s.seen
    BY <1>1 DEF Sends, Seen
  <1>4. ("secret" \in s.opts /\ card[s.card].blank = "never") => s.caps[s.card]["secret"] = 1
    <2> SUFFICES ASSUME "secret" \in System!Options(c), card[c].blank = "never"
                 PROVE  cardInputs[c]["secret"] = 1
      BY <1>1
    <2>1. "secret" \in System!Fields(c) /\ cardInputs[c]["secret"] # 0
      BY OptionsAreFields
    <2>2. cardInputs[c] \in [System!Fields(c) -> 0..1]
      BY DEF CardTypes, AreValues
    <2>3. cardInputs[c]["secret"] \in 0..1
      BY <2>1, <2>2
    <2> QED BY <2>1, <2>3
  <1>5. Seen'
    BY <1>1, <1>2, <1>3 DEF Sends, Seen
  <1>6. Secrets'
    BY <1>1, <1>2, <1>4 DEF Sends, Secrets
  <1> QED BY <1>5, <1>6 DEF Sends

LEMMA PutGoesOn ==
  ASSUME CardTypes, NEW s \in cardSaves, NEW k \in s.fly, NEW ok \in BOOLEAN, System!PutAnswers(s, k, ok)
  PROVE  SavesGoOn(cardSaves, cardSaves')
  <1>1. cardSaves' \subseteq cardSaves \cup {Rest(s, k)}
    BY DEF System!PutAnswers, Rest
  <1>2. GoodSave(s)
    BY DEF CardTypes
  <1>3. PICK r : r = Rest(s, k)
    OBVIOUS
  <1>4. r.card = s.card /\ r.caps = s.caps /\ r.seen = s.seen /\ r.lagged = s.lagged /\ r.opts = s.opts
    BY <1>2, <1>3, RestIs
  <1> QED BY <1>1, <1>3, <1>4 DEF SavesGoOn

LEMMA StepSends ==
  ASSUME CardsAssumption, CardTypes, Sends, [System!Next]_System!vars
  PROVE  Sends'
  <1>1. CASE \E c \in Cards : System!submit(c)
    BY <1>1, SubmitKeepsSends
  <1>2. CASE \E c \in Cards : \E k \in System!Fields(c), n \in 0..1 : System!Edit(c, k, n)
    <2>1. card' = card /\ cardSaves' = cardSaves /\ cardInputs' = cardForm'
      BY <1>2 DEF System!Edit
    <2> QED BY <2>1, GoingOnKeepsSends DEF SavesGoOn
  <1>3. CASE \E s \in cardSaves : System!SaveEnds(s)
    <2>1. card' = card /\ cardSaves' \subseteq cardSaves /\ lag' = TRUE
      BY <1>3 DEF System!SaveEnds
    <2> QED BY <2>1, GoingOnKeepsSends DEF SavesGoOn
  <1>4. CASE \E s \in cardSaves : System!SaveRejects(s)
    <2>1. card' = card /\ cardSaves' \subseteq cardSaves /\ lag' = lag /\ cardInputs' = cardInputs /\ cardForm' = cardForm
      BY <1>4 DEF System!SaveRejects
    <2> QED BY <2>1, GoingOnKeepsSends DEF SavesGoOn, Sends, Seen
  <1>5. CASE \E s \in cardSaves : \E k \in s.fly, ok \in BOOLEAN : System!PutAnswers(s, k, ok)
    <2>1. card' = card /\ lag' = lag /\ cardInputs' = cardInputs /\ cardForm' = cardForm
      BY <1>5 DEF System!PutAnswers
    <2>2. SavesGoOn(cardSaves, cardSaves')
      BY <1>5, PutGoesOn
    <2> QED BY <2>1, <2>2, GoingOnKeepsSends DEF Sends, Seen
  <1>6. CASE UNCHANGED System!vars
    <2>1. card' = card /\ cardSaves' = cardSaves /\ lag' = lag /\ cardInputs' = cardInputs /\ cardForm' = cardForm
      BY <1>6 DEF System!vars
    <2> QED BY <2>1, GoingOnKeepsSends DEF SavesGoOn, Sends, Seen
  <1> QED BY <1>1, <1>2, <1>3, <1>4, <1>5, <1>6 DEF System!Next

LEMMA StepCards ==
  ASSUME CardsAssumption, CardTypes, [System!Next]_System!vars
  PROVE  CardTypes'
  <1>1. CASE UNCHANGED System!vars
    <2>1. /\ card' = card /\ cardServer' = cardServer /\ cardForm' = cardForm /\ cardInputs' = cardInputs /\ cardSaves' = cardSaves
          /\ cardCount' = cardCount /\ cardToast' = cardToast /\ cardClaimed' = cardClaimed /\ lag' = lag
      BY <1>1 DEF System!vars
    <2> QED BY <2>1, TypesNext DEF CardTypes
  <1> QED BY <1>1, EditKeepsTypes, SubmitKeepsTypes, PutKeepsTypes, EndKeepsTypes, RejectKeepsTypes DEF System!Next

LEMMA InitCards ==
  ASSUME CardsAssumption, System!Init
  PROVE  CardTypes /\ Sends
  <1>1. /\ card \in [Cards -> Kinds] /\ cardSaves = {} /\ cardCount = 0 /\ lag = FALSE
        /\ cardToast = [c \in Cards |-> "none"] /\ cardClaimed = [c \in Cards |-> <<>>]
        /\ cardServer = System!Values(0) /\ cardForm = System!Values(0) /\ cardInputs = System!Values(0)
    BY DEF System!Init
  <1>2. AreValues(System!Values(0))
    <2>1. \A c \in Cards : System!Values(0)[c] \in [System!Fields(c) -> 0..1]
      BY DEF System!Values
    <2>2. \A c \in Cards : System!Values(0)[c] \in UNION {[F -> 0..1] : F \in SUBSET Names}
      BY <1>1, <2>1, FieldsAreNames
    <2>3. System!Values(0) \in Inputs
      BY <2>2 DEF System!Values, Inputs
    <2> QED BY <2>1, <2>3 DEF AreValues
  <1>3. CardTypes
    BY <1>1, <1>2 DEF CardTypes
  <1>4. Sends
    BY <1>1 DEF Sends, Seen, Secrets
  <1> QED BY <1>3, <1>4

-----------------------------------------------------------------------------
(* What is reported, where no option is refused.                           *)

\* Two saves of a card at once are noted.
NotedCards == \A r, s \in cardSaves : (r # s /\ r.card = s.card) => r.card \in overlap

\* A card that is reported as saved has no save under way.
Quiet == \A c \in Cards : (cardToast[c] = "saved" /\ c \notin overlap) => \A s \in cardSaves : s.card # c

\* What is answered is stored, and the second half of a save waits for the first only.
Answered(s) ==
  /\ s.fly = {} => s.then = {}
  /\ s.card \notin overlap =>
       \A k \in s.opts : k \notin s.fly \cup s.then => cardServer[s.card][k] = s.caps[s.card][k]

Reports == NotedCards /\ Quiet /\ (\A s \in cardSaves : Answered(s)) /\ System!SavedIsStored

\* Only the server's values of a card with a save under way change, so the others' reports stay.
LEMMA SubmitKeepsReports ==
  ASSUME CardsAssumption, CardTypes, Reports, NEW c \in Cards, System!submit(c)
  PROVE  Reports'
  <1>1. PICK s : /\ cardSaves' = cardSaves \cup {s} /\ s.card = c
                 /\ s.opts = s.fly \cup s.then /\ (s.fly = {} => s.then = {})
    BY SubmitIs
  <1>2. /\ cardServer' = cardServer /\ cardClaimed' = cardClaimed
        /\ cardToast' = [cardToast EXCEPT ![c] = "none"]
        /\ overlap' = IF \E r \in cardSaves : r.card = c THEN overlap \cup {c} ELSE overlap
    BY DEF System!submit
  <1>3. overlap \subseteq overlap' /\ (c \notin overlap' => \A r \in cardSaves : r.card # c)
    BY <1>2
  <1>4. cardToast'[c] = "none" /\ \A d \in Cards : d # c => cardToast'[d] = cardToast[d]
    BY <1>2 DEF CardTypes
  <1>5. NotedCards'
    BY <1>1, <1>3 DEF Reports, NotedCards
  <1>6. Quiet'
    BY <1>1, <1>3, <1>4 DEF Reports, Quiet
  <1>7. \A r \in cardSaves' : Answered(r)'
    BY <1>1, <1>2, <1>3 DEF Reports, Answered
  <1>8. System!SavedIsStored'
    BY <1>2, <1>3, <1>4 DEF Reports, System!SavedIsStored
  <1> QED BY <1>5, <1>6, <1>7, <1>8 DEF Reports

LEMMA PutKeepsReports ==
  ASSUME CardsAssumption, "refuse" \notin Faults, CardTypes, Reports,
         NEW s \in cardSaves, NEW k \in s.fly, NEW ok \in BOOLEAN, System!PutAnswers(s, k, ok)
  PROVE  Reports'
  <1>1. GoodSave(s)
    BY DEF CardTypes
  <1>2. PICK r, c, v : r = Rest(s, k) /\ c = s.card /\ v = s.caps[s.card][k]
    OBVIOUS
  <1>3. /\ r.card = c /\ r.caps = s.caps /\ r.opts = s.opts
        /\ s.fly \cup s.then \subseteq r.fly \cup r.then \cup {k}
        /\ r.fly = {} => r.then = {}
    BY <1>1, <1>2, RestIs
  <1>4. /\ cardServer' = [cardServer EXCEPT ![c][k] = v]
        /\ cardSaves' = (cardSaves \ {s}) \cup {r}
        /\ cardClaimed' = cardClaimed /\ cardToast' = cardToast /\ overlap' = overlap
    BY <1>2 DEF System!PutAnswers, Rest
  <1>5. c \in Cards /\ k \in System!Fields(c)
    BY <1>1, <1>2 DEF GoodSave, Save
  <1>6. /\ cardServer'[c][k] = v
        /\ \A d \in Cards : d # c => cardServer'[d] = cardServer[d]
        /\ \A j \in System!Fields(c) : j # k => cardServer'[c][j] = cardServer[c][j]
    BY <1>4, <1>5 DEF CardTypes, AreValues, Inputs
  <1>7. NotedCards'
    BY <1>2, <1>3, <1>4 DEF Reports, NotedCards
  <1>8. Quiet'
    BY <1>2, <1>3, <1>4 DEF Reports, Quiet
  <1>9. Answered(r)'
    <2>1. ASSUME c \notin overlap, NEW j \in s.opts, j \notin r.fly \cup r.then
          PROVE  cardServer'[c][j] = s.caps[c][j]
      <3>1. CASE j = k
        BY <3>1, <1>2, <1>6
      <3>2. CASE j # k
        <4>1. j \notin s.fly \cup s.then
          BY <3>2, <2>1, <1>3
        <4>2. cardServer[c][j] = s.caps[c][j]
          BY <2>1, <4>1, <1>2 DEF Reports, Answered
        <4>3. j \in System!Fields(c)
          BY <1>1, <1>2, <2>1 DEF GoodSave
        <4> QED BY <3>2, <4>2, <4>3, <1>6
      <3> QED BY <3>1, <3>2
    <2> QED BY <2>1, <1>3, <1>4 DEF Answered
  <1>10. ASSUME NEW x \in cardSaves, x # s
         PROVE  Answered(x)'
    <2>1. CASE x.card = c
      <3>1. c \in overlap
        BY <2>1, <1>2, <1>10 DEF Reports, NotedCards
      <3> QED BY <2>1, <3>1, <1>4, <1>10 DEF Answered, Reports
    <2>2. CASE x.card # c
      <3>1. x.card \in Cards
        BY <1>10 DEF CardTypes, GoodSave, Save
      <3>2. cardServer'[x.card] = cardServer[x.card]
        BY <2>2, <3>1, <1>6
      <3> QED BY <3>2, <1>4, <1>10 DEF Answered, Reports
    <2> QED BY <2>1, <2>2
  <1>11. \A x \in cardSaves' : Answered(x)'
    BY <1>4, <1>9, <1>10
  <1>12. System!SavedIsStored'
    <2>1. cardToast[c] = "saved" => c \in overlap
      BY <1>2, <1>5 DEF Reports, Quiet
    <2> QED BY <2>1, <1>4, <1>6 DEF Reports, System!SavedIsStored
  <1> QED BY <1>7, <1>8, <1>11, <1>12 DEF Reports

LEMMA EndKeepsReports ==
  ASSUME CardsAssumption, CardTypes, Reports, NEW s \in cardSaves, System!SaveEnds(s)
  PROVE  Reports'
  <1>1. GoodSave(s)
    BY DEF CardTypes
  <1>2. PICK c, x : c = s.card /\ x = [k \in s.opts |-> s.caps[s.card][k]]
    OBVIOUS
  <1>3. c \in Cards
    BY <1>1, <1>2 DEF GoodSave, Save
  <1>4. /\ cardSaves' = cardSaves \ {s} /\ cardServer' = cardServer /\ overlap' = overlap
        /\ cardToast' = [cardToast EXCEPT ![c] = "saved"] /\ cardClaimed' = [cardClaimed EXCEPT ![c] = x]
        /\ s.fly = {}
    BY <1>2 DEF System!SaveEnds
  <1>5. \A d \in Cards : d # c => cardToast'[d] = cardToast[d] /\ cardClaimed'[d] = cardClaimed[d]
    BY <1>4 DEF CardTypes
  <1>6. cardClaimed'[c] = x
    BY <1>3, <1>4 DEF CardTypes
  <1>7. NotedCards'
    BY <1>4 DEF Reports, NotedCards
  <1>8. Quiet'
    <2>1. c \notin overlap => \A r \in cardSaves \ {s} : r.card # c
      BY <1>2 DEF Reports, NotedCards
    <2> QED BY <2>1, <1>4, <1>5 DEF Reports, Quiet
  <1>9. \A r \in cardSaves' : Answered(r)'
    BY <1>4 DEF Reports, Answered
  <1>10. System!SavedIsStored'
    <2>1. c \notin overlap => \A k \in s.opts : cardServer[c][k] = s.caps[c][k]
      BY <1>2, <1>4 DEF Reports, Answered
    <2>2. c \notin overlap => \A k \in DOMAIN x : cardServer[c][k] = x[k]
      BY <2>1, <1>2
    <2> QED BY <2>2, <1>4, <1>5, <1>6 DEF Reports, System!SavedIsStored
  <1> QED BY <1>7, <1>8, <1>9, <1>10 DEF Reports

LEMMA RejectKeepsReports ==
  ASSUME CardsAssumption, CardTypes, Reports, NEW s \in cardSaves, System!SaveRejects(s)
  PROVE  Reports'
  <1>1. GoodSave(s)
    BY DEF CardTypes
  <1>2. PICK c : c = s.card
    OBVIOUS
  <1>3. c \in Cards
    BY <1>1, <1>2 DEF GoodSave, Save
  <1>4. PICK g : cardServer' = [cardServer EXCEPT ![c] = g]
    BY <1>2 DEF System!SaveRejects
  <1>5. /\ cardSaves' = cardSaves \ {s} /\ overlap' = overlap /\ cardClaimed' = cardClaimed
        /\ cardToast' = [cardToast EXCEPT ![c] = "failed"]
    BY <1>2 DEF System!SaveRejects
  <1>6. \A d \in Cards : d # c => cardToast'[d] = cardToast[d] /\ cardServer'[d] = cardServer[d]
    BY <1>4, <1>5 DEF CardTypes, AreValues, Inputs
  <1>7. cardToast'[c] = "failed"
    BY <1>3, <1>5 DEF CardTypes
  <1>8. NotedCards'
    BY <1>5 DEF Reports, NotedCards
  <1>9. Quiet'
    BY <1>5, <1>6, <1>7 DEF Reports, Quiet
  <1>10. ASSUME NEW x \in cardSaves, x # s
         PROVE  Answered(x)'
    <2>1. CASE x.card = c
      <3>1. c \in overlap
        BY <2>1, <1>2, <1>10 DEF Reports, NotedCards
      <3> QED BY <2>1, <3>1, <1>5, <1>10 DEF Answered, Reports
    <2>2. CASE x.card # c
      <3>1. x.card \in Cards
        BY <1>10 DEF CardTypes, GoodSave, Save
      <3>2. cardServer'[x.card] = cardServer[x.card]
        BY <2>2, <3>1, <1>6
      <3> QED BY <3>2, <1>5, <1>10 DEF Answered, Reports
    <2> QED BY <2>1, <2>2
  <1>11. \A x \in cardSaves' : Answered(x)'
    BY <1>5, <1>10
  <1>12. System!SavedIsStored'
    BY <1>5, <1>6, <1>7 DEF Reports, System!SavedIsStored
  <1> QED BY <1>8, <1>9, <1>11, <1>12 DEF Reports

LEMMA StepReports ==
  ASSUME CardsAssumption, "refuse" \notin Faults, CardTypes, Reports, [System!Next]_System!vars
  PROVE  Reports'
  <1>1. CASE (\E c \in Cards : \E k \in System!Fields(c), n \in 0..1 : System!Edit(c, k, n)) \/ UNCHANGED System!vars
    <2>1. cardSaves' = cardSaves /\ cardServer' = cardServer /\ overlap' = overlap /\ cardToast' = cardToast /\ cardClaimed' = cardClaimed
      BY <1>1 DEF System!Edit, System!vars
    <2>2. NotedCards' /\ Quiet' /\ System!SavedIsStored'
      BY <2>1 DEF Reports, NotedCards, Quiet, System!SavedIsStored
    <2>3. \A s \in cardSaves' : Answered(s)'
      BY <2>1 DEF Reports, Answered
    <2> QED BY <2>2, <2>3 DEF Reports
  <1> QED BY <1>1, SubmitKeepsReports, PutKeepsReports, EndKeepsReports, RejectKeepsReports DEF System!Next

LEMMA InitReports ==
  ASSUME System!Init
  PROVE  Reports
  <1>1. cardSaves = {} /\ cardToast = [c \in Cards |-> "none"]
    BY DEF System!Init
  <1> QED BY <1>1 DEF Reports, NotedCards, Quiet, System!SavedIsStored

-----------------------------------------------------------------------------
(* The theorems.                                                           *)

LEMMA SendsInvariant ==
  ASSUME CardsAssumption
  PROVE  System!Spec => [](CardTypes /\ Sends)
  <1>1. System!Init => CardTypes /\ Sends
    BY InitCards
  <1>2. CardTypes /\ Sends /\ [System!Next]_System!vars => (CardTypes /\ Sends)'
    BY StepCards, StepSends
  <1> QED BY <1>1, <1>2, PTL DEF System!Spec

\* Type correctness: values of the fields stay values, and a save has under way what it sends.
THEOREM CardsTypes ==
  ASSUME CardsAssumption
  PROVE  System!Spec => []System!TypeOK
  <1>1. CardTypes => System!TypeOK
    <2> SUFFICES ASSUME CardTypes
                 PROVE  System!TypeOK
      OBVIOUS
    <2>1. \A c \in Cards : \A k \in System!Fields(c) : cardServer[c][k] \in 0..1 /\ cardForm[c][k] \in 0..1 /\ cardInputs[c][k] \in 0..1
      BY DEF CardTypes, AreValues
    <2>2. \A s \in cardSaves : s.fly \subseteq s.opts /\ s.then \subseteq s.opts
      BY DEF CardTypes, GoodSave
    <2> QED BY <2>1, <2>2 DEF System!TypeOK, CardTypes
  <1> QED BY <1>1, SendsInvariant, PTL

\* A button sends what the screen shows, whatever other saves are under way and however they
\* end, unless one has ended since the last edit and put its own older inputs back.
THEOREM CardsSendWhatIsShown ==
  ASSUME CardsAssumption
  PROVE  System!Spec => []System!SendsWhatIsShown
  <1>1. Sends => System!SendsWhatIsShown
    BY DEF Sends, Seen, System!SendsWhatIsShown
  <1> QED BY <1>1, SendsInvariant, PTL

\* No overlapping saves, refusals or rejections replace a stored secret by an empty one on a
\* card that sends a secret only when it was typed.
THEOREM SecretsAreKept ==
  ASSUME CardsAssumption
  PROVE  System!Spec => [][System!SecretsAreNotErased]_System!vars
  <1>1. CardTypes /\ Sends /\ [System!Next]_System!vars => [System!SecretsAreNotErased]_System!vars
    <2> SUFFICES ASSUME CardTypes, Sends, System!Next, NEW c \in Cards, "secret" \in System!Fields(c), card[c].blank = "never"
                 PROVE  cardServer'[c]["secret"] >= cardServer[c]["secret"]
      BY DEF System!SecretsAreNotErased
    <2>1. cardServer[c]["secret"] \in 0..1
      BY DEF CardTypes, AreValues
    <2>2. CASE cardServer' = cardServer
      BY <2>1, <2>2
    <2>3. CASE \E s \in cardSaves : \E k \in s.fly, ok \in BOOLEAN : System!PutAnswers(s, k, ok)
      <3>1. PICK s \in cardSaves : \E k \in s.fly, ok \in BOOLEAN : System!PutAnswers(s, k, ok)
        BY <2>3
      <3>2. PICK k \in s.fly : cardServer' = cardServer \/ cardServer' = [cardServer EXCEPT ![s.card][k] = s.caps[s.card][k]]
        BY <3>1 DEF System!PutAnswers
      <3>3. s.card \in Cards /\ k \in s.opts
        BY DEF CardTypes, GoodSave, Save
      <3>4. CASE s.card = c /\ k = "secret"
        <4>1. s.caps[c]["secret"] = 1
          BY <3>3, <3>4 DEF Sends, Secrets
        <4>2. cardServer' = cardServer \/ cardServer'[c]["secret"] = 1
          BY <3>2, <3>4, <4>1 DEF CardTypes, AreValues, Inputs
        <4> QED BY <2>1, <2>2, <4>2
      <3>5. CASE ~(s.card = c /\ k = "secret")
        <4>1. cardServer'[c]["secret"] = cardServer[c]["secret"]
          BY <3>2, <3>3, <3>5 DEF CardTypes, AreValues, Inputs
        <4> QED BY <2>1, <4>1
      <3> QED BY <3>4, <3>5
    <2>4. CASE \E s \in cardSaves : System!SaveRejects(s)
      <3>1. PICK s \in cardSaves : System!SaveRejects(s)
        BY <2>4
      <3>2. PICK A \in SUBSET s.fly : cardServer' = [cardServer EXCEPT ![s.card] =
               [k \in System!Fields(s.card) |-> IF k \in A THEN s.caps[s.card][k] ELSE cardServer[s.card][k]]]
        BY <3>1 DEF System!SaveRejects
      <3>3. s.card \in Cards /\ A \subseteq s.opts
        BY DEF CardTypes, GoodSave, Save
      <3>4. CASE s.card = c
        <4>1. cardServer'[c]["secret"] = IF "secret" \in A THEN s.caps[c]["secret"] ELSE cardServer[c]["secret"]
          BY <3>2, <3>4 DEF CardTypes, AreValues, Inputs
        <4>2. "secret" \in A => s.caps[c]["secret"] = 1
          BY <3>3, <3>4 DEF Sends, Secrets
        <4> QED BY <2>1, <4>1, <4>2
      <3>5. CASE s.card # c
        <4>1. cardServer'[c] = cardServer[c]
          BY <3>2, <3>5 DEF CardTypes, AreValues, Inputs
        <4> QED BY <2>1, <4>1
      <3> QED BY <3>4, <3>5
    <2> QED BY <2>2, <2>3, <2>4 DEF System!Next, System!submit, System!Edit, System!SaveEnds
  <1> QED BY <1>1, SendsInvariant, PTL DEF System!Spec

\* Where no option is refused, a card reported as saved ("更新成功") is stored as reported,
\* with any number of other cards being saved, rejected and edited meanwhile, unless it was
\* itself saved twice at once.
THEOREM ReportedIsStored ==
  ASSUME CardsAssumption, "refuse" \notin Faults
  PROVE  System!Spec => []System!SavedIsStored
  <1>1. System!Init => CardTypes /\ Reports
    BY InitCards, InitReports
  <1>2. CardTypes /\ Reports /\ [System!Next]_System!vars => (CardTypes /\ Reports)'
    BY StepCards, StepReports
  <1>3. Reports => System!SavedIsStored
    BY DEF Reports
  <1> QED BY <1>1, <1>2, <1>3, PTL DEF System!Spec

-----------------------------------------------------------------------------
(* The synchronisation of ratios, for any models, channels and values.     *)

CONSTANTS Models, Channels, Local, Upstream, MaxFetches, MaxPicks

VARIABLES syncServer, syncOptions, syncDialog, chosen, fetching, covered, differences, resolutions,
          syncConfirm, syncSave, fetches, picks

Sync == INSTANCE RatioSync
          WITH server <- syncServer, options <- syncOptions, dialog <- syncDialog,
               confirm <- syncConfirm, save <- syncSave

\* What the constants are in the code: an option holds something for every kind of ratio.
SyncAssumption == Local = [t \in Sync!Types |-> Local[t]]

\* The four kinds of ratio.
LEMMA TheTypes ==
  /\ Sync!Types = {"cache_ratio", "completion_ratio", "model_price", "model_ratio"}
  /\ Sync!TypeOrder[1] = "cache_ratio" /\ Sync!TypeOrder[2] = "completion_ratio"
  /\ Sync!TypeOrder[3] = "model_price" /\ Sync!TypeOrder[4] = "model_ratio"
<1>1. /\ Sync!TypeOrder[1] = "cache_ratio" /\ Sync!TypeOrder[2] = "completion_ratio"
      /\ Sync!TypeOrder[3] = "model_price" /\ Sync!TypeOrder[4] = "model_ratio"
  BY DEF Sync!TypeOrder
<1>2. Sync!Types = {Sync!TypeOrder[1], Sync!TypeOrder[2], Sync!TypeOrder[3], Sync!TypeOrder[4]}
  <2>1. 1..4 = {1, 2, 3, 4}
    OBVIOUS
  <2> QED
    BY <2>1 DEF Sync!Types
<1> QED
  BY <1>1, <1>2

-----------------------------------------------------------------------------
(* The choices.                                                            *)

\* The choices for a model are of one way of billing.
Unmixed(r) == \A t, u \in Sync!Picked(r) : Sync!getBillingCategory(t) = Sync!getBillingCategory(u)

\* And they are values some channel offers in its rows.
Offered(r, m) ==
  /\ r = [t \in Sync!Types |-> r[t]] /\ Unmixed(r)
  /\ \A t \in Sync!Picked(r) : \E c \in Channels : Sync!Cell(m, t, c) = r[t]

Resolved ==
  /\ resolutions = [m \in Models |-> resolutions[m]]
  /\ \A m \in Models : Offered(resolutions[m], m)

\* Nothing is chosen.
LEMMA NothingOffered ==
  ASSUME resolutions' = Sync!Nothing
  PROVE  Resolved'
<1>1. \A m \in Models : Sync!Nothing[m] = Sync!NoPick
  BY DEF Sync!Nothing
<1>2. Sync!Picked(Sync!NoPick) = {} /\ Sync!NoPick = [t \in Sync!Types |-> Sync!NoPick[t]]
  BY DEF Sync!Picked, Sync!NoPick
<1>3. \A m \in Models : Sync!Picked(resolutions'[m]) = {} /\ resolutions'[m] = [t \in Sync!Types |-> resolutions'[m][t]]
  BY <1>1, <1>2
<1>4. resolutions' = [m \in Models |-> resolutions'[m]]
  BY DEF Sync!Nothing
<1> QED
  BY <1>3, <1>4 DEF Resolved, Offered, Unmixed, Sync!Picked

\* A choice more, and the choices of the other way of billing gone.
LEMMA SelectOffered ==
  ASSUME NEW r, NEW m \in Models, NEW t \in Sync!Types, NEW c \in Channels, Offered(r, m)
  PROVE  Offered(Sync!selectValue(r, t, Sync!Cell(m, t, c)), m)
<1> DEFINE v == Sync!Cell(m, t, c)
           s == Sync!selectValue(r, t, v)
<1>1. /\ s = [u \in Sync!Types |-> s[u]] /\ s[t] = v
      /\ \A u \in Sync!Types : u # t =>
           s[u] = IF Sync!getBillingCategory(u) = Sync!getBillingCategory(t) THEN r[u] ELSE None
  BY DEF Sync!selectValue
<1> HIDE DEF s
<1>2. \A u \in Sync!Picked(s) : u \in Sync!Types /\ (u = t \/ (u \in Sync!Picked(r) /\ s[u] = r[u]))
                           /\ Sync!getBillingCategory(u) = Sync!getBillingCategory(t)
  BY <1>1 DEF Sync!Picked
<1>3. Unmixed(s)
  BY <1>2 DEF Unmixed
<1>4. \A u \in Sync!Picked(s) : \E d \in Channels : Sync!Cell(m, u, d) = s[u]
  BY <1>1, <1>2 DEF Offered
<1>5. Offered(s, m)
  BY <1>1, <1>3, <1>4 DEF Offered
<1> QED
  BY <1>5 DEF s

\* Choices withdrawn.
LEMMA FewerOffered ==
  ASSUME NEW r, NEW s, NEW m \in Models, Offered(r, m), s = [t \in Sync!Types |-> s[t]],
         \A t \in Sync!Types : s[t] \in {r[t], None}
  PROVE  Offered(s, m)
<1>1. \A t \in Sync!Picked(s) : t \in Sync!Picked(r) /\ s[t] = r[t]
  BY DEF Sync!Picked
<1> QED
  BY <1>1 DEF Offered, Unmixed

LEMMA RowsOffered ==
  ASSUME NEW r, NEW m \in Models, NEW ts, NEW c \in Channels, Offered(r, m)
  PROVE  Offered(Sync!AfterRows(r, m, ts, c), m)
<1>1. ASSUME NEW q, Offered(q, m), NEW t \in Sync!Types PROVE Offered(Sync!AfterRow(q, m, t, ts, c), m)
  BY <1>1, SelectOffered DEF Sync!AfterRow
<1>2. Sync!TypeOrder[1] \in Sync!Types /\ Sync!TypeOrder[2] \in Sync!Types /\ Sync!TypeOrder[3] \in Sync!Types /\ Sync!TypeOrder[4] \in Sync!Types
  BY TheTypes
<1>3. PICK one : one = Sync!AfterRow(r, m, Sync!TypeOrder[1], ts, c)
  OBVIOUS
<1>4. PICK two : two = Sync!AfterRow(one, m, Sync!TypeOrder[2], ts, c)
  OBVIOUS
<1>5. PICK three : three = Sync!AfterRow(two, m, Sync!TypeOrder[3], ts, c)
  OBVIOUS
<1>6. Sync!AfterRows(r, m, ts, c) = Sync!AfterRow(three, m, Sync!TypeOrder[4], ts, c)
  BY <1>3, <1>4, <1>5 DEF Sync!AfterRows
<1>7. Offered(one, m)
  BY <1>1, <1>2, <1>3
<1>8. Offered(two, m)
  BY <1>1, <1>2, <1>4, <1>7
<1>9. Offered(three, m)
  BY <1>1, <1>2, <1>5, <1>8
<1> QED
  BY <1>1, <1>2, <1>6, <1>9

\* A click on the rows.
LEMMA PickResolved ==
  ASSUME Resolved, differences' = differences,
         resolutions' = [m \in Models |-> resolutions'[m]],
         \A m \in Models : Offered(resolutions'[m], m)
  PROVE  Resolved'
<1>1. \A m, t, c : Sync!Cell(m, t, c)' = Sync!Cell(m, t, c)
  BY DEF Sync!Cell
<1> QED
  BY <1>1 DEF Resolved, Offered, Unmixed, Sync!Picked, Sync!Cell

LEMMA CheckResolved ==
  ASSUME Resolved, NEW m \in Models, NEW t \in Sync!Types, NEW c \in Channels, Sync!checkCell(m, t, c)
  PROVE  Resolved'
<1> DEFINE r == resolutions[m]
           s == IF r[t] = Sync!Cell(m, t, c) THEN [r EXCEPT ![t] = None]
                ELSE Sync!selectValue(r, t, Sync!Cell(m, t, c))
<1>1. differences' = differences /\ resolutions' = [resolutions EXCEPT ![m] = s]
  BY DEF Sync!checkCell, Sync!Pick
<1>2. Offered(r, m) /\ r = [u \in Sync!Types |-> r[u]]
  BY DEF Resolved, Offered
<1>3. CASE r[t] = Sync!Cell(m, t, c)
  <2>1. PICK q : q = [r EXCEPT ![t] = None]
    OBVIOUS
  <2>2. q = [u \in Sync!Types |-> q[u]] /\ \A u \in Sync!Types : q[u] \in {r[u], None}
    BY <1>2, <2>1
  <2>3. Offered(q, m)
    BY <1>2, <2>2, FewerOffered
  <2> QED
    BY <1>1, <1>3, <2>1, <2>3, PickResolved DEF Resolved
<1>4. CASE r[t] # Sync!Cell(m, t, c)
  <2>1. PICK q : q = Sync!selectValue(r, t, Sync!Cell(m, t, c))
    OBVIOUS
  <2>2. Offered(q, m)
    BY <1>2, <2>1, SelectOffered
  <2> QED
    BY <1>1, <1>4, <2>1, <2>2, PickResolved DEF Resolved
<1> QED
  BY <1>3, <1>4

LEMMA BulkResolved ==
  ASSUME Resolved, NEW ms, NEW ts, NEW c \in Channels, NEW on \in BOOLEAN,
         Sync!handleBulkSelect(ms, ts, c, on)
  PROVE  Resolved'
<1> DEFINE clear(r, m) == [t \in Sync!Types |-> IF t \in ts /\ differences[m][t] # None THEN None ELSE r[t]]
<1>1. /\ differences' = differences
      /\ resolutions' = [m \in Models |->
           IF m \notin ms THEN resolutions[m]
           ELSE IF on THEN Sync!AfterRows(resolutions[m], m, ts, c) ELSE clear(resolutions[m], m)]
  BY DEF Sync!handleBulkSelect, Sync!Pick
<1>2. ASSUME NEW m \in Models PROVE Offered(resolutions'[m], m)
  <2>1. Offered(resolutions[m], m)
    BY DEF Resolved
  <2>2. Offered(Sync!AfterRows(resolutions[m], m, ts, c), m)
    BY <2>1, RowsOffered
  <2>3. Offered(clear(resolutions[m], m), m)
    <3>1. PICK q : q = clear(resolutions[m], m)
      OBVIOUS
    <3>2. q = [t \in Sync!Types |-> q[t]] /\ \A t \in Sync!Types : q[t] \in {resolutions[m][t], None}
      BY <3>1
    <3> QED
      BY <2>1, <3>1, <3>2, FewerOffered
  <2>4. \/ resolutions'[m] = resolutions[m]
        \/ resolutions'[m] = Sync!AfterRows(resolutions[m], m, ts, c)
        \/ resolutions'[m] = clear(resolutions[m], m)
    BY <1>1
  <2> QED
    BY <2>1, <2>2, <2>3, <2>4
<1>3. resolutions' = [m \in Models |-> resolutions'[m]]
  BY <1>1
<1> QED
  BY <1>1, <1>2, <1>3, PickResolved

-----------------------------------------------------------------------------
(* The save.                                                               *)

\* The variables keep their shape.
Shape ==
  /\ syncServer = [t \in Sync!Types |-> syncServer[t]] /\ syncOptions = [t \in Sync!Types |-> syncOptions[t]]
  /\ syncDialog \in BOOLEAN /\ chosen \in SUBSET Channels
  /\ fetching \in Seq(SUBSET Channels) /\ covered \in BOOLEAN
  /\ syncSave = [phase |-> syncSave.phase, puts |-> syncSave.puts, value |-> syncSave.value, of |-> syncSave.of,
             failed |-> syncSave.failed]
  /\ syncSave.phase \in {"idle", "saving", "refreshing"} /\ syncSave.puts \in SUBSET Sync!Types
  /\ syncSave.failed \in BOOLEAN

\* A save sends what its choices make of the options the page read; what was put without a
\* failure is stored.
Saving ==
  syncSave.phase # "idle" =>
    /\ syncSave.value = Sync!finalRatios(syncOptions, syncSave.of)
    /\ \A m \in Models : Unmixed(syncSave.of[m])
    /\ ~syncSave.failed => \A t \in Sync!Types \ syncSave.puts : syncServer[t] = syncSave.value[t]
    /\ syncSave.phase = "refreshing" => syncSave.puts = {} /\ ~syncSave.failed

\* The confirmation lists every model whose billing would change, as long as it is open.
Confirming ==
  syncConfirm # None => syncConfirm \in SUBSET Models /\ syncSave.phase = "idle" /\ Sync!Conflicts \subseteq syncConfirm

SyncInv == Resolved /\ Shape /\ Saving /\ Confirming

\* RemoveAt drops one comparison.
LEMMA FetchRemoved ==
  ASSUME NEW S, NEW s \in Seq(S), NEW i \in DOMAIN s
  PROVE  Sync!RemoveAt(s, i) \in Seq(S)
<1>1. i \in 1..Len(s) /\ Len(s) \in Nat
  OBVIOUS
<1>2. SubSeq(s, 1, i - 1) \in Seq(S) /\ SubSeq(s, i + 1, Len(s)) \in Seq(S)
  BY <1>1
<1>3. Sync!RemoveAt(s, i) = SubSeq(s, 1, i - 1) \o SubSeq(s, i + 1, Len(s))
  BY DEF Sync!RemoveAt
<1> QED
  BY <1>2, <1>3

LEMMA SyncInitially ==
  ASSUME SyncAssumption, Sync!Init
  PROVE  SyncInv
<1>1. \A m \in Models : Sync!Nothing[m] = Sync!NoPick
  BY DEF Sync!Nothing
<1>2. Sync!Picked(Sync!NoPick) = {} /\ Sync!NoPick = [t \in Sync!Types |-> Sync!NoPick[t]]
  BY DEF Sync!Picked, Sync!NoPick
<1>3. Resolved
  BY <1>1, <1>2 DEF Sync!Init, Resolved, Offered, Unmixed, Sync!Nothing
<1>4. Shape
  <2>1. /\ syncSave.phase = "idle" /\ syncSave.puts = {} /\ syncSave.failed = FALSE
        /\ syncSave = [phase |-> syncSave.phase, puts |-> syncSave.puts, value |-> syncSave.value, of |-> syncSave.of,
                   failed |-> syncSave.failed]
    BY DEF Sync!Init, Sync!Idle
  <2>2. <<>> \in Seq(SUBSET Channels)
    OBVIOUS
  <2> QED
    BY <2>1, <2>2 DEF Sync!Init, Shape, SyncAssumption
<1>5. Saving /\ Confirming
  BY DEF Sync!Init, Saving, Confirming, Sync!Idle
<1> QED
  BY <1>3, <1>4, <1>5 DEF SyncInv

\* Nothing chosen, nothing changes.
LEMMA NoConflicts ==
  ASSUME resolutions' = Sync!Nothing
  PROVE  Sync!Conflicts' = {}
<1>1. \A m \in Models : Sync!Picked(resolutions'[m]) = {}
  BY DEF Sync!Nothing, Sync!NoPick, Sync!Picked
<1> QED
  BY <1>1 DEF Sync!Conflicts, Sync!Chosen, Sync!Picked

\* What a save leaves of the parts it does not touch.
LEMMA SavingStays ==
  ASSUME Saving, syncSave' = syncSave, syncServer' = syncServer, syncOptions' = syncOptions
  PROVE  Saving'
  BY DEF Saving, Sync!finalRatios, Unmixed, Sync!Picked

LEMMA ConfirmingStays ==
  ASSUME Confirming, syncConfirm' = syncConfirm, syncSave'.phase = "idle" \/ syncSave.phase # "idle",
         resolutions' = resolutions \/ resolutions' = Sync!Nothing, syncOptions' = syncOptions
  PROVE  Confirming'
<1>1. CASE resolutions' = resolutions
  <2>1. Sync!Conflicts' = Sync!Conflicts
    BY <1>1 DEF Sync!Conflicts, Sync!Chosen, Sync!Picked, Sync!NewCategory, Sync!getLocalBillingCategory
  <2> QED
    BY <2>1 DEF Confirming
<1>2. CASE resolutions' = Sync!Nothing
  BY <1>2, NoConflicts DEF Confirming
<1> QED
  BY <1>1, <1>2

\* Asking for comparisons, and their answers.
LEMMA AskingKeeps ==
  ASSUME SyncInv,
         \/ Sync!openSelector \/ Sync!handleModalClose
         \/ \E cs \in SUBSET Channels : Sync!confirmChannelSelection(cs)
         \/ \E i \in DOMAIN fetching : Sync!fetchFails(i) \/ \E cs \in SUBSET Channels : Sync!fetchRatiosFromChannels(i, cs)
  PROVE  SyncInv'
<1>1. /\ syncServer' = syncServer /\ syncOptions' = syncOptions /\ syncConfirm' = syncConfirm /\ syncSave' = syncSave
      /\ \/ resolutions' = resolutions /\ differences' = differences
         \/ resolutions' = Sync!Nothing
  BY DEF Sync!openSelector, Sync!handleModalClose, Sync!confirmChannelSelection, Sync!fetchFails,
     Sync!fetchRatiosFromChannels
<1>2. Resolved'
  <2>1. CASE resolutions' = resolutions /\ differences' = differences
    BY <2>1, PickResolved DEF SyncInv, Resolved
  <2> QED
    BY <1>1, <2>1, NothingOffered
<1>3. syncDialog' \in BOOLEAN /\ chosen' \in SUBSET Channels /\ covered' \in BOOLEAN
  BY DEF SyncInv, Shape, Sync!openSelector, Sync!handleModalClose, Sync!confirmChannelSelection,
     Sync!fetchFails,
         Sync!fetchRatiosFromChannels
<1>4. fetching' \in Seq(SUBSET Channels)
  <2>1. CASE fetching' = fetching
    BY <2>1 DEF SyncInv, Shape
  <2>2. ASSUME NEW cs \in SUBSET Channels, fetching' = Append(fetching, cs)
        PROVE  fetching' \in Seq(SUBSET Channels)
    BY <2>2 DEF SyncInv, Shape
  <2>3. ASSUME NEW i \in DOMAIN fetching, fetching' = Sync!RemoveAt(fetching, i)
        PROVE  fetching' \in Seq(SUBSET Channels)
    BY <2>3, FetchRemoved DEF SyncInv, Shape
  <2> QED
    BY Zenon, <2>1, <2>2, <2>3 DEF Sync!openSelector, Sync!handleModalClose,
       Sync!confirmChannelSelection, Sync!fetchFails,
         Sync!fetchRatiosFromChannels
<1>5. Shape'
  BY <1>1, <1>3, <1>4 DEF SyncInv, Shape
<1>6. Saving'
  BY <1>1, SavingStays DEF SyncInv
<1>7. Confirming'
  BY <1>1 , ConfirmingStays DEF SyncInv, Confirming
<1> QED
  BY <1>2, <1>5, <1>6, <1>7 DEF SyncInv

\* Choosing.
LEMMA ChoosingKeeps ==
  ASSUME SyncInv, Sync!Pick, Resolved'
  PROVE  SyncInv'
<1>1. /\ syncServer' = syncServer /\ syncOptions' = syncOptions /\ syncConfirm' = syncConfirm /\ syncSave' = syncSave
      /\ syncDialog' = syncDialog /\ chosen' = chosen /\ fetching' = fetching /\ covered' = covered
      /\ syncConfirm = None
  BY DEF Sync!Pick, Sync!ask, Sync!Rows, Sync!Uncovered
<1>2. Shape'
  BY <1>1 DEF SyncInv, Shape
<1>3. Saving'
  BY <1>1, SavingStays DEF SyncInv
<1>4. Confirming'
  BY <1>1 DEF Confirming
<1> QED
  BY <1>2, <1>3, <1>4 DEF SyncInv

LEMMA PerformKeeps ==
  ASSUME SyncInv, Sync!performSync, syncConfirm' = None
  PROVE  SyncInv'
<1>1. /\ syncServer' = syncServer /\ syncOptions' = syncOptions /\ differences' = differences
      /\ resolutions' = resolutions
      /\ syncDialog' = syncDialog /\ chosen' = chosen /\ fetching' = fetching /\ covered' = covered
      /\ syncSave' = [phase |-> "saving", puts |-> Sync!Types, failed |-> FALSE,
                  value |-> Sync!finalRatios(syncOptions, resolutions), of |-> resolutions]
  BY DEF Sync!performSync, Sync!ask
<1>2. /\ syncSave'.phase = "saving" /\ syncSave'.puts = Sync!Types /\ syncSave'.failed = FALSE
      /\ syncSave'.value = Sync!finalRatios(syncOptions, resolutions) /\ syncSave'.of = resolutions
      /\ syncSave' = [phase |-> syncSave'.phase, puts |-> syncSave'.puts, value |-> syncSave'.value, of |-> syncSave'.of,
                  failed |-> syncSave'.failed]
  BY <1>1
<1>3. Resolved'
  BY <1>1, PickResolved DEF SyncInv, Resolved
<1>4. Shape'
  BY <1>1, <1>2 DEF SyncInv, Shape
<1>5. Saving'
  <2>1. \A m \in Models : Unmixed(resolutions[m])
    BY DEF SyncInv, Resolved, Offered
  <2>2. syncSave'.value = Sync!finalRatios(syncOptions', syncSave'.of)
    BY <1>1, <1>2
  <2> QED
    BY <1>2, <2>1, <2>2 DEF Saving, Unmixed, Sync!Picked, Sync!finalRatios
<1> QED
  BY <1>3, <1>4, <1>5 DEF SyncInv, Confirming

LEMMA ApplyKeeps ==
  ASSUME SyncInv, Sync!applySync \/ Sync!confirmConflicts \/ Sync!cancelConflicts
  PROVE  SyncInv'
<1>1. CASE Sync!performSync /\ syncConfirm' = None
  BY <1>1, PerformKeeps
<1>2. CASE /\ UNCHANGED <<Sync!ask, syncServer, syncOptions, differences, resolutions, syncSave, picks>>
           /\ syncConfirm' = None \/ (syncConfirm' = Sync!Conflicts /\ syncSave.phase = "idle")
  <2>1. /\ syncServer' = syncServer /\ syncOptions' = syncOptions /\ differences' = differences
        /\ resolutions' = resolutions /\ syncSave' = syncSave
        /\ syncDialog' = syncDialog /\ chosen' = chosen /\ fetching' = fetching /\ covered' = covered
    BY <1>2 DEF Sync!ask
  <2>2. Resolved'
    BY <2>1, PickResolved DEF SyncInv, Resolved
  <2>3. Shape'
    BY <2>1 DEF SyncInv, Shape
  <2>4. Saving'
    BY <2>1, SavingStays DEF SyncInv
  <2>5. Sync!Conflicts' = Sync!Conflicts /\ Sync!Conflicts \in SUBSET Models
    BY <2>1 DEF Sync!Conflicts, Sync!Chosen, Sync!Picked, Sync!NewCategory, Sync!getLocalBillingCategory
  <2>6. Confirming'
    BY <1>2, <2>1, <2>5 DEF Confirming
  <2> QED
    BY <2>2, <2>3, <2>4, <2>6 DEF SyncInv
<1> QED
  BY Zenon, <1>1, <1>2 DEF Sync!applySync, Sync!confirmConflicts, Sync!cancelConflicts, Sync!Uncovered

\* One option is put.
LEMMA PutKeeps ==
  ASSUME SyncInv, NEW t \in Sync!Types, NEW ok \in BOOLEAN, Sync!UpdateOption(t, ok)
  PROVE  SyncInv'
<1>1. /\ syncOptions' = syncOptions /\ differences' = differences /\ resolutions' = resolutions
      /\ syncConfirm' = syncConfirm /\ syncDialog' = syncDialog /\ chosen' = chosen /\ fetching' = fetching
      /\ covered' = covered /\ syncSave.phase = "saving" /\ t \in syncSave.puts
      /\ syncServer' = IF ok THEN [syncServer EXCEPT ![t] = syncSave.value[t]] ELSE syncServer
  BY DEF Sync!UpdateOption, Sync!ask
<1>2. PICK f \in BOOLEAN : /\ syncSave' = [syncSave EXCEPT !.puts = syncSave.puts \ {t}, !.failed = f]
                           /\ ~f => ~syncSave.failed /\ ok
  <2>1. syncSave' = [syncSave EXCEPT !.puts = syncSave.puts \ {t}, !.failed = syncSave.failed \/ ~ok]
    BY Zenon DEF Sync!UpdateOption
  <2> QED
    BY Zenon, <2>1
<1>3. /\ syncSave'.phase = syncSave.phase /\ syncSave'.puts = syncSave.puts \ {t} /\ syncSave'.value = syncSave.value
      /\ syncSave'.of = syncSave.of /\ syncSave'.failed = f
      /\ syncSave' = [phase |-> syncSave'.phase, puts |-> syncSave'.puts, value |-> syncSave'.value, of |-> syncSave'.of,
                  failed |-> syncSave'.failed]
  BY <1>2 DEF SyncInv, Shape
<1>4. /\ syncServer' = [u \in Sync!Types |-> syncServer'[u]]
      /\ ok => syncServer'[t] = syncSave.value[t]
      /\ \A u \in Sync!Types : u # t => syncServer'[u] = syncServer[u]
  BY <1>1 DEF SyncInv, Shape
<1>5. Resolved'
  BY <1>1, PickResolved DEF SyncInv, Resolved
<1>6. Shape'
  BY <1>1, <1>3, <1>4 DEF SyncInv, Shape
<1>7. Saving'
  <2>1. syncSave'.value = Sync!finalRatios(syncOptions', syncSave'.of) /\ \A m \in Models : Unmixed(syncSave'.of[m])
    BY <1>1, <1>3 DEF SyncInv, Saving
  <2>2. ~syncSave'.failed => \A u \in Sync!Types \ syncSave'.puts : syncServer'[u] = syncSave'.value[u]
    BY <1>1, <1>2, <1>3, <1>4 DEF SyncInv, Saving
  <2> QED
    BY <1>1, <1>3, <2>1, <2>2 DEF Saving, Unmixed, Sync!Picked, Sync!finalRatios
<1>8. Confirming'
  BY <1>1, <1>3, ConfirmingStays DEF SyncInv
<1> QED
  BY <1>5, <1>6, <1>7, <1>8 DEF SyncInv

\* The save ends, and the options are read again.
LEMMA EndKeeps ==
  ASSUME SyncAssumption, SyncInv, Sync!Synced \/ \E ok \in BOOLEAN : Sync!refresh(ok)
  PROVE  SyncInv'
<1>1. /\ syncServer' = syncServer /\ syncConfirm' = syncConfirm /\ syncDialog' = syncDialog /\ chosen' = chosen
      /\ fetching' = fetching /\ covered' = covered /\ syncSave.phase # "idle"
  BY DEF Sync!Synced, Sync!refresh, Sync!ask
<1>2. syncConfirm = None
  BY <1>1 DEF SyncInv, Confirming
<1>3. syncOptions' = [t \in Sync!Types |-> syncOptions'[t]]
  <2>1. syncOptions' = syncOptions \/ syncOptions' = syncServer
    BY DEF Sync!Synced, Sync!refresh
  <2> QED
    BY <2>1 DEF SyncInv, Shape
<1>4. CASE syncSave' = Sync!Idle /\ differences' = differences /\ resolutions' = resolutions
  <2>1. Resolved'
    BY <1>4, PickResolved DEF SyncInv, Resolved
  <2>2. /\ syncSave'.phase = "idle" /\ syncSave'.puts = {} /\ syncSave'.failed = FALSE
        /\ syncSave' = [phase |-> syncSave'.phase, puts |-> syncSave'.puts, value |-> syncSave'.value, of |-> syncSave'.of,
                    failed |-> syncSave'.failed]
    BY <1>4 DEF Sync!Idle
  <2>3. Shape'
    BY <1>1, <1>3, <2>2 DEF SyncInv, Shape
  <2> QED
    BY <1>1, <1>2, <2>1, <2>2, <2>3 DEF SyncInv, Saving, Confirming
<1>5. CASE /\ syncSave' = [syncSave EXCEPT !.phase = "refreshing"] /\ syncSave.puts = {} /\ ~syncSave.failed
           /\ resolutions' = Sync!Nothing /\ syncOptions' = syncOptions
  <2>1. Resolved'
    BY <1>5, NothingOffered
  <2>2. /\ syncSave'.phase = "refreshing" /\ syncSave'.puts = {} /\ syncSave'.failed = syncSave.failed
        /\ syncSave'.value = syncSave.value /\ syncSave'.of = syncSave.of
        /\ syncSave' = [phase |-> syncSave'.phase, puts |-> syncSave'.puts, value |-> syncSave'.value, of |-> syncSave'.of,
                    failed |-> syncSave'.failed]
    BY <1>5 DEF SyncInv, Shape
  <2>3. Shape'
    BY <1>1, <1>3, <2>2 DEF SyncInv, Shape
  <2>4. Saving'
    BY <1>1, <1>5, <2>2 DEF SyncInv, Saving, Unmixed, Sync!Picked, Sync!finalRatios
  <2> QED
    BY <1>1, <1>2, <2>1, <2>3, <2>4 DEF SyncInv, Confirming
<1> QED
  BY Zenon, <1>4, <1>5 DEF Sync!Synced, Sync!refresh

LEMMA SyncStep ==
  ASSUME SyncAssumption, SyncInv, [Sync!Next]_Sync!vars
  PROVE  SyncInv'
<1>1. CASE UNCHANGED Sync!vars
  <2>1. /\ syncServer' = syncServer /\ syncOptions' = syncOptions /\ differences' = differences
        /\ resolutions' = resolutions /\ syncSave' = syncSave /\ syncConfirm' = syncConfirm
        /\ syncDialog' = syncDialog /\ chosen' = chosen /\ fetching' = fetching /\ covered' = covered
    BY <1>1 DEF Sync!vars, Sync!ask
  <2>2. Resolved'
    BY <2>1, PickResolved DEF SyncInv, Resolved
  <2>3. Shape'
    BY <2>1 DEF SyncInv, Shape
  <2>4. Saving' /\ Confirming'
    BY <2>1, SavingStays, ConfirmingStays DEF SyncInv
  <2> QED
    BY <2>2, <2>3, <2>4 DEF SyncInv
<1>2. ASSUME NEW m \in Models, NEW t \in Sync!Types, NEW c \in Channels, Sync!checkCell(m, t, c)
      PROVE  SyncInv'
  BY <1>2, CheckResolved, ChoosingKeeps DEF Sync!checkCell, SyncInv
<1>3. ASSUME NEW c \in Channels, NEW on \in BOOLEAN, NEW ms \in SUBSET Models, NEW ts \in SUBSET Sync!Types,
             Sync!handleBulkSelect(ms, ts, c, on)
      PROVE  SyncInv'
  BY <1>3, BulkResolved, ChoosingKeeps DEF Sync!handleBulkSelect, SyncInv
<1>4. CASE \E m \in Models, t \in Sync!Types, c \in Channels, on \in BOOLEAN :
             \E ms \in {Models, {m}}, ts \in {Sync!Types, {t}} : Sync!handleBulkSelect(ms, ts, c, on)
  <2>1. PICK m \in Models, t \in Sync!Types, c \in Channels, on \in BOOLEAN :
          \E ms \in {Models, {m}}, ts \in {Sync!Types, {t}} : Sync!handleBulkSelect(ms, ts, c, on)
    BY Zenon, <1>4
  <2>2. PICK ms \in {Models, {m}}, ts \in {Sync!Types, {t}} : Sync!handleBulkSelect(ms, ts, c, on)
    BY Zenon, <2>1
  <2> QED
    BY <1>3, <2>2
<1>5. CASE \/ Sync!openSelector \/ Sync!handleModalClose
           \/ \E cs \in SUBSET Channels : Sync!confirmChannelSelection(cs)
           \/ \E i \in DOMAIN fetching :
                \/ \E cs \in SUBSET Channels : Sync!fetchRatiosFromChannels(i, cs)
                \/ Sync!fetchFails(i)
  BY Zenon, <1>5, AskingKeeps
<1>6. CASE \E t \in Sync!Types, ok \in BOOLEAN : Sync!UpdateOption(t, ok)
  BY Zenon, <1>6, PutKeeps
<1>7. CASE Sync!Synced \/ \E ok \in BOOLEAN : Sync!refresh(ok)
  BY Zenon, <1>7, EndKeeps
<1>8. CASE \E m \in Models, t \in Sync!Types, c \in Channels : Sync!checkCell(m, t, c)
  BY Zenon, <1>2, <1>8
<1>9. CASE Sync!applySync \/ Sync!confirmConflicts \/ Sync!cancelConflicts
  BY Zenon, <1>9, ApplyKeeps
<1> QED
  BY Zenon, <1>1, <1>4, <1>5, <1>6, <1>7, <1>8, <1>9 DEF Sync!Next

LEMMA SyncInvariance ==
  ASSUME SyncAssumption
  PROVE  Sync!Spec => []SyncInv
<1>1. Sync!Init => SyncInv
  BY SyncInitially
<1>2. SyncInv /\ [Sync!Next]_Sync!vars => SyncInv'
  BY SyncStep
<1> QED
  BY <1>1, <1>2, PTL DEF Sync!Spec

-----------------------------------------------------------------------------
(* What a save makes of the options.                                       *)

\* s bills model m as the choices r make of the options o: a model that is not chosen as before, one
\* that is chosen in the way its choices are of.
Billed(s, o, r, m) ==
  /\ Sync!Picked(r[m]) = {} => \A t \in Sync!Types : s[t][m] = o[t][m]
  /\ Sync!Picked(r[m]) # {} =>
       /\ Sync!getLocalBillingCategory(s, m) = IF r[m]["model_price"] # None THEN "price" ELSE "ratio"
       /\ \A t \in Sync!Types :
            /\ r[m][t] # None => s[t][m] = r[m][t]
            /\ r[m][t] = None => s[t][m] \in {o[t][m], None}
            /\ s[t][m] # None => Sync!getLocalBillingCategory(s, m) = Sync!getBillingCategory(t)

LEMMA FinalBilling ==
  ASSUME NEW o, NEW r, NEW m \in Models, Unmixed(r[m]), NEW s,
         \A t \in Sync!Types : s[t][m] = Sync!finalRatios(o, r)[t][m]
  PROVE  Billed(s, o, r, m)
<1>1. \A t \in Sync!Types :
        s[t][m] = IF r[m][t] # None THEN r[m][t]
                  ELSE IF \/ r[m]["model_price"] # None /\ Sync!getBillingCategory(t) = "ratio"
                          \/ Sync!Picked(r[m]) \ {"model_price"} # {} /\ t = "model_price"
                       THEN None ELSE o[t][m]
  BY DEF Sync!finalRatios
<1>2. \A t \in Sync!Picked(r[m]) : t \in Sync!Types /\ r[m][t] # None
  BY DEF Sync!Picked
<1>3. \A t \in Sync!Types : r[m][t] # None => t \in Sync!Picked(r[m])
  BY DEF Sync!Picked
<1>4. "model_price" \in Sync!Types /\ \A t \in Sync!Types : Sync!getBillingCategory(t) = IF t = "model_price" THEN "price" ELSE "ratio"
  BY TheTypes DEF Sync!getBillingCategory
<1>5. CASE Sync!Picked(r[m]) = {}
  <2>1. \A t \in Sync!Types : r[m][t] = None
    BY <1>3, <1>5
  <2> QED
    BY <1>1, <1>4, <1>5, <2>1 DEF Billed
<1>6. CASE r[m]["model_price"] # None
  <2>1. s["model_price"][m] # None /\ Sync!getLocalBillingCategory(s, m) = "price"
    BY <1>1, <1>4, <1>6 DEF Sync!getLocalBillingCategory
  <2>2. \A t \in Sync!Types : t # "model_price" => r[m][t] = None
    BY <1>3, <1>4, <1>6 DEF Unmixed
  <2>3. \A t \in Sync!Types : t # "model_price" => s[t][m] = None
    BY <1>1, <1>4, <1>6, <2>2
  <2>4. Sync!Picked(r[m]) # {}
    BY <1>3, <1>4, <1>6
  <2> QED
    BY <1>1, <1>4, <1>6, <2>1, <2>2, <2>3, <2>4 DEF Billed
<1>7. CASE r[m]["model_price"] = None /\ Sync!Picked(r[m]) # {}
  <2>1. PICK u \in Sync!Picked(r[m]) : u # "model_price"
    BY <1>2, <1>7
  <2>2. s["model_price"][m] = None
    BY <1>1, <1>4, <1>7, <2>1
  <2>3. s[u][m] # None /\ u \in Sync!Types
    BY <1>1, <1>2, <2>1
  <2>4. Sync!getLocalBillingCategory(s, m) = "ratio"
    BY <2>2, <2>3 DEF Sync!getLocalBillingCategory
  <2>5. \A t \in Sync!Types : s[t][m] # None => Sync!getBillingCategory(t) = "ratio"
    BY <1>4, <2>2
  <2> QED
    BY <1>1, <1>7, <2>4, <2>5 DEF Billed
<1> QED
  BY <1>5, <1>6, <1>7

-----------------------------------------------------------------------------
(* The theorems.                                                           *)

\* Type correctness: options, comparisons and the save keep their types.
THEOREM SyncTypes ==
  ASSUME SyncAssumption
  PROVE  Sync!Spec => []Sync!TypeOK
<1>1. SyncInv => Sync!TypeOK
  BY DEF SyncInv, Shape, Confirming, Sync!TypeOK
<1> QED
  BY <1>1, SyncInvariance, PTL

\* Whatever cells and columns are checked and withdrawn and in whatever order comparisons answer,
\* what would be applied is offered in the table, and is of one way of billing per model.
THEOREM SyncChoicesAreOffered ==
  ASSUME SyncAssumption
  PROVE  Sync!Spec => []Sync!ChoicesAreOffered
<1>1. SyncInv => Sync!ChoicesAreOffered
  BY DEF SyncInv, Resolved, Offered, Unmixed, Sync!ChoicesAreOffered
<1> QED
  BY <1>1, SyncInvariance, PTL

\* A synchronisation that is announced has stored the chosen values, each chosen model billed in one
\* way, and left the other models as the page read them, whatever was put in which order before.
THEOREM AnnouncedSyncIsApplied ==
  ASSUME SyncAssumption
  PROVE  Sync!Spec => []Sync!AnnouncedIsApplied
<1>1. ASSUME SyncInv, syncSave.phase = "refreshing", NEW m \in Models, NEW t \in Sync!Types
      PROVE  IF Sync!Picked(syncSave.of[m]) = {} THEN syncServer[t][m] = syncOptions[t][m]
             ELSE /\ IF syncSave.of[m][t] # None THEN syncServer[t][m] = syncSave.of[m][t]
                     ELSE syncServer[t][m] \in {syncOptions[t][m], None}
                  /\ syncServer[t][m] # None => Sync!getLocalBillingCategory(syncServer, m) = Sync!getBillingCategory(t)
  <2>1. /\ syncSave.value = Sync!finalRatios(syncOptions, syncSave.of) /\ Unmixed(syncSave.of[m])
        /\ \A u \in Sync!Types : syncServer[u] = syncSave.value[u]
    BY <1>1 DEF SyncInv, Saving
  <2>2. \A u \in Sync!Types : syncServer[u][m] = Sync!finalRatios(syncOptions, syncSave.of)[u][m]
    BY <2>1
  <2>3. Billed(syncServer, syncOptions, syncSave.of, m)
    BY <2>1, <2>2, FinalBilling
  <2> QED
    BY <2>3 DEF Billed
<1>2. SyncInv => Sync!AnnouncedIsApplied
  BY <1>1 DEF Sync!AnnouncedIsApplied
<1> QED
  BY <1>2, SyncInvariance, PTL

\* No save changes the way a model is billed unless the confirmation named this model, where the
\* page knows the server's options: also when a comparison has changed the table under the dialog.
THEOREM BillingChangesAreConfirmed ==
  ASSUME SyncAssumption
  PROVE  Sync!Spec => [][Sync!ChangeOfBillingIsConfirmed]_Sync!vars
<1>1. ASSUME SyncInv, Sync!Next, syncSave.phase = "idle", syncSave'.phase = "saving", syncOptions = syncServer, NEW m \in Models
      PROVE  \/ Sync!getLocalBillingCategory(syncServer, m) \in {None, Sync!getLocalBillingCategory(syncSave'.value, m)}
             \/ syncConfirm # None /\ m \in syncConfirm
  <2>1. Sync!performSync /\ (Sync!Conflicts = {} \/ syncConfirm # None)
    <3>1. CASE Sync!applySync \/ Sync!confirmConflicts \/ Sync!cancelConflicts
      <4>1. syncSave' = syncSave \/ (Sync!performSync /\ (Sync!Conflicts = {} \/ syncConfirm # None))
        BY Zenon, <3>1 DEF Sync!applySync, Sync!confirmConflicts, Sync!cancelConflicts
      <4> QED
        BY <1>1, <4>1
    <3>2. CASE \/ Sync!openSelector \/ Sync!handleModalClose
               \/ \E cs \in SUBSET Channels : Sync!confirmChannelSelection(cs)
               \/ \E i \in DOMAIN fetching :
                    \/ \E cs \in SUBSET Channels : Sync!fetchRatiosFromChannels(i, cs)
                    \/ Sync!fetchFails(i)
      <4>1. syncSave' = syncSave
        BY Zenon, <3>2 DEF Sync!openSelector, Sync!handleModalClose, Sync!confirmChannelSelection,
           Sync!fetchRatiosFromChannels, Sync!fetchFails
      <4> QED
        BY <1>1, <4>1
    <3>3. CASE \/ \E n \in Models, t \in Sync!Types, c \in Channels : Sync!checkCell(n, t, c)
               \/ \E n \in Models, t \in Sync!Types, c \in Channels, on \in BOOLEAN :
                    \E ms \in {Models, {n}}, ts \in {Sync!Types, {t}} : Sync!handleBulkSelect(ms, ts, c, on)
      <4>1. syncSave' = syncSave
        BY Zenon, <3>3 DEF Sync!checkCell, Sync!handleBulkSelect, Sync!Pick
      <4> QED
        BY <1>1, <4>1
    <3>4. CASE (\E t \in Sync!Types, ok \in BOOLEAN : Sync!UpdateOption(t, ok)) \/ Sync!Synced \/ \E ok \in BOOLEAN : Sync!refresh(ok)
      BY <1>1, <3>4 DEF Sync!UpdateOption, Sync!Synced, Sync!refresh
    <3> QED
      BY Zenon, <1>1, <3>1, <3>2, <3>3, <3>4 DEF Sync!Next
  <2>2. syncSave'.value = Sync!finalRatios(syncOptions, resolutions)
    BY <2>1 DEF Sync!performSync
  <2>3. Unmixed(resolutions[m])
    BY <1>1 DEF SyncInv, Resolved, Offered
  <2>4. CASE m \in Sync!Conflicts
    BY <1>1, <2>1, <2>4 DEF SyncInv, Confirming
  <2>5. CASE m \notin Sync!Conflicts /\ m \in Sync!Chosen
    <3>1. Sync!getLocalBillingCategory(syncOptions, m) \in {None, Sync!NewCategory(m)}
      BY <2>5 DEF Sync!Conflicts
    <3>2. Sync!getLocalBillingCategory(syncSave'.value, m) = Sync!NewCategory(m)
      <4>1. \A t \in Sync!Types : syncSave'.value[t][m] = Sync!finalRatios(syncOptions, resolutions)[t][m]
        BY <2>2
      <4>2. Sync!Picked(resolutions[m]) # {}
        BY <2>5 DEF Sync!Chosen
      <4> QED
        BY <2>3, <4>1, <4>2, FinalBilling DEF Billed, Sync!NewCategory
    <3> QED
      BY <1>1, <3>1, <3>2
  <2>6. CASE m \notin Sync!Chosen
    <3>1. \A t \in Sync!Types : syncSave'.value[t][m] = syncOptions[t][m]
      BY <2>2, <2>3, <2>6, FinalBilling DEF Billed, Sync!Chosen
    <3>2. Sync!getLocalBillingCategory(syncSave'.value, m) = Sync!getLocalBillingCategory(syncOptions, m)
      BY <3>1, TheTypes DEF Sync!getLocalBillingCategory
    <3> QED
      BY <1>1, <3>2
  <2> QED
    BY <2>4, <2>5, <2>6
<1>2. SyncInv /\ [Sync!Next]_Sync!vars => [Sync!ChangeOfBillingIsConfirmed]_Sync!vars
  BY <1>1 DEF Sync!ChangeOfBillingIsConfirmed
<1> QED
  BY <1>2, SyncInvariance, PTL DEF Sync!Spec

=============================================================================
