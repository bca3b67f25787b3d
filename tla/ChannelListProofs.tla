-------------------------- MODULE ChannelListProofs --------------------------
(***************************************************************************)
(* Proofs about the channel table: numbered loads, unnumbered searches,    *)
(* shared GETs and operations that refresh from an older render.  Each     *)
(* property of the table at rest is the end of a claim about the calls     *)
(* still awaiting an answer: which of them will be applied, what they      *)
(* asked for, and which of them will stop the spinner.  The model tests    *)
(* and the other paged tables follow, each through an instance.            *)
(***************************************************************************)
EXTENDS ChannelList, Sequences, TLAPS, FiniteSetTheorems

Lists == [q : Views, at : Nat]
Gets == [q : Views, at : Nat \cup {Unread}]
Waits == [q : Views, req : Nat, wrap : BOOLEAN, srch : BOOLEAN, kind : Kinds \cup {"none"}]
Ops == [id : Nat, kind : Kinds, view : Views, list : Lists, at : {"sent", "done", "refreshing"}]

\* What the constants are in the code: at least one page, at least one choice, and a mark
\* that is no version.
Sensible ==
  /\ Pages \in Nat \ {0} /\ MaxAsks \in Nat \ {0} /\ MaxOps \in Nat
  /\ Sels # {} /\ Unread \notin Nat

ListType ==
  /\ view \in Views /\ shown \in Lists
  /\ gets \subseteq Gets /\ waits \subseteq Waits /\ ops \subseteq Ops
  /\ counter \in Nat /\ db \in Nat /\ asks \in Nat /\ done \in Nat /\ need \in Nat

Numbers ==
  /\ 1 <= counter /\ counter <= asks /\ asks <= MaxAsks /\ need <= db
  /\ \A w \in waits : w.req <= counter
  /\ \A g \in gets : g.at # Unread => g.at <= db

\* Every call awaits a GET that is in flight.
Awaited == \A w \in waits : \E g \in gets : g.q = w.q

\* A spinner has a call or a batch operation that will stop it.
Spinning ==
  /\ searching => \E w \in waits : w.srch
  /\ (loading /\ ~stuck) => \/ \E w \in waits : EndsLoading(w)
                            \/ \E o \in ops : o.kind = "batch" /\ o.at \in {"sent", "done"}

\* The calls whose answer will be applied ask for what the settings say; with none left the
\* list is already the one the settings say.
AskedFor ==
  ~spoiled => /\ \A w \in waits : Applies(w) => Same(w.q, view)
              /\ (\A w \in waits : ~Applies(w)) => Same(shown.q, view)

\* They have not been read by the server before the last refreshing operation was done.
Fresh ==
  (~spoiled /\ ~shared) =>
    /\ \A w \in waits, g \in gets : (Applies(w) /\ g.q = w.q /\ g.at # Unread) => g.at >= need
    /\ (\A w \in waits : ~Applies(w)) => shown.at >= need

ListInv == ListType /\ Numbers /\ Awaited /\ Spinning /\ AskedFor /\ Fresh

-----------------------------------------------------------------------------
LEMMA FirstPages ==
  ASSUME Sensible
  PROVE  0 \in 0..Pages /\ 1 \in 0..Pages /\ 1..Pages \subseteq 0..Pages
  BY DEF Sensible

LEMMA ListInitially ==
  ASSUME Sensible, Init
  PROVE  ListInv
<1>1. Start \in Views /\ [Start EXCEPT !.page = 0] \in Views
  <2>1. (CHOOSE s \in Sels : TRUE) \in Sels
    BY DEF Sensible
  <2>2. Start \in Views
    BY FirstPages, <2>1 DEF Start, Views
  <2> QED
    BY FirstPages, <2>2 DEF Views
<1>2. ListType
  BY <1>1 DEF Sensible, Init, ListType, Lists, Gets, Waits
<1>3. Numbers
  BY <1>1, <1>2 DEF Sensible, Init, Numbers
<1>4. Awaited /\ Spinning
  BY DEF Init, Awaited, Spinning, EndsLoading
<1>5. AskedFor /\ Fresh
  BY <1>1 DEF Init, AskedFor, Fresh, Applies, Same
<1> QED
  BY <1>2, <1>3, <1>4, <1>5 DEF ListInv

\* A request for the list, of the user or of an operation.  It is the only call that will
\* be applied, unless a search overlaps; a GET it does not share reads what comes later.
LEMMA Asking ==
  ASSUME Sensible, ListInv, NEW q \in Views, NEW viaSearch \in BOOLEAN,
         NEW kind \in Kinds \cup {"none"},
         Ask(q, viaSearch, kind), spoiled' = Spoils(q, view'),
         view' \in Views, shown' \in Lists, ops' \subseteq Ops, done' \in Nat,
         UNCHANGED <<db, stuck>>, need' \in {need, db},
         \A o \in ops : (o.kind = "batch" /\ o.at \in {"sent", "done"}) => o \in ops' \/ kind = "batch"
  PROVE  ListInv'
<1> USE DEF ListInv
<1> DEFINE new == [q |-> q, at |-> Unread]
<1>1. /\ asks < MaxAsks /\ asks' = asks + 1
      /\ counter' = IF q.kw THEN counter ELSE counter + 1
      /\ loading' = (loading \/ ~q.kw \/ ~viaSearch)
      /\ searching' = (searching \/ q.kw \/ viaSearch)
      /\ shared' = (\E g \in gets : g.q = q)
  BY DEF Ask
<1>2. gets' = IF \E g \in gets : g.q = q THEN gets ELSE gets \cup {new}
  BY DEF Ask, get
<1>3. new \in Gets /\ new.q = q /\ new.at = Unread
  BY DEF Gets
<1> HIDE DEF new
<1>4. PICK call \in Waits :
        /\ waits' = waits \cup {call}
        /\ call.q = q /\ call.kind = kind
        /\ (q.kw => call.req = 0) /\ (~q.kw => call.req = counter + 1)
        /\ (call.wrap <=> q.kw /\ ~viaSearch) /\ (call.srch <=> q.kw \/ viaSearch)
  <2> DEFINE c == [q |-> q, req |-> IF q.kw THEN 0 ELSE counter + 1,
                   wrap |-> q.kw /\ ~viaSearch, srch |-> q.kw \/ viaSearch, kind |-> kind]
  <2>1. c \in Waits
    BY DEF Waits, Views, ListType
  <2>2. waits' = waits \cup {c}
    BY DEF Ask
  <2> QED
    BY <2>1, <2>2 DEF Views
<1>5. ListType'
  BY <1>1, <1>2, <1>3, <1>4 DEF ListType
<1>6. Numbers'
  <2>1. 1 <= counter' /\ counter' <= asks' /\ asks' <= MaxAsks /\ need' <= db' /\ counter' >= counter
    BY <1>1 DEF Numbers, ListType, Sensible
  <2>2. call.req <= counter'
    BY <1>1, <1>4, <2>1 DEF ListType
  <2>3. \A x \in waits : x.req <= counter'
    BY <1>5, <2>1 DEF Numbers, ListType, Waits
  <2>4. \A g \in gets' : g.at # Unread => g.at <= db'
    BY <1>2, <1>3 DEF Numbers
  <2> QED
    BY <1>1, <1>4, <2>1, <2>2, <2>3, <2>4 DEF Numbers
<1>7. Awaited'
  <2>1. \E g \in gets' : g.q = q
    BY <1>2, <1>3
  <2>2. gets \subseteq gets'
    BY <1>2
  <2> QED
    BY <1>4, <2>1, <2>2 DEF Awaited
<1>8. Spinning'
  <2>1. searching' => \E x \in waits' : x.srch
    BY <1>1, <1>4 DEF Spinning
  <2>2. ASSUME loading', ~stuck'
        PROVE  \/ \E x \in waits' : EndsLoading(x)'
               \/ \E o \in ops' : o.kind = "batch" /\ o.at \in {"sent", "done"}
    <3>1. CASE ~q.kw
      BY <1>1, <1>4, <3>1 DEF EndsLoading, ListType
    <3>2. CASE q.kw /\ ~viaSearch
      BY <1>1, <1>4, <3>2 DEF EndsLoading
    <3>3. CASE q.kw /\ viaSearch
      <4>1. loading /\ ~stuck /\ counter' = counter
        BY <1>1, <2>2, <3>3
      <4>2. CASE \E x \in waits : EndsLoading(x)
        BY <1>1, <1>4, <4>1, <4>2 DEF EndsLoading
      <4>3. CASE \E o \in ops : o.kind = "batch" /\ o.at \in {"sent", "done"}
        BY <1>1, <1>4, <4>3 DEF EndsLoading
      <4> QED
        BY <4>1, <4>2, <4>3 DEF Spinning
    <3> QED
      BY <3>1, <3>2, <3>3
  <2> QED
    BY <2>1, <2>2 DEF Spinning
<1>9. ASSUME ~spoiled'
      PROVE  Same(q, view') /\ Applies(call)' /\ \A x \in waits' : Applies(x)' => x = call
  <2>1. Same(q, view') /\ (q.kw => waits = {}) /\ (~q.kw => Searches = {})
    BY <1>9 DEF Spoils
  <2>2. Applies(call)'
    BY <1>1, <1>4 DEF Applies
  <2>3. ASSUME NEW x \in waits
        PROVE  ~Applies(x)'
    <3>1. ~q.kw /\ x.req # 0 /\ counter' = counter + 1
      BY <1>1, <2>1 DEF Searches
    <3>2. x.req <= counter /\ x.req \in Nat
      BY DEF Numbers, ListType, Waits
    <3> QED
      BY <3>1, <3>2 DEF Applies, ListType
  <2> QED
    BY <1>4, <2>1, <2>2, <2>3
<1>10. AskedFor'
  BY <1>4, <1>9 DEF AskedFor
<1>11. Fresh'
  <2> SUFFICES ASSUME ~spoiled', ~shared'
               PROVE  \A x \in waits', g \in gets' : (Applies(x)' /\ g.q = x.q /\ g.at # Unread) => g.at >= need'
    BY <1>4, <1>9 DEF Fresh
  <2>1. ~\E g \in gets : g.q = q
    BY <1>1
  <2>2. gets' = gets \cup {new}
    BY <1>2, <2>1
  <2> QED
    BY <1>3, <1>4, <1>9, <2>1, <2>2
<1> QED
  BY <1>5, <1>6, <1>7, <1>8, <1>10, <1>11

\* A step that leaves the calls, the list and the settings other than the keyword alone:
\* TypeKeyword, the start of an operation, its commit, its failure, a server's read.
LEMMA Resting ==
  ASSUME Sensible, ListInv,
         view' \in Views, RowPage(view') = RowPage(view), view'.sel = view.sel, view'.tag = view.tag,
         gets' \subseteq Gets, ops' \subseteq Ops, done' \in Nat, db' \in Nat, db' >= db,
         UNCHANGED <<waits, counter, searching, shown, asks, need, shared>>,
         spoiled => spoiled',
         \A g \in gets : \E h \in gets' : h.q = g.q,
         \A h \in gets' : h \in gets \/ h.at = db,
         loading' => loading \/ \E o \in ops' : o.kind = "batch" /\ o.at \in {"sent", "done"},
         stuck => stuck',
         \A o \in ops : (o.kind = "batch" /\ o.at \in {"sent", "done"}) =>
            \/ \E r \in ops' : r.kind = "batch" /\ r.at \in {"sent", "done"}
            \/ ~loading' \/ stuck'
  PROVE  ListInv'
<1> USE DEF ListInv
<1>1. ListType'
  BY DEF ListType
<1>2. Numbers'
  BY DEF Numbers, ListType, Gets, Sensible
<1>3. Awaited'
  BY DEF Awaited
<1>4. Spinning'
  BY DEF Spinning, EndsLoading
<1>5. AskedFor'
  BY DEF AskedFor, Applies, Same
<1>6. Fresh'
  BY DEF Fresh, Applies, Numbers, ListType
<1> QED
  BY <1>1, <1>2, <1>3, <1>4, <1>5, <1>6

\* What the user does, in a request for the settings of the new render or for page 1.
LEMMA UserPreserves ==
  ASSUME Sensible, ListInv, NEW v \in Views, NEW q \in Views, NEW viaSearch \in BOOLEAN,
         UserAsks(v, q, viaSearch)
  PROVE  ListInv'
  BY Asking DEF UserAsks, ListInv, ListType

LEMMA ViewPreserves ==
  ASSUME Sensible, ListInv,
         \/ \E p \in 1..Pages : handlePageChange(p)
         \/ \E s \in Sels : handlePageSizeChange(s) \/ SwitchIdSort(s) \/ SelectFilter(s)
         \/ SwitchTagMode \/ Submit \/ RefreshButton
  PROVE  ListInv'
<1>1. view \in Views /\ view.kw \in BOOLEAN /\ view.tag \in BOOLEAN
  BY DEF ListInv, ListType, Views
<1>3. /\ [view EXCEPT !.page = 1, !.tag = ~@] \in Views /\ [view EXCEPT !.page = 0] \in Views
  BY FirstPages, <1>1 DEF Views
<1>4. ASSUME NEW k \in BOOLEAN
      PROVE  [view EXCEPT !.page = 1, !.kw = k] \in Views /\ [view EXCEPT !.kw = k] \in Views
  BY FirstPages, <1>1 DEF Views
<1>5. CASE \E p \in 1..Pages : handlePageChange(p)
  <2>1. PICK p \in 1..Pages : handlePageChange(p)
    BY <1>5
  <2> DEFINE v == [view EXCEPT !.page = p]
  <2>2. v \in Views /\ v.kw \in BOOLEAN
    BY FirstPages, <1>1, <2>1 DEF Views
  <2>3. UserAsks(v, v, v.kw)
    BY <2>1 DEF handlePageChange
  <2> HIDE DEF v
  <2> QED
    BY <2>2, <2>3, UserPreserves
<1>6. CASE \E s \in Sels : handlePageSizeChange(s)
  <2>1. PICK s \in Sels : handlePageSizeChange(s)
    BY <1>6
  <2> DEFINE v == [view EXCEPT !.page = 1, !.sel = s]
  <2>2. v \in Views /\ v.kw \in BOOLEAN
    BY FirstPages, <1>1, <2>1 DEF Views
  <2>3. UserAsks(v, v, v.kw)
    BY <2>1 DEF handlePageSizeChange
  <2> HIDE DEF v
  <2> QED
    BY <2>2, <2>3, UserPreserves
<1>7. CASE \E s \in Sels : SwitchIdSort(s)
  <2>1. PICK s \in Sels : SwitchIdSort(s)
    BY <1>7
  <2> DEFINE v == [view EXCEPT !.sel = s]
  <2>2. v \in Views /\ v.kw \in BOOLEAN
    BY FirstPages, <1>1, <2>1 DEF Views
  <2>3. UserAsks(v, v, v.kw)
    BY <2>1 DEF SwitchIdSort
  <2> HIDE DEF v
  <2> QED
    BY <2>2, <2>3, UserPreserves
<1>8. CASE \E s \in Sels : SelectFilter(s)
  <2>1. PICK s \in Sels : SelectFilter(s)
    BY <1>8
  <2> DEFINE v == [view EXCEPT !.page = 1, !.sel = s]
  <2>2. v \in Views
    BY FirstPages, <1>1, <2>1 DEF Views
  <2>3. UserAsks(v, v, FALSE)
    BY <2>1 DEF SelectFilter
  <2> HIDE DEF v
  <2> QED
    BY <2>2, <2>3, UserPreserves
<1>9. CASE SwitchTagMode
  <2> DEFINE v == [view EXCEPT !.page = 1, !.tag = ~@]
  <2>1. UserAsks(v, v, FALSE) /\ v \in Views
    BY <1>3, <1>9 DEF SwitchTagMode
  <2> HIDE DEF v
  <2> QED
    BY <2>1, UserPreserves
<1>10. CASE Submit
  <2>1. PICK k \in BOOLEAN : UserAsks([view EXCEPT !.kw = k], [view EXCEPT !.page = 1, !.kw = k], TRUE)
    BY <1>1, <1>10 DEF Submit
  <2> QED
    BY <1>4, <2>1, UserPreserves
<1>11. CASE RefreshButton
  <2>1. UserAsks(view, [view EXCEPT !.page = 0], view.kw)
    BY <1>11 DEF RefreshButton
  <2> QED
    BY <1>1, <1>3, <2>1, UserPreserves
<1> QED
  BY <1>5, <1>6, <1>7, <1>8, <1>9, <1>10, <1>11

\* refresh() of an operation's render.
LEMMA Refreshing ==
  ASSUME Sensible, ListInv, NEW o \in ops, Refresh(o), shown' \in Lists
  PROVE  ListInv'
<1> USE DEF ListInv
<1>1. o \in Ops /\ view \in Views
  BY DEF ListType
<1> DEFINE q == [o.view EXCEPT !.kw = view.kw]
           r == [o EXCEPT !.at = "refreshing"]
<1>2. q \in Views /\ q.kw \in BOOLEAN
  BY <1>1 DEF Ops, Views
<1>3. r \in Ops /\ o.kind \in Kinds /\ ops' = (ops \ {o}) \cup {r}
  BY <1>1 DEF Ops, Refresh
<1>4. /\ Ask(q, q.kw, o.kind) /\ spoiled' = Spoils(q, view)
      /\ need' = db /\ UNCHANGED <<view, db, done, stuck>>
  BY DEF Refresh
<1> HIDE DEF q, r
<1>5. \A x \in ops : (x.kind = "batch" /\ x.at \in {"sent", "done"}) => x \in ops' \/ o.kind = "batch"
  BY <1>3
<1>6. ops' \subseteq Ops
  BY <1>3 DEF ListType
<1>7. spoiled' = Spoils(q, view')
  BY <1>4
<1> QED
  BY <1>1, <1>2, <1>3, <1>4, <1>5, <1>6, <1>7, Asking DEF ListType

LEMMA OperationPreserves ==
  ASSUME Sensible, ListInv,
         \/ \E k \in Kinds : StartOp(k)
         \/ \E o \in ops : OpCommits(o) \/ OpAnswers(o) \/ OpRefused(o) \/ OpRejects(o)
  PROVE  ListInv'
<1>1. /\ view \in Views /\ shown \in Lists /\ ops \subseteq Ops /\ gets \subseteq Gets
      /\ db \in Nat /\ done \in Nat
  BY DEF ListInv, ListType
<1>2. ASSUME NEW k \in Kinds, StartOp(k)
      PROVE  ListInv'
  <2> DEFINE o == [id |-> done, kind |-> k, view |-> view, list |-> shown,
                   at |-> IF k = "reset" THEN "done" ELSE "sent"]
  <2>1. o \in Ops /\ o.kind = k /\ o.at \in {"sent", "done"} /\ ops' = ops \cup {o}
    BY <1>1, <1>2 DEF Ops, StartOp
  <2>2. view' \in Views /\ RowPage(view') = RowPage(view) /\ view'.sel = view.sel /\ view'.tag = view.tag
    BY <1>1, <1>2 DEF StartOp, Views, RowPage
  <2>3. /\ loading' = (loading \/ k = "batch") /\ done' = done + 1
        /\ UNCHANGED <<gets, waits, counter, searching, shown, db, asks, need, spoiled, shared, stuck>>
    BY <1>2 DEF StartOp
  <2> HIDE DEF o
  <2>4. ops' \subseteq Ops /\ done' \in Nat /\ db' >= db
    BY <1>1, <2>1, <2>3
  <2> QED
    BY <1>1, <2>1, <2>2, <2>3, <2>4, Resting
<1>3. ASSUME NEW o \in ops, OpCommits(o)
      PROVE  ListInv'
  <2> DEFINE r == [o EXCEPT !.at = "done"]
  <2>1. r \in Ops /\ r.kind = o.kind /\ r.at = "done" /\ ops' = (ops \ {o}) \cup {r}
    BY <1>1, <1>3 DEF Ops, OpCommits
  <2>2. /\ db' = db + 1
        /\ UNCHANGED <<view, gets, waits, counter, loading, searching, shown, asks, done, need, spoiled, shared, stuck>>
    BY <1>3 DEF OpCommits
  <2> HIDE DEF r
  <2>3. ops' \subseteq Ops /\ db' \in Nat /\ db' >= db
    BY <1>1, <2>1, <2>2
  <2> QED
    BY <1>1, <2>1, <2>2, <2>3, Resting DEF RowPage
<1>4. ASSUME NEW o \in ops, OpAnswers(o)
      PROVE  ListInv'
  <2>1. o.list \in Lists
    BY <1>1 DEF Ops
  <2>2. CASE o.kind = "row" /\ o.list = shown
    <3>1. /\ ops' = ops \ {o} /\ shown' = shown /\ (spoiled => spoiled')
          /\ UNCHANGED <<view, gets, waits, counter, loading, searching, db, asks, done, need, shared, stuck>>
      BY <1>4, <2>2 DEF OpAnswers
    <3>2. ops' \subseteq Ops /\ db' >= db
      BY <1>1, <3>1
    <3> QED
      BY <1>1, <2>2, <3>1, <3>2, Resting DEF RowPage
  <2>3. CASE o.kind = "row" /\ o.list # shown
    <3>1. /\ ops' = ops \ {o} /\ shown' \in Lists /\ spoiled'
          /\ UNCHANGED <<view, gets, waits, counter, loading, searching, db, asks, done, need, shared, stuck>>
      BY <1>4, <2>1, <2>3 DEF OpAnswers
    <3>2. ListType' /\ Numbers' /\ Awaited'
      BY <3>1 DEF ListInv, ListType, Numbers, Awaited
    <3>3. Spinning'
      BY <2>3, <3>1 DEF ListInv, Spinning, EndsLoading
    <3>4. AskedFor' /\ Fresh'
      BY <3>1 DEF AskedFor, Fresh
    <3> QED
      BY <3>2, <3>3, <3>4 DEF ListInv
  <2>4. CASE o.kind # "row"
    <3>1. Refresh(o) /\ shown' \in Lists
      BY <1>1, <1>4, <2>1, <2>4 DEF OpAnswers
    <3> QED
      BY <3>1, Refreshing
  <2> QED
    BY <2>2, <2>3, <2>4
<1>5. ASSUME NEW o \in ops, OpRefused(o)
      PROVE  ListInv'
  <2>1. CASE o.kind = "delete"
    BY <1>1, <1>5, <2>1, Refreshing DEF OpRefused
  <2>2. CASE o.kind # "delete"
    <3>1. /\ ops' = ops \ {o} /\ loading' = (loading /\ o.kind # "batch")
          /\ UNCHANGED <<view, gets, waits, counter, searching, shown, db, asks, done, need, spoiled, shared, stuck>>
      BY <1>5, <2>2 DEF OpRefused
    <3>2. ops' \subseteq Ops /\ db' >= db
      BY <1>1, <3>1
    <3> QED
      BY <1>1, <3>1, <3>2, Resting DEF RowPage
  <2> QED
    BY <2>1, <2>2
<1>6. ASSUME NEW o \in ops, OpRejects(o)
      PROVE  ListInv'
  <2>1. /\ ops' = ops \ {o} /\ stuck' = (stuck \/ o.kind = "batch")
        /\ UNCHANGED <<view, gets, waits, counter, loading, searching, shown, db, asks, done, need, spoiled, shared>>
    BY <1>6 DEF OpRejects
  <2>2. ops' \subseteq Ops /\ db' >= db
    BY <1>1, <2>1
  <2> QED
    BY <1>1, <2>1, <2>2, Resting DEF RowPage
<1> QED
  BY <1>2, <1>3, <1>4, <1>5, <1>6

\* An answer ends all the calls that share its GET.
LEMMA AnswerPreserves ==
  ASSUME Sensible, ListInv, NEW g \in gets, NEW outcome \in {"ok", "refused", "rejected"},
         Answer(g, outcome)
  PROVE  ListInv'
<1> USE DEF ListInv
<1> DEFINE W == {w \in waits : w.q = g.q}
<1>1. /\ g \in Gets /\ g.at # Unread /\ g.q \in Views /\ g.at \in Nat /\ g \in Lists /\ view \in Views
  BY DEF Answer, ListType, Gets, Lists
<1>2. /\ gets' = gets \ {g} /\ waits' = waits \ W
      /\ searching' = (searching /\ ~\E w \in W : w.srch)
      /\ loading' = (loading /\ (outcome = "rejected" \/ ~\E w \in W : EndsLoading(w)))
      /\ stuck' = IF \E w \in W : EndsLoading(w) THEN outcome = "rejected" ELSE stuck
      /\ spoiled' = (spoiled \/ (outcome # "ok" /\ \E w \in W : Applies(w)))
      /\ shown' = IF outcome = "ok" /\ (\E w \in W : Applies(w)) THEN g ELSE shown
      /\ UNCHANGED <<counter, db, asks, done, need, shared>>
  BY DEF Answer, Applies
<1>3. view' = IF outcome = "ok" /\ \E w \in W : w.req = 0
              THEN [view EXCEPT !.page = g.q.page] ELSE view
  BY DEF Answer
<1>4. /\ ops' \subseteq ops
      /\ \A o \in ops : o.at \in {"sent", "done"} => o \in ops'
  BY DEF Answer
<1>5. /\ view' \in Views /\ view'.sel = view.sel /\ view'.tag = view.tag
      /\ view' = view \/ (view'.page = g.q.page /\ \E w \in W : w.req = 0)
  BY <1>1, <1>3 DEF Views
<1> HIDE DEF W
<1>6. \A w \in W : w \in waits /\ w.q = g.q
  BY DEF W
<1>7. \A w \in waits \ W : w.q # g.q
  BY DEF W
<1>8. ListType'
  BY <1>1, <1>2, <1>4, <1>5 DEF ListType
<1>9. Numbers'
  BY <1>2 DEF Numbers
<1>10. Awaited'
  BY <1>2, <1>7 DEF Awaited
<1>11. Spinning'
  <2>1. searching' => \E w \in waits' : w.srch
    BY <1>2 DEF Spinning
  <2>2. \A w \in waits : EndsLoading(w)' <=> EndsLoading(w)
    BY <1>2 DEF EndsLoading
  <2>3. ASSUME loading', ~stuck'
        PROVE  \/ \E w \in waits' : EndsLoading(w)'
               \/ \E o \in ops' : o.kind = "batch" /\ o.at \in {"sent", "done"}
    <3>1. loading /\ ~stuck /\ ~\E w \in W : EndsLoading(w)
      BY <1>2, <2>3
    <3>2. CASE \E w \in waits : EndsLoading(w)
      BY <1>2, <2>2, <3>1, <3>2
    <3>3. CASE \E o \in ops : o.kind = "batch" /\ o.at \in {"sent", "done"}
      BY <1>4, <3>3
    <3> QED
      BY <3>1, <3>2, <3>3 DEF Spinning
  <2> QED
    BY <2>1, <2>3 DEF Spinning
<1>12. \A w \in waits : Applies(w)' <=> Applies(w)
  BY <1>2 DEF Applies
<1>13. ASSUME ~spoiled'
       PROVE  /\ \A w \in waits' : Applies(w)' => Same(w.q, view')
              /\ (\A w \in waits' : ~Applies(w)') => Same(shown'.q, view')
  <2>1. ~spoiled /\ (\A w \in waits : Applies(w) => Same(w.q, view))
    BY <1>2, <1>13 DEF AskedFor
  <2>2. (\E w \in W : Applies(w)) => outcome = "ok" /\ shown' = g /\ Same(g.q, view)
    BY <1>2, <1>6, <1>13, <2>1
  <2>3. (\E w \in W : w.req = 0) => Same(g.q, view)
    BY <2>2 DEF Applies
  <2>4. RowPage(view') = RowPage(view)
    BY <1>5, <2>3 DEF Same, RowPage
  <2>5. \A x : Same(x, view') <=> Same(x, view)
    BY <1>5, <2>4 DEF Same
  <2>6. \A w \in waits' : Applies(w)' => Same(w.q, view')
    BY <1>2, <1>12, <2>1, <2>5
  <2>7. ASSUME \A w \in waits' : ~Applies(w)'
        PROVE  Same(shown'.q, view')
    <3>1. CASE \E w \in W : Applies(w)
      BY <2>2, <2>5, <3>1
    <3>2. CASE ~\E w \in W : Applies(w)
      <4>1. \A w \in waits : ~Applies(w)
        BY <1>2, <1>12, <2>7, <3>2
      <4>2. shown' = shown
        BY <1>2, <3>2
      <4> QED
        BY <2>1, <2>5, <4>1, <4>2 DEF AskedFor
    <3> QED
      BY <3>1, <3>2
  <2> QED
    BY <2>6, <2>7
<1>14. AskedFor'
  BY <1>13 DEF AskedFor
<1>15. ASSUME ~spoiled', ~shared'
       PROVE  /\ \A w \in waits', h \in gets' : (Applies(w)' /\ h.q = w.q /\ h.at # Unread) => h.at >= need
              /\ (\A w \in waits' : ~Applies(w)') => shown'.at >= need
  <2>1. /\ ~spoiled /\ ~shared
        /\ \A w \in waits, h \in gets : (Applies(w) /\ h.q = w.q /\ h.at # Unread) => h.at >= need
    BY <1>2, <1>15 DEF Fresh
  <2>2. (\E w \in W : Applies(w)) => shown' = g /\ g.at >= need
    BY <1>1, <1>2, <1>6, <1>15, <2>1
  <2>3. \A w \in waits', h \in gets' : (Applies(w)' /\ h.q = w.q /\ h.at # Unread) => h.at >= need
    BY <1>2, <1>12, <2>1
  <2>4. ASSUME \A w \in waits' : ~Applies(w)'
        PROVE  shown'.at >= need
    <3>1. CASE \E w \in W : Applies(w)
      BY <2>2, <3>1
    <3>2. CASE ~\E w \in W : Applies(w)
      <4>1. (\A w \in waits : ~Applies(w)) /\ shown' = shown
        BY <1>2, <1>12, <2>4, <3>2
      <4> QED
        BY <2>1, <4>1 DEF Fresh
    <3> QED
      BY <3>1, <3>2
  <2> QED
    BY <2>3, <2>4
<1>16. Fresh'
  BY <1>2, <1>15 DEF Fresh
<1> QED
  BY <1>8, <1>9, <1>10, <1>11, <1>14, <1>16

LEMMA ListStep ==
  ASSUME Sensible, ListInv, [Next]_vars
  PROVE  ListInv'
<1>1. /\ view \in Views /\ shown \in Lists /\ ops \subseteq Ops /\ gets \subseteq Gets
      /\ db \in Nat /\ done \in Nat
  BY DEF ListInv, ListType
<1>2. CASE TypeKeyword
  <2>1. view' \in Views /\ RowPage(view') = RowPage(view) /\ view'.sel = view.sel /\ view'.tag = view.tag
    BY <1>1, <1>2 DEF TypeKeyword, Views, RowPage
  <2>2. UNCHANGED <<gets, waits, counter, loading, searching, shown, ops, db, asks, done, need, spoiled, shared, stuck>>
    BY <1>2 DEF TypeKeyword
  <2> QED
    BY <1>1, <2>1, <2>2, Resting
<1>3. ASSUME NEW g \in gets, ServerReads(g)
      PROVE  ListInv'
  <2> DEFINE h == [g EXCEPT !.at = db]
  <2>1. h \in Gets /\ h.q = g.q /\ h.at = db /\ gets' = (gets \ {g}) \cup {h}
    BY <1>1, <1>3 DEF ServerReads, Gets
  <2>2. UNCHANGED <<view, waits, counter, loading, searching, shown, ops, db, asks, done, need, spoiled, shared, stuck>>
    BY <1>3 DEF ServerReads
  <2> HIDE DEF h
  <2>3. gets' \subseteq Gets /\ db' >= db /\ \A x \in gets : \E y \in gets' : y.q = x.q
    BY <1>1, <2>1, <2>2
  <2> QED
    BY <1>1, <2>1, <2>2, <2>3, Resting DEF RowPage
<1>4. CASE UNCHANGED vars
  BY <1>1, <1>4, Resting DEF vars, RowPage
<1> QED
  BY <1>2, <1>3, <1>4, ViewPreserves, OperationPreserves, AnswerPreserves DEF Next

-----------------------------------------------------------------------------
\* For any number of pages, choices, requests and operations the channel table keeps ListInv.
THEOREM ListInvariance ==
  ASSUME Sensible
  PROVE  Spec => []ListInv
<1>1. Init => ListInv
  BY ListInitially
<1>2. ListInv /\ [Next]_vars => ListInv'
  BY ListStep
<1> QED
  BY <1>1, <1>2, PTL DEF Spec

\* Requests, calls, operations and the list keep their types.
THEOREM ListTypes ==
  ASSUME Sensible
  PROVE  Spec => []TypeOK
<1>1. ListInv => TypeOK
  BY DEF Sensible, ListInv, ListType, Numbers, TypeOK, Lists, Gets, Waits, Ops
<1> QED
  BY <1>1, ListInvariance, PTL

\* At rest the list on screen is the one the settings ask for, with the exceptions that
\* ChannelList records in spoiled: answers may come in any order and GETs may be shared.
THEOREM ListShowsSettings ==
  ASSUME Sensible
  PROVE  Spec => []ShownIsAsked
<1>1. ListInv => ShownIsAsked
  BY DEF ListInv, Awaited, AskedFor, ShownIsAsked, Idle
<1> QED
  BY <1>1, ListInvariance, PTL

\* At rest the table does not spin, unless a request that had set it spinning was rejected.
THEOREM ListSpinnerEnds ==
  ASSUME Sensible
  PROVE  Spec => []SpinnerEnds
<1>1. ListInv => SpinnerEnds
  BY DEF ListInv, Awaited, Spinning, SpinnerEnds, Idle
<1> QED
  BY <1>1, ListInvariance, PTL

\* At rest the list shows what the last refreshing operation did, unless its refresh was
\* given the answer of an older GET.
THEOREM ListSeesOperations ==
  ASSUME Sensible
  PROVE  Spec => []RefreshSeesOperation
<1>1. ListInv => RefreshSeesOperation
  BY DEF ListInv, Awaited, Fresh, RefreshSeesOperation, Idle
<1> QED
  BY <1>1, ListInvariance, PTL

-----------------------------------------------------------------------------
(***************************************************************************)
(* The dialog of the table that tests the models of a channel.  Batch      *)
(* loops of one channel may overlap: closing the dialog sets the stop      *)
(* flag, a new batch clears it again, and an older loop that has not       *)
(* looked at the flag in between goes on.  The invariant says what the     *)
(* newest loop of a channel has already got a result for, by the point it  *)
(* has reached.                                                            *)
(***************************************************************************)
CONSTANTS Channels, None, Count, Limit, MaxLoops, MaxSingles

VARIABLES testShown, isBatchTesting, stop, testing, results, loops, tests, singles, finished

Tests == INSTANCE ModelTest WITH shown <- testShown

Loop == [channel : Channels, next : Tests!Models, at : Tests!Points]
Test(l, m) == [channel |-> loops[l].channel, model |-> m, loop |-> l]

\* Loops are numbered from 1 on in the order in which they were started.
LoopsType ==
  /\ loops \in [DOMAIN loops -> Loop]
  /\ \E n \in Nat : DOMAIN loops = 1..n

StateType ==
  /\ testShown \in Channels \cup {None}
  /\ testing \subseteq Tests!Models
  /\ results \subseteq Channels \X Tests!Models
  /\ finished \subseteq DOMAIN loops

\* A test of a loop is one of the slice the loop is waiting for.
TestsBelong ==
  \A t \in tests :
    /\ t \in [channel : Channels, model : Tests!Models, loop : Nat]
    /\ t.loop # 0 => /\ t.loop \in DOMAIN loops
                     /\ loops[t.loop].at = "wait"
                     /\ t.channel = loops[t.loop].channel

\* No batch was started later on the loop's channel.
Newest(l) == \A k \in DOMAIN loops : k > l => loops[k].channel # loops[l].channel

\* The loop has had model m's answer: m is of an earlier slice, or of the current one
\* and no longer awaited, or the loop has come to its end.
Passed(l, m) ==
  \/ m < loops[l].next
  \/ loops[l].at = "wait" /\ m \in Tests!Slice(l) /\ Test(l, m) \notin tests
  \/ loops[l].at = "finish"

\* What the newest loop of a channel has passed is in the results.
Progress ==
  \A l \in DOMAIN loops :
    Newest(l) => \A m \in Tests!Models : Passed(l, m) => <<loops[l].channel, m>> \in results

BatchInv == LoopsType /\ StateType /\ TestsBelong /\ Progress /\ Tests!FinishedIsComplete

-----------------------------------------------------------------------------
\* The number of the next loop is one more than that of the newest.
LEMMA NextLoop ==
  ASSUME NEW n \in Nat, DOMAIN loops = 1..n
  PROVE  Tests!Cardinality(DOMAIN loops) = n
<1>1. Cardinality(1..n) = n
  BY FS_Interval, SMT
<1>2. Tests!Cardinality(1..n) = Cardinality(1..n)
  BY Zenon DEF Tests!Cardinality, Cardinality
<1> QED
  BY <1>1, <1>2

LEMMA BatchInitially ==
  ASSUME None \notin Channels, Count \in Nat \ {0}, Limit \in Nat \ {0}, Tests!Init
  PROVE  BatchInv
<1>1. DOMAIN loops = 1..0
  BY DEF Tests!Init
<1>2. DOMAIN loops = {}
  BY <1>1
<1> QED
  BY <1>1, <1>2 DEF Tests!Init, BatchInv, LoopsType, StateType, TestsBelong, Progress, Tests!FinishedIsComplete

\* A new batch: its loop is the newest of its channel and has passed nothing, and the
\* results it clears belong to loops that are no longer the newest.
LEMMA BatchStarts ==
  ASSUME None \notin Channels, Count \in Nat \ {0}, Limit \in Nat \ {0}, BatchInv, Tests!batchTestModels
  PROVE  BatchInv'
<1> USE DEF BatchInv
<1>1. PICK n \in Nat : DOMAIN loops = 1..n
  BY DEF LoopsType
<1> DEFINE new == [channel |-> testShown, next |-> 1, at |-> "check"]
<1>2. /\ loops' = [k \in 1..(n + 1) |-> IF k = n + 1 THEN new ELSE loops[k]]
      /\ testShown \in Channels
      /\ UNCHANGED <<testShown, testing, tests, singles, finished>>
      /\ results' = {r \in results : r[1] # testShown}
  <2>1. (1..n) \cup {n + 1} = 1..(n + 1)
    OBVIOUS
  <2> QED
    BY <1>1, <2>1, NextLoop DEF Tests!batchTestModels, StateType
<1>3. new \in Loop
  BY <1>2 DEF Loop, Tests!Models, Tests!Points
<1> HIDE DEF new
<1>4. DOMAIN loops' = 1..(n + 1)
  BY <1>2
<1>5. ASSUME NEW k \in 1..n
      PROVE  k \in DOMAIN loops' /\ k # n + 1 /\ k < n + 1 /\ loops'[k] = loops[k] /\ loops[k] \in Loop
  BY <1>1, <1>2, <1>4 DEF LoopsType
<1>6. loops'[n + 1] = new
  BY <1>2
<1>7. LoopsType'
  <2>1. loops' \in [1..(n + 1) -> Loop]
    BY <1>2, <1>3, <1>5
  <2> QED
    BY <2>1, <1>4 DEF LoopsType
<1>8. StateType'
  BY <1>1, <1>2, <1>4 DEF StateType
<1>9. TestsBelong'
  BY <1>1, <1>2, <1>5 DEF TestsBelong
<1>10. ASSUME NEW k \in 1..n, Newest(k)'
       PROVE  Newest(k) /\ loops[k].channel # testShown
  <2>1. loops[k].channel # testShown
    BY <1>4, <1>5, <1>6, <1>10 DEF Newest, new
  <2>2. Newest(k)
    BY <1>1, <1>4, <1>5, <1>10 DEF Newest
  <2> QED
    BY <2>1, <2>2
<1>11. ASSUME NEW k \in 1..n, NEW m \in Tests!Models, loops[k].channel # testShown,
              <<loops[k].channel, m>> \in results
       PROVE  <<loops'[k].channel, m>> \in results'
  BY <1>2, <1>5, <1>11
<1>12. Progress'
  <2> SUFFICES ASSUME NEW k \in 1..(n + 1), Newest(k)', NEW m \in Tests!Models, Passed(k, m)'
               PROVE  <<loops'[k].channel, m>> \in results'
    BY <1>4 DEF Progress, Tests!Models
  <2>1. CASE k = n + 1
    BY <1>6, <2>1 DEF Passed, new, Tests!Models
  <2>2. CASE k \in 1..n
    <3>1. Passed(k, m)
      BY <1>2, <1>5, <2>2 DEF Passed, Tests!Slice, Test, Tests!Models
    <3> QED
      BY <1>1, <1>10, <1>11, <2>2, <3>1 DEF Progress
  <2> QED
    BY <2>1, <2>2
<1>13. Tests!FinishedIsComplete'
  <2> SUFFICES ASSUME NEW k \in finished, Newest(k)', NEW m \in Tests!Models
               PROVE  <<loops'[k].channel, m>> \in results'
    BY <1>2 DEF Tests!FinishedIsComplete, Newest, Tests!Models
  <2>1. k \in 1..n
    BY <1>1 DEF StateType
  <2> QED
    BY <1>10, <1>11, <2>1 DEF Tests!FinishedIsComplete, Newest
<1> QED
  BY <1>7, <1>8, <1>9, <1>12, <1>13

\* A step that only moves one loop: the others pass what they passed.
LEMMA LoopMoves ==
  ASSUME None \notin Channels, Count \in Nat \ {0}, Limit \in Nat \ {0}, BatchInv,
         NEW l \in DOMAIN loops, NEW r \in Loop, r.channel = loops[l].channel,
         loops' = [loops EXCEPT ![l] = r],
         UNCHANGED <<testShown, results>>, testing' \subseteq Tests!Models,
         \A t \in tests : t.loop # l,
         \A t \in tests' : t \in tests \/ \E m \in Tests!Models : t = Test(l, m) /\ r.at = "wait",
         tests \subseteq tests',
         finished' \subseteq finished \cup {l},
         l \in finished' \ finished => \A m \in Tests!Models : Passed(l, m),
         \A m \in Tests!Models : Passed(l, m)' => Passed(l, m)
  PROVE  BatchInv'
<1> USE DEF BatchInv
<1>1. /\ DOMAIN loops' = DOMAIN loops /\ loops'[l] = r
      /\ \A k \in DOMAIN loops : k # l => loops'[k] = loops[k]
      /\ \A k \in DOMAIN loops : loops'[k].channel = loops[k].channel
      /\ \A k \in DOMAIN loops : loops[k] \in Loop
      /\ DOMAIN loops \subseteq Nat \ {0}
  BY DEF LoopsType
<1>2. LoopsType'
  BY <1>1 DEF LoopsType
<1>3. StateType'
  BY <1>1 DEF StateType, Tests!Models
<1>4. TestsBelong'
  <2> SUFFICES ASSUME NEW t \in tests'
               PROVE  /\ t \in [channel : Channels, model : Tests!Models, loop : Nat]
                      /\ t.loop # 0 => /\ t.loop \in DOMAIN loops
                                       /\ loops'[t.loop].at = "wait"
                                       /\ t.channel = loops'[t.loop].channel
    BY <1>1 DEF TestsBelong, Tests!Models
  <2>1. CASE t \in tests
    BY <1>1, <2>1 DEF TestsBelong
  <2>2. CASE t \notin tests
    <3>1. PICK m \in Tests!Models : t = Test(l, m) /\ r.at = "wait"
      BY <2>2
    <3> QED
      BY <1>1, <3>1 DEF Test, Loop
  <2> QED
    BY <2>1, <2>2
<1>5. \A k \in DOMAIN loops : Newest(k)' => Newest(k)
  BY <1>1 DEF Newest
<1>6. ASSUME NEW k \in DOMAIN loops, NEW m \in Tests!Models, Passed(k, m)'
      PROVE  Passed(k, m)
  <2>1. CASE k = l
    BY <1>6, <2>1
  <2>2. CASE k # l
    BY <1>1, <1>6, <2>2 DEF Passed, Tests!Slice, Test, Tests!Models
  <2> QED
    BY <2>1, <2>2
<1>7. Progress'
  BY <1>1, <1>5, <1>6 DEF Progress, Tests!Models
<1>8. Tests!FinishedIsComplete'
  <2> SUFFICES ASSUME NEW k \in finished', Newest(k)', NEW m \in Tests!Models
               PROVE  <<loops'[k].channel, m>> \in results'
    BY DEF Tests!FinishedIsComplete, Newest, Tests!Models
  <2>1. k \in DOMAIN loops
    BY DEF StateType
  <2>2. Newest(k) /\ loops'[k].channel = loops[k].channel
    BY <1>1, <1>5, <2>1
  <2>3. CASE k \in finished
    BY <2>2, <2>3 DEF Tests!FinishedIsComplete, Newest
  <2>4. CASE k \notin finished
    BY <2>1, <2>2, <2>4 DEF Progress
  <2> QED
    BY <2>3, <2>4
<1> QED
  BY <1>2, <1>3, <1>4, <1>7, <1>8

\* A loop's own steps.
LEMMA LoopPreserves ==
  ASSUME None \notin Channels, Count \in Nat \ {0}, Limit \in Nat \ {0}, BatchInv,
         NEW l \in DOMAIN loops,
         Tests!LoopChecks(l) \/ Tests!LoopResumes(l) \/ Tests!LoopWakes(l) \/ Tests!LoopFinishes(l)
  PROVE  BatchInv'
<1>1. loops[l] \in Loop /\ loops \in [DOMAIN loops -> Loop] /\ testing \subseteq Tests!Models /\ l # 0
  BY DEF BatchInv, LoopsType, StateType
<1>2. loops[l].next \in Nat /\ loops[l].next >= 1 /\ Count \in Nat /\ Limit \in Nat
  BY <1>1 DEF Loop, Tests!Models
<1>3. ASSUME loops[l].at # "wait", NEW t \in tests
      PROVE  t.loop # l
  BY <1>1, <1>3 DEF BatchInv, TestsBelong
<1> DEFINE To(p) == [loops[l] EXCEPT !.at = p]
<1>4. ASSUME NEW p \in Tests!Points
      PROVE  /\ To(p) \in Loop /\ To(p).channel = loops[l].channel
             /\ To(p).next = loops[l].next /\ To(p).at = p
             /\ [loops EXCEPT ![l].at = p] = [loops EXCEPT ![l] = To(p)]
  BY <1>1 DEF Loop
<1> HIDE DEF To
<1>5. ASSUME Tests!LoopEnds(l), UNCHANGED <<testShown, results, tests, testing>>,
             \A t \in tests : t.loop # l,
             finished' \subseteq finished \cup {l},
             l \in finished' \ finished => \A m \in Tests!Models : Passed(l, m)
      PROVE  BatchInv'
  <2>1. loops' = [loops EXCEPT ![l] = To("over")] /\ To("over") \in Loop
        /\ To("over").channel = loops[l].channel
        /\ To("over").next = loops[l].next /\ To("over").at = "over"
    BY <1>4, <1>5 DEF Tests!LoopEnds, Tests!At, Tests!Points
  <2>2. \A m \in Tests!Models : Passed(l, m)' => Passed(l, m)
    BY <1>1, <2>1 DEF Passed
  <2> QED
    BY <1>1, <1>5, <2>1, <2>2, LoopMoves
<1>6. CASE Tests!LoopChecks(l)
  <2>1. CASE stop
    BY <1>3, <1>5, <1>6, <2>1 DEF Tests!LoopChecks
  <2>2. CASE ~stop
    <3>1. /\ loops' = [loops EXCEPT ![l] = To("wait")] /\ To("wait") \in Loop
          /\ To("wait").channel = loops[l].channel
          /\ To("wait").next = loops[l].next /\ To("wait").at = "wait"
      BY <1>4, <1>6, <2>2 DEF Tests!LoopChecks, Tests!At, Tests!Points
    <3>2. /\ tests' = tests \cup {Test(l, m) : m \in Tests!Slice(l)}
          /\ testing' = testing \cup Tests!Slice(l)
          /\ UNCHANGED <<testShown, results, finished>>
      BY <1>6, <2>2 DEF Tests!LoopChecks, Test
    <3>3. Tests!Slice(l) \subseteq Tests!Models
      BY DEF Tests!Slice
    <3>4. ASSUME NEW m \in Tests!Models
          PROVE  Passed(l, m)' => Passed(l, m)
      <4>1. loops'[l].next = loops[l].next /\ Tests!Slice(l)' = Tests!Slice(l) /\ Test(l, m)' = Test(l, m)
            /\ loops'[l].at = "wait"
        BY <1>1, <3>1 DEF Tests!Slice, Test, Tests!Models
      <4>2. m \in Tests!Slice(l) => Test(l, m) \in tests'
        BY <3>2
      <4> QED
        BY <4>1, <4>2 DEF Passed
    <3>5. /\ testing' \subseteq Tests!Models /\ tests \subseteq tests'
          /\ \A t \in tests : t.loop # l
          /\ \A t \in tests' : t \in tests \/ \E m \in Tests!Models : t = Test(l, m) /\ To("wait").at = "wait"
      BY <1>1, <1>3, <1>6, <3>1, <3>2, <3>3 DEF Tests!LoopChecks
    <3> HIDE DEF Test
    <3> QED
      BY <3>1, <3>2, <3>4, <3>5, LoopMoves
  <2> QED
    BY <2>1, <2>2
<1>7. CASE Tests!LoopResumes(l)
  <2>1. \A t \in tests : t.loop # l
    BY <1>7 DEF Tests!LoopResumes, Tests!TestsOf
  <2>2. \A m \in Tests!Models : Test(l, m) \notin tests
    BY <2>1 DEF Test
  <2>3. UNCHANGED <<testShown, testing, results, tests, finished>> /\ loops[l].at = "wait"
    BY <1>7 DEF Tests!LoopResumes
  <2>4. CASE stop
    BY <1>5, <1>7, <2>1, <2>3, <2>4 DEF Tests!LoopResumes
  <2>5. CASE ~stop /\ loops[l].next + Limit <= Count
    <3> DEFINE r == [loops[l] EXCEPT !.at = "pause", !.next = @ + Limit]
    <3>1. /\ loops' = [loops EXCEPT ![l] = r] /\ r \in Loop
          /\ r.channel = loops[l].channel /\ r.next = loops[l].next + Limit /\ r.at = "pause"
      BY <1>1, <1>2, <1>7, <2>5 DEF Tests!LoopResumes, Loop, Tests!Points, Tests!Models
    <3> HIDE DEF r
    <3>2. ASSUME NEW m \in Tests!Models
          PROVE  Passed(l, m)' => Passed(l, m)
      <4>1. loops'[l].next = loops[l].next + Limit /\ loops'[l].at = "pause"
        BY <1>1, <3>1
      <4> QED
        BY <1>2, <2>2, <2>3, <4>1 DEF Passed, Tests!Slice, Tests!Models
    <3> QED
      BY <1>1, <2>1, <2>3, <3>1, <3>2, LoopMoves
  <2>6. CASE ~stop /\ ~(loops[l].next + Limit <= Count)
    <3>1. /\ loops' = [loops EXCEPT ![l] = To("finish")] /\ To("finish") \in Loop
          /\ To("finish").channel = loops[l].channel
      BY <1>4, <1>7, <2>6 DEF Tests!LoopResumes, Tests!Points
    <3>2. \A m \in Tests!Models : Passed(l, m)
      BY <1>2, <2>2, <2>3, <2>6 DEF Passed, Tests!Slice, Tests!Models
    <3> QED
      BY <1>1, <2>1, <2>3, <3>1, <3>2, LoopMoves
  <2> QED
    BY <2>4, <2>5, <2>6
<1>8. CASE Tests!LoopWakes(l)
  <2>1. /\ loops' = [loops EXCEPT ![l] = To("check")] /\ To("check") \in Loop
        /\ To("check").channel = loops[l].channel
        /\ To("check").next = loops[l].next /\ To("check").at = "check"
    BY <1>4, <1>8 DEF Tests!LoopWakes, Tests!At, Tests!Points
  <2>2. \A m \in Tests!Models : Passed(l, m)' => Passed(l, m)
    BY <1>1, <2>1 DEF Passed
  <2>3. UNCHANGED <<testShown, testing, results, tests, finished>> /\ \A t \in tests : t.loop # l
    BY <1>3, <1>8 DEF Tests!LoopWakes
  <2> QED
    BY <1>1, <2>1, <2>2, <2>3, LoopMoves
<1>9. CASE Tests!LoopFinishes(l)
  <2>1. \A m \in Tests!Models : Passed(l, m)
    BY <1>9 DEF Tests!LoopFinishes, Passed
  <2> QED
    BY <1>3, <1>5, <1>9, <2>1 DEF Tests!LoopFinishes
<1> QED
  BY <1>6, <1>7, <1>8, <1>9

\* Single tests and answers touch the loops only through the tests under way: an answer
\* of the newest loop's slice is a result of its channel.
LEMMA TestPreserves ==
  ASSUME None \notin Channels, Count \in Nat \ {0}, Limit \in Nat \ {0}, BatchInv,
         (\E m \in Tests!Models : Tests!testChannel(m)) \/ (\E t \in tests : Tests!TestArrives(t))
  PROVE  BatchInv'
<1> USE DEF BatchInv
<1>1. UNCHANGED <<testShown, loops, finished>>
  BY DEF Tests!testChannel, Tests!TestArrives
<1>2. ASSUME TestsBelong', testing' \subseteq Tests!Models, results' \subseteq Channels \X Tests!Models,
             results \subseteq results',
             \A l \in DOMAIN loops, m \in Tests!Models :
               Test(l, m) \in tests \ tests' => <<loops[l].channel, m>> \in results'
      PROVE  BatchInv'
  <2>1. LoopsType' /\ StateType'
    BY <1>1, <1>2 DEF LoopsType, StateType, Tests!Models
  <2>2. Tests!FinishedIsComplete'
    BY <1>1, <1>2 DEF Tests!FinishedIsComplete, Tests!Models
  <2>3. ASSUME NEW l \in DOMAIN loops, Newest(l), NEW m \in Tests!Models, Passed(l, m)'
        PROVE  <<loops[l].channel, m>> \in results'
    <3>1. CASE Passed(l, m)
      BY <1>2, <2>3, <3>1 DEF Progress
    <3>2. CASE ~Passed(l, m)
      <4>1. Test(l, m)' = Test(l, m) /\ Tests!Slice(l)' = Tests!Slice(l)
        BY <1>1 DEF Test, Tests!Slice, Tests!Models
      <4>2. Test(l, m) \in tests \ tests'
        BY <1>1, <2>3, <3>2, <4>1 DEF Passed
      <4> QED
        BY <1>2, <4>2
    <3> QED
      BY <3>1, <3>2
  <2>4. Progress'
    BY <1>1, <2>3 DEF Progress, Newest, Tests!Models
  <2> QED
    BY <1>2, <2>1, <2>2, <2>4
<1>3. ASSUME NEW m \in Tests!Models, Tests!testChannel(m)
      PROVE  BatchInv'
  <2>1. /\ tests' = tests \cup {[channel |-> testShown, model |-> m, loop |-> 0]}
        /\ testing' = testing \cup {m} /\ results' = results /\ testShown \in Channels
    BY <1>3 DEF Tests!testChannel, StateType
  <2>2. TestsBelong'
    BY <1>1, <2>1 DEF TestsBelong, Tests!Models
  <2> QED
    BY <1>2, <2>1, <2>2 DEF StateType
<1>4. ASSUME NEW t \in tests, Tests!TestArrives(t)
      PROVE  BatchInv'
  <2>1. /\ tests' = tests \ {t} /\ testing' = testing \ {t.model}
        /\ results' = results \cup {<<t.channel, t.model>>}
    BY <1>4 DEF Tests!TestArrives
  <2>2. t.channel \in Channels /\ t.model \in Tests!Models
    BY DEF TestsBelong
  <2>3. TestsBelong'
    BY <1>1, <2>1 DEF TestsBelong, Tests!Models
  <2>4. ASSUME NEW l \in DOMAIN loops, NEW m \in Tests!Models, Test(l, m) \in tests \ tests'
        PROVE  <<loops[l].channel, m>> \in results'
    BY <2>1, <2>4 DEF Test
  <2> QED
    BY <1>2, <2>1, <2>2, <2>3, <2>4 DEF StateType
<1> QED
  BY <1>3, <1>4

LEMMA BatchStep ==
  ASSUME None \notin Channels, Count \in Nat \ {0}, Limit \in Nat \ {0}, BatchInv, [Tests!Next]_(Tests!vars)
  PROVE  BatchInv'
<1>1. ASSUME UNCHANGED <<results, loops, tests, finished>>,
             testShown' \in Channels \cup {None}, testing' \subseteq Tests!Models
      PROVE  BatchInv'
  BY <1>1 DEF BatchInv, LoopsType, StateType, TestsBelong, Progress, Newest, Passed, Tests!Slice, Test,
              Tests!FinishedIsComplete, Tests!Models
<1>2. CASE \E c \in Channels : Tests!OpenModal(c)
  BY <1>1, <1>2 DEF Tests!OpenModal, BatchInv, StateType
<1>3. CASE Tests!handleCloseModal
  BY <1>1, <1>3 DEF Tests!handleCloseModal, BatchInv, StateType
<1>4. CASE UNCHANGED Tests!vars
  BY <1>1, <1>4 DEF Tests!vars, BatchInv, StateType
<1> QED
  BY <1>2, <1>3, <1>4, BatchStarts, LoopPreserves, TestPreserves DEF Tests!Next, Tests!LoopStep

-----------------------------------------------------------------------------
\* For any number of channels, models and loops and any concurrency limit, the batch
\* loops of useChannelsData keep BatchInv.
THEOREM BatchInvariance ==
  ASSUME None \notin Channels, Count \in Nat \ {0}, Limit \in Nat \ {0}
  PROVE  Tests!Spec => []BatchInv
<1>1. Tests!Init => BatchInv
  BY BatchInitially
<1>2. BatchInv /\ [Tests!Next]_(Tests!vars) => BatchInv'
  BY BatchStep
<1> QED
  BY <1>1, <1>2, PTL DEF Tests!Spec

\* Every loop, test and result is one of the channel's models.
THEOREM BatchTypes ==
  ASSUME None \notin Channels, Count \in Nat \ {0}, Limit \in Nat \ {0}
  PROVE  Tests!Spec => []Tests!TypeOK
<1>1. BatchInv => Tests!TypeOK
  BY DEF BatchInv, StateType, LoopsType, Loop, Tests!TypeOK
<1> QED
  BY <1>1, BatchInvariance, PTL

\* A batch that ran to its end has a result for every model of its channel until the
\* channel is tested again, however many loops, single tests and dialogs overlap with it.
THEOREM BatchesAreComplete ==
  ASSUME None \notin Channels, Count \in Nat \ {0}, Limit \in Nat \ {0}
  PROVE  Tests!Spec => []Tests!FinishedIsComplete
<1>1. BatchInv => Tests!FinishedIsComplete
  BY DEF BatchInv
<1> QED
  BY <1>1, BatchInvariance, PTL

-----------------------------------------------------------------------------
(* The other paged tables, for any pages and sizes and any number of       *)
(* requests.  A flag that is set has the request that clears it            *)
(* (PagedSpinning); the pager is the last answer's or the last click's     *)
(* (Matching); the last request is for what the user wants (Showing).      *)

CONSTANTS Tables, InOrder, Faults, Calm, Operations, MaxRequests, PageNumbers, Sizes

VARIABLES table, form, mode, query, active, size, rows, reqs, requests, tableLoading,
          tableSearching, timer, op, want, joined

Paged == INSTANCE TableList
           WITH MaxAsks <- MaxRequests, Pages <- PageNumbers, asks <- requests,
                loading <- tableLoading, searching <- tableSearching

\* There is a first page and a least size; the tables are those of the console; an operation is
\* not the absence of one.
TablesAssumption ==
  /\ 1 \in PageNumbers
  /\ Sizes \subseteq Nat /\ \E z \in Sizes : \A y \in Sizes : z <= y
  /\ \A k, r, p, z : [kind |-> k, rows |-> r, page |-> p, size |-> z] # None
  /\ MaxRequests \in Nat
  /\ Tables \subseteq Paged!AllTables

Queries == [page : PageNumbers, size : Sizes, kw : {0, 1}]

\* The tables catch what their requests throw, or nothing is thrown.
Catching == "reject" \notin Faults \/ \A t \in Tables : t.guarded

\* The requests: each has a number given before; it is a search if it has a keyword.
PagedAsked ==
  /\ reqs \subseteq [id : Nat, q : Queries, seq : Nat, search : BOOLEAN]
  /\ \A r \in reqs : r.id <= requests /\ r.seq <= requests
  /\ \A r \in reqs : r.search <=> r.q.kw # 0

\* A flag that is set has the request, or the operation, that will clear it.
PagedSpinning ==
  IF table.numbered
  THEN tableLoading \/ tableSearching => \E r \in reqs : r.seq = requests
  ELSE /\ tableLoading =>
            \/ \E r \in reqs : ~r.search \/ table.paging = "form"
            \/ op # None /\ op.kind = "copy"
       /\ tableSearching => \E r \in reqs : r.search /\ table.paging # "form"

OpKinds == {"copy", "prev", "refresh", "reload"}
PageRequests == [id : Nat, q : Queries, seq : Nat, search : BOOLEAN]

PagedTypes ==
  /\ table \in Tables /\ form \in {0, 1} /\ query \in {0, 1}
  /\ mode \in BOOLEAN /\ tableLoading \in BOOLEAN /\ tableSearching \in BOOLEAN /\ joined \in BOOLEAN
  /\ active \in PageNumbers /\ size \in Sizes /\ want \in Queries
  /\ rows = None \/ rows \in Queries
  /\ requests \in Nat /\ requests <= MaxRequests
  /\ timer = None \/ timer \in Sizes
  /\ op = None \/ op \in [kind : OpKinds, rows : Queries, page : PageNumbers, size : Sizes]

PagedInv == PagedTypes /\ PagedAsked

-----------------------------------------------------------------------------
(* The tables and the requests.                                            *)

\* What the tables have in common.
LEMMA TableKinds ==
  ASSUME NEW t \in Paged!AllTables
  PROVE  /\ t.paging \in {"mode", "form", "first", "all", "query"}
         /\ t.sizing \in {"mode", "samePage", "sameForm", "oldSize", "all", "query", "form"}
         /\ t.numbered => ~t.effect /\ "copy" \notin t.ops
         /\ t.effect => t.paging # "form"
<1>1. CASE t = Paged!useTokensData
  BY <1>1 DEF Paged!useTokensData, Paged!Table
<1>2. CASE t = Paged!useUsersData
  BY <1>2 DEF Paged!useUsersData, Paged!Table
<1>3. CASE t = Paged!useRedemptionsData
  BY <1>3 DEF Paged!useRedemptionsData, Paged!Table
<1>4. CASE t = Paged!useModelsData
  BY <1>4 DEF Paged!useModelsData, Paged!Table
<1>5. CASE t = Paged!useDeploymentsData
  BY <1>5 DEF Paged!useDeploymentsData, Paged!Table
<1>6. CASE t = Paged!useUsageLogsData
  BY <1>6 DEF Paged!useUsageLogsData, Paged!Table
<1>7. CASE t = Paged!useTaskLogsData
  BY <1>7 DEF Paged!useTaskLogsData, Paged!Table
<1>8. CASE t = Paged!useMjLogsData
  BY <1>8 DEF Paged!useMjLogsData, Paged!useTaskLogsData, Paged!Table
<1> QED
  BY <1>1, <1>2, <1>3, <1>4, <1>5, <1>6, <1>7, <1>8 DEF Paged!AllTables

\* The requests in flight after one more: the new one, or an equal one in its place.
LEMMA Sending ==
  ASSUME NEW R \in SUBSET PageRequests, NEW n \in Nat, NEW q \in Queries,
         \A r \in R : r.id <= n /\ r.seq <= n /\ (r.search <=> r.q.kw # 0)
  PROVE  LET S == Paged!Sent(R, n, q)
         IN /\ S \subseteq PageRequests
            /\ \A r \in S : r.id <= n /\ r.seq <= n /\ (r.search <=> r.q.kw # 0)
            /\ \E e \in S : e.q = q /\ e.seq = n /\ (e.search <=> q.kw # 0)
            /\ \A r \in R : \E e \in S : e.search = r.search
            /\ \A e \in S : (e.q = q /\ e.seq = n) \/ (e \in R /\ e.q # q)
            /\ (\A r \in R : r.q # q) => S = R \cup {[id |-> n, q |-> q, seq |-> n, search |-> q.kw # 0]}
<1> DEFINE same == {r \in R : r.q = q}
           new == [id |-> n, q |-> q, seq |-> n, search |-> q.kw # 0]
           S == Paged!Sent(R, n, q)
           late(r) == [r EXCEPT !.seq = n]
<1>1. CASE same = {}
  <2>1. S = R \cup {new}
    BY <1>1 DEF Paged!Sent
  <2>2. new \in PageRequests /\ new.id = n /\ new.q = q /\ new.seq = n /\ (new.search <=> q.kw # 0)
    BY DEF PageRequests
  <2>3. \A r \in R : r.q # q
    BY <1>1
  <2> HIDE DEF new, S
  <2>4. S \subseteq PageRequests /\ \A r \in S : r.id <= n /\ r.seq <= n /\ (r.search <=> r.q.kw # 0)
    BY <2>1, <2>2
  <2>5. new \in S /\ \A r \in R : r \in S
    BY <2>1
  <2> QED
    BY <2>1, <2>2, <2>3, <2>4, <2>5 DEF S, new
<1>2. CASE same # {}
  <2>1. S = (R \ same) \cup {late(r) : r \in same}
    BY <1>2 DEF Paged!Sent
  <2>2. \A r \in same : /\ late(r) \in PageRequests /\ late(r).id = r.id /\ late(r).q = q /\ late(r).seq = n
                        /\ late(r).search = r.search
    BY DEF PageRequests
  <2>3. \A r \in same : late(r) \in S
    BY <2>1
  <2>4. \A e \in S : (e \in R /\ e.q # q) \/ \E r \in same : e = late(r)
    BY <2>1
  <2> HIDE DEF S, late
  <2>5. S \subseteq PageRequests /\ \A e \in S : e.id <= n /\ e.seq <= n /\ (e.search <=> e.q.kw # 0)
    BY <2>2, <2>4
  <2>6. \E e \in S : e.q = q /\ e.seq = n /\ (e.search <=> q.kw # 0)
    BY <1>2, <2>2, <2>3
  <2>7. \A r \in R : \E e \in S : e.search = r.search
    <3> SUFFICES ASSUME NEW r \in R PROVE \E e \in S : e.search = r.search
      OBVIOUS
    <3>1. CASE r \in same
      BY <2>2, <2>3, <3>1
    <3>2. CASE r \notin same
      BY <2>1, <3>2
    <3> QED
      BY <3>1, <3>2
  <2>8. \A e \in S : (e.q = q /\ e.seq = n) \/ (e \in R /\ e.q # q)
    BY <2>2, <2>4
  <2> QED
    BY <1>2, <2>5, <2>6, <2>7, <2>8 DEF S
<1> QED
  BY <1>1, <1>2

\* A step that asks once or twice.
LEMMA AskingSome ==
  ASSUME PagedInv, NEW s \in Seq(Queries), Len(s) = 1 \/ Len(s) = 2, Paged!Ask(s)
  PROVE  /\ PagedAsked'
         /\ requests' = requests + Len(s) /\ requests' \in Nat /\ requests' <= MaxRequests
         /\ mode' \in BOOLEAN /\ tableLoading' \in BOOLEAN /\ tableSearching' \in BOOLEAN /\ joined' \in BOOLEAN
         /\ \E e \in reqs' : e.seq = requests' /\ e.q = s[Len(s)]
         /\ \A r \in reqs : \E e \in reqs' : e.search = r.search
         /\ tableLoading' => tableLoading \/ \E e \in reqs' : ~e.search \/ table.paging = "form"
         /\ tableSearching' => tableSearching \/ \E e \in reqs' : e.search /\ table.paging # "form"
<1> DEFINE one == Paged!Sent(reqs, requests + 1, s[1])
           two == Paged!Sent(one, requests + 2, s[2])
<1>1. s[1] \in Queries /\ (Len(s) = 2 => s[2] \in Queries) /\ DOMAIN s = 1..Len(s)
  OBVIOUS
<1>2. /\ requests + Len(s) <= MaxRequests /\ requests' = requests + Len(s) /\ requests \in Nat
      /\ reqs' = IF Len(s) = 1 THEN one ELSE two
  BY DEF Paged!Ask, PagedInv, PagedTypes
<1>3. /\ mode' \in BOOLEAN /\ tableLoading' \in BOOLEAN /\ tableSearching' \in BOOLEAN /\ joined' \in BOOLEAN
  BY DEF Paged!Ask, PagedInv, PagedTypes
<1>4. /\ tableLoading' => tableLoading \/ \E i \in 1..Len(s) : s[i].kw = 0 \/ table.paging = "form"
      /\ tableSearching' => tableSearching \/ \E i \in 1..Len(s) : s[i].kw # 0 /\ table.paging # "form"
  BY <1>1 DEF Paged!Ask
<1>5. \A r \in reqs : r.id <= requests + 1 /\ r.seq <= requests + 1 /\ (r.search <=> r.q.kw # 0)
  BY <1>2 DEF PagedInv, PagedAsked
<1>6. /\ one \subseteq PageRequests
      /\ \A r \in one : r.id <= requests + 1 /\ r.seq <= requests + 1 /\ (r.search <=> r.q.kw # 0)
      /\ \E e \in one : e.q = s[1] /\ e.seq = requests + 1 /\ (e.search <=> s[1].kw # 0)
      /\ \A r \in reqs : \E e \in one : e.search = r.search
  <2>1. reqs \in SUBSET PageRequests /\ requests + 1 \in Nat
    BY <1>2 DEF PagedInv, PagedAsked, PageRequests
  <2>2. PICK n \in Nat : n = requests + 1
    BY <2>1
  <2>3. PICK q \in Queries : q = s[1]
    BY <1>1
  <2>4. \A r \in reqs : r.id <= n /\ r.seq <= n /\ (r.search <=> r.q.kw # 0)
    BY <1>5, <2>2
  <2> HIDE DEF one
  <2>5. one = Paged!Sent(reqs, n, q)
    BY <2>2, <2>3 DEF one
  <2> QED
    BY <2>1, <2>2, <2>3, <2>4, <2>5, Sending
<1> HIDE DEF one
<1>7. CASE Len(s) = 1
  <2>1. reqs' = one /\ requests' = requests + 1
    BY <1>2, <1>7
  <2>2. \A i \in 1..Len(s) : i = 1
    BY <1>7
  <2>3. PagedAsked'
    BY <1>6, <2>1 DEF PagedAsked, PageRequests
  <2> QED
    BY <1>2, <1>3, <1>4, <1>6, <1>7, <2>1, <2>2, <2>3
<1>8. CASE Len(s) = 2
  <2>1. reqs' = two /\ requests' = requests + 2
    BY <1>2, <1>8
  <2>2. \A i \in 1..Len(s) : i = 1 \/ i = 2
    BY <1>8
  <2>3. \A r \in one : r.id <= requests + 2 /\ r.seq <= requests + 2 /\ (r.search <=> r.q.kw # 0)
    <3>1. \A r \in one : r.id \in Nat /\ r.seq \in Nat
      BY <1>6 DEF PageRequests
    <3> QED
      BY <1>2, <1>6, <3>1
  <2>4. /\ two \subseteq PageRequests
        /\ \A r \in two : r.id <= requests + 2 /\ r.seq <= requests + 2 /\ (r.search <=> r.q.kw # 0)
        /\ \E e \in two : e.q = s[2] /\ e.seq = requests + 2 /\ (e.search <=> s[2].kw # 0)
        /\ \A r \in one : \E e \in two : e.search = r.search
    <3>1. one \in SUBSET PageRequests /\ requests + 2 \in Nat /\ s[2] \in Queries
      BY <1>1, <1>2, <1>6, <1>8
    <3>2. PICK n \in Nat : n = requests + 2
      BY <3>1
    <3>3. PICK q \in Queries : q = s[2]
      BY <3>1
    <3>4. \A r \in one : r.id <= n /\ r.seq <= n /\ (r.search <=> r.q.kw # 0)
      BY <2>3, <3>2
    <3> HIDE DEF two
    <3>5. two = Paged!Sent(one, n, q)
      BY <3>2, <3>3 DEF two
    <3>6. /\ two \subseteq PageRequests
          /\ \A r \in two : r.id <= n /\ r.seq <= n /\ (r.search <=> r.q.kw # 0)
          /\ \E e \in two : e.q = q /\ e.seq = n /\ (e.search <=> q.kw # 0)
          /\ \A r \in one : \E e \in two : e.search = r.search
      BY <3>1, <3>4, <3>5, Sending
    <3> QED
      BY <3>2, <3>3, <3>6
  <2> HIDE DEF two
  <2>5. PagedAsked'
    BY <2>1, <2>4 DEF PagedAsked, PageRequests
  <2>6. \A r \in reqs : \E e \in two : e.search = r.search
    BY <1>6, <2>4
  <2>7. \E e \in two : e.search <=> s[1].kw # 0
    BY <1>6, <2>4
  <2>8. \E e \in two : e.search <=> s[2].kw # 0
    BY <2>4
  <2> QED
    BY <1>2, <1>3, <1>4, <1>8, <2>1, <2>2, <2>4, <2>5, <2>6, <2>7, <2>8
<1> QED
  BY <1>7, <1>8

-----------------------------------------------------------------------------
(* The invariant and its steps.                                            *)

LEMMA QueryTypes ==
  ASSUME NEW p \in PageNumbers, NEW z \in Sizes, NEW k \in {0, 1}
  PROVE  /\ Paged!Q(p, z, k) \in Queries
         /\ Paged!Q(p, z, k).page = p /\ Paged!Q(p, z, k).size = z /\ Paged!Q(p, z, k).kw = k
  BY DEF Paged!Q, Queries

\* A step that asks keeps the types, and has the requests for the flags it sets.
LEMMA AskStep ==
  ASSUME TablesAssumption, PagedInv, NEW s \in Seq(Queries), Len(s) = 1 \/ Len(s) = 2, Paged!Ask(s),
         table' = table, rows' = rows, form' \in {0, 1}, query' \in {0, 1},
         active' \in PageNumbers, size' \in Sizes, want' \in Queries, timer' = None \/ timer' \in Sizes,
         op' = op \/ (op' = None /\ op.kind # "copy")
  PROVE  PagedInv' /\ (PagedSpinning => PagedSpinning')
<1>1. /\ PagedAsked'
      /\ requests' \in Nat /\ requests' <= MaxRequests
      /\ mode' \in BOOLEAN /\ tableLoading' \in BOOLEAN /\ tableSearching' \in BOOLEAN /\ joined' \in BOOLEAN
      /\ \E e \in reqs' : e.seq = requests'
      /\ \A r \in reqs : \E e \in reqs' : e.search = r.search
      /\ tableLoading' => tableLoading \/ \E e \in reqs' : ~e.search \/ table.paging = "form"
      /\ tableSearching' => tableSearching \/ \E e \in reqs' : e.search /\ table.paging # "form"
  BY AskingSome
<1>2. PagedTypes'
  BY <1>1 DEF PagedInv, PagedTypes
<1>3. PagedSpinning => PagedSpinning'
  <2>1. CASE table.numbered
    BY <1>1, <2>1 DEF PagedSpinning
  <2>2. CASE ~table.numbered
    <3> SUFFICES ASSUME PagedSpinning PROVE PagedSpinning'
      OBVIOUS
    <3>1. tableLoading' => (\E e \in reqs' : ~e.search \/ table.paging = "form") \/ (op' # None /\ op'.kind = "copy")
      BY <1>1, <2>2 DEF PagedSpinning
    <3>2. tableSearching' => \E e \in reqs' : e.search /\ table.paging # "form"
      BY <1>1, <2>2 DEF PagedSpinning
    <3> QED
      BY <2>2, <3>1, <3>2 DEF PagedSpinning
  <2> QED
    BY <2>1, <2>2
<1> QED
  BY <1>1, <1>2, <1>3 DEF PagedInv

\* One request.
LEMMA AskOnce ==
  ASSUME NEW q \in Queries
  PROVE  <<q>> \in Seq(Queries) /\ Len(<<q>>) = 1
  OBVIOUS

\* A change of size asks once or twice.
LEMMA SizeAsks ==
  ASSUME NEW q \in Queries, NEW z, Paged!Q(1, z, 0) \in Queries
  PROVE  LET s == <<q>> \o Paged!SizeEffect(z) IN s \in Seq(Queries) /\ (Len(s) = 1 \/ Len(s) = 2)
<1>1. PICK a \in Queries : a = Paged!Q(1, z, 0)
  OBVIOUS
<1>2. CASE table.effect
  <2>1. Paged!SizeEffect(z) = <<a>>
    BY <1>1, <1>2 DEF Paged!SizeEffect
  <2> QED
    BY <2>1
<1>3. CASE ~table.effect
  <2>1. Paged!SizeEffect(z) = <<>>
    BY <1>3 DEF Paged!SizeEffect
  <2> QED
    BY <2>1
<1> QED
  BY <1>2, <1>3

LEMMA ClicksKeep ==
  ASSUME TablesAssumption, PagedInv,
         \/ Paged!Submit \/ Paged!ResetElapsed \/ Paged!OpRefreshes
         \/ (\E p \in PageNumbers : Paged!handlePageChange(p))
         \/ (\E z \in Sizes : Paged!handlePageSizeChange(z))
  PROVE  PagedInv' /\ (PagedSpinning => PagedSpinning')
<1>0. /\ table \in Paged!AllTables /\ form \in {0, 1} /\ query \in {0, 1} /\ active \in PageNumbers /\ size \in Sizes
      /\ want \in Queries /\ 1 \in PageNumbers /\ (timer = None \/ timer \in Sizes)
      /\ want.size \in Sizes /\ want.kw \in {0, 1}
      /\ (op = None \/ op \in [kind : OpKinds, rows : Queries, page : PageNumbers, size : Sizes])
  BY DEF PagedInv, PagedTypes, TablesAssumption, Queries
<1>1. CASE Paged!Submit
  <2>1. Paged!Q(1, size, form) \in Queries
    BY <1>0, QueryTypes
  <2>2. /\ Paged!Ask(<<Paged!Q(1, size, form)>>) /\ want' = Paged!Q(1, size, form)
        /\ query' \in {0, 1} /\ active' \in PageNumbers
        /\ UNCHANGED <<table, form, size, rows, timer, op>>
    BY <1>0, <1>1 DEF Paged!Submit
  <2> QED
    BY <1>0, <2>1, <2>2, AskOnce, AskStep
<1>2. CASE Paged!ResetElapsed
  <2> DEFINE q == Paged!Q(1, IF table.reset = "submit" THEN size ELSE timer,
                       IF table.reset = "load" THEN 0 ELSE form)
  <2>1. q \in Queries
    BY <1>0, <1>2, QueryTypes DEF Paged!ResetElapsed
  <2>2. /\ Paged!Ask(<<q>>) /\ query' \in {0, 1} /\ active' \in PageNumbers /\ want' = q /\ timer' = None
        /\ UNCHANGED <<table, form, size, rows, op>>
    BY <1>0, <1>2 DEF Paged!ResetElapsed
  <2> HIDE DEF q
  <2> QED
    BY <1>0, <2>1, <2>2, AskOnce, AskStep
<1>3. CASE Paged!OpRefreshes
  <2> DEFINE q == Paged!RefreshQuery(op.page, op.size)
  <2>1. op # None /\ op.kind # "copy" /\ op.page \in PageNumbers /\ op.size \in Sizes
    BY <1>0, <1>3 DEF Paged!OpRefreshes
  <2>2. q \in Queries
    BY <1>0, <2>1, QueryTypes, TableKinds DEF Paged!RefreshQuery
  <2>3. /\ Paged!Ask(<<q>>) /\ op' = None /\ want' = q
        /\ UNCHANGED <<table, form, query, active, size, rows, timer>>
    BY <1>3 DEF Paged!OpRefreshes
  <2> HIDE DEF q
  <2> QED
    BY <1>0, <2>1, <2>2, <2>3, AskOnce, AskStep
<1>4. ASSUME NEW p \in PageNumbers, Paged!handlePageChange(p)
      PROVE  PagedInv' /\ (PagedSpinning => PagedSpinning')
  <2> DEFINE q == Paged!PageQuery(p)
  <2>1. q \in Queries
    BY <1>0, QueryTypes, TableKinds DEF Paged!PageQuery
  <2>2. want' \in Queries
    BY <1>0, <1>4, QueryTypes DEF Paged!handlePageChange
  <2>3. /\ Paged!Ask(<<q>>) /\ active' \in PageNumbers
        /\ UNCHANGED <<table, form, query, size, rows, timer, op>>
    BY <1>0, <1>4 DEF Paged!handlePageChange
  <2> HIDE DEF q
  <2> QED
    BY <1>0, <2>1, <2>2, <2>3, AskOnce, AskStep
<1>5. ASSUME NEW z \in Sizes, Paged!handlePageSizeChange(z)
      PROVE  PagedInv' /\ (PagedSpinning => PagedSpinning')
  <2> DEFINE q == Paged!SizeQuery(z)
             s == <<q>> \o Paged!SizeEffect(z)
  <2>1. q \in Queries /\ Paged!Q(1, z, 0) \in Queries
    BY <1>0, QueryTypes, TableKinds DEF Paged!SizeQuery
  <2>2. want' \in Queries
    BY <1>0, <1>5, QueryTypes DEF Paged!handlePageSizeChange
  <2>3. /\ Paged!Ask(s) /\ active' \in PageNumbers /\ size' \in Sizes
        /\ UNCHANGED <<table, form, query, rows, timer, op>>
    BY <1>0, <1>5 DEF Paged!handlePageSizeChange
  <2> HIDE DEF q
  <2>4. s \in Seq(Queries) /\ (Len(s) = 1 \/ Len(s) = 2)
    BY <2>1, SizeAsks
  <2> HIDE DEF s
  <2> QED
    BY <1>0, <2>2, <2>3, <2>4, AskStep
<1> QED
  BY <1>1, <1>2, <1>3, <1>4, <1>5

\* Steps that ask for nothing and get no answer.
LEMMA QuietsKeep ==
  ASSUME TablesAssumption, PagedInv,
         \/ (\E k \in 0..1 : Paged!TypeKeyword(k)) \/ Paged!Reset \/ (\E kind \in OpKinds : Paged!StartOp(kind))
         \/ Paged!OpWritesCopy \/ Paged!OpUpdatesRows \/ UNCHANGED Paged!vars
  PROVE  PagedInv' /\ (PagedSpinning => PagedSpinning')
<1>1. table' = table /\ reqs' = reqs /\ requests' = requests
  BY DEF Paged!TypeKeyword, Paged!Reset, Paged!StartOp, Paged!OpWritesCopy, Paged!OpUpdatesRows,
     Paged!vars
<1>2. PagedAsked'
  BY <1>1 DEF PagedInv, PagedAsked
<1>3. CASE (\E k \in 0..1 : Paged!TypeKeyword(k)) \/ Paged!Reset \/ Paged!OpUpdatesRows \/ UNCHANGED Paged!vars
  <2>1. /\ UNCHANGED <<mode, query, active, size, rows, tableLoading, tableSearching, want, joined>>
        /\ form' \in {0, 1} /\ (timer' = None \/ timer' \in Sizes)
        /\ op' = op \/ (op' = None /\ op.kind # "copy")
    BY <1>3 DEF Paged!TypeKeyword, Paged!Reset, Paged!OpUpdatesRows, Paged!vars, PagedInv, PagedTypes
  <2>2. PagedTypes'
    BY <1>1, <2>1 DEF PagedInv, PagedTypes
  <2>3. PagedSpinning => PagedSpinning'
    BY <1>1, <2>1 DEF PagedSpinning
  <2> QED
    BY <1>2, <2>2, <2>3 DEF PagedInv
<1>4. ASSUME NEW kind \in OpKinds, Paged!StartOp(kind) PROVE PagedInv' /\ (PagedSpinning => PagedSpinning')
  <2>1. /\ UNCHANGED <<form, mode, query, active, size, rows, tableSearching, timer, want, joined>>
        /\ tableLoading' = (tableLoading \/ kind = "copy") /\ kind \in table.ops /\ rows # None
        /\ op' = [kind |-> kind, rows |-> rows, page |-> active, size |-> size] /\ op = None
    BY <1>4 DEF Paged!StartOp
  <2>2. op' \in [kind : OpKinds, rows : Queries, page : PageNumbers, size : Sizes] /\ op'.kind = kind
    BY <2>1 DEF PagedInv, PagedTypes
  <2>3. tableLoading' \in BOOLEAN /\ (tableLoading' => tableLoading \/ kind = "copy")
    BY <2>1 DEF PagedInv, PagedTypes
  <2>4. PagedTypes'
    BY <1>1, <2>1, <2>2, <2>3 DEF PagedInv, PagedTypes
  <2>5. table.numbered => kind # "copy"
    BY <2>1, TableKinds DEF PagedInv, PagedTypes, TablesAssumption
  <2>6. op' # None
    BY <2>1 DEF TablesAssumption
  <2>7. PagedSpinning => PagedSpinning'
    BY <1>1, <2>1, <2>2, <2>3, <2>5, <2>6 DEF PagedSpinning
  <2> QED
    BY <1>2, <2>4, <2>7 DEF PagedInv
<1>5. CASE Paged!OpWritesCopy
  <2>1. /\ UNCHANGED <<form, mode, query, active, size, tableSearching, timer, want, joined>>
        /\ tableLoading' = FALSE /\ op' = None /\ rows' = op.rows /\ op # None
    BY <1>5 DEF Paged!OpWritesCopy
  <2>2. rows' \in Queries
    BY <2>1 DEF PagedInv, PagedTypes
  <2>3. PagedTypes'
    BY <1>1, <2>1, <2>2 DEF PagedInv, PagedTypes
  <2>4. PagedSpinning => PagedSpinning'
    BY <1>1, <2>1 DEF PagedSpinning
  <2> QED
    BY <1>2, <2>3, <2>4 DEF PagedInv
<1> QED
  BY <1>3, <1>4, <1>5

\* An answer, or a failure that is caught, clears the flag of its request.
LEMMA Ending ==
  ASSUME PagedInv, NEW r \in reqs, ~Paged!Stale(r), Paged!EndsLoading(r), table' = table, op' = op,
         reqs' = reqs \ {r}, requests' = requests
  PROVE  /\ tableLoading' \in BOOLEAN /\ tableSearching' \in BOOLEAN
         /\ PagedSpinning => PagedSpinning'
<1>0. tableLoading \in BOOLEAN /\ tableSearching \in BOOLEAN
  BY DEF PagedInv, PagedTypes
<1>1. CASE table.numbered
  <2>1. tableLoading' = FALSE /\ tableSearching' = FALSE
    BY <1>1 DEF Paged!EndsLoading
  <2> QED
    BY <1>1, <2>1 DEF PagedSpinning
<1>2. CASE ~table.numbered /\ r.search /\ table.paging # "form"
  <2>1. tableLoading' = tableLoading /\ tableSearching' = FALSE
    BY <1>2 DEF Paged!EndsLoading, Paged!Stale
  <2> QED
    BY <1>0, <1>2, <2>1 DEF PagedSpinning
<1>3. CASE ~table.numbered /\ ~(r.search /\ table.paging # "form")
  <2>1. tableLoading' = FALSE /\ tableSearching' = tableSearching
    BY <1>3 DEF Paged!EndsLoading, Paged!Stale
  <2> QED
    BY <1>0, <1>3, <2>1 DEF PagedSpinning
<1> QED
  BY <1>1, <1>2, <1>3

\* The requests left over keep their form.
LEMMA Remaining ==
  ASSUME PagedInv, NEW r \in reqs, reqs' = reqs \ {r}, requests' = requests
  PROVE  PagedAsked'
  BY DEF PagedInv, PagedAsked

LEMMA AnswersKeep ==
  ASSUME TablesAssumption, PagedInv, NEW r \in reqs,
         Paged!AnswerOk(r) \/ Paged!AnswerStale(r) \/ Paged!AnswerRefused(r) \/ Paged!AnswerRejects(r)
  PROVE  PagedInv' /\ (Catching /\ PagedSpinning => PagedSpinning')
<1>0. /\ r \in PageRequests /\ r.q \in Queries /\ r.q.page \in PageNumbers /\ r.q.size \in Sizes /\ table \in Paged!AllTables
      /\ requests \in Nat /\ size \in Sizes /\ tableLoading \in BOOLEAN /\ tableSearching \in BOOLEAN
  BY DEF PagedInv, PagedTypes, PagedAsked, TablesAssumption, Queries, PageRequests
<1>1. CASE Paged!AnswerOk(r)
  <2>1. /\ ~Paged!Stale(r) /\ rows' = r.q /\ active' = r.q.page
        /\ size' = IF table.sized THEN r.q.size ELSE size
        /\ UNCHANGED <<table, form, query, timer, op, want>>
    BY <1>1 DEF Paged!AnswerOk, Paged!Pager
  <2>2. size' \in Sizes /\ active' \in PageNumbers /\ rows' \in Queries
    BY <1>0, <2>1
  <2>3. CASE table.effect /\ size' # size
    <3> DEFINE n == requests + 1
               q == Paged!Q(1, size', 0)
               R == reqs \ {r}
    <3>1. /\ n <= MaxRequests /\ reqs' = Paged!Sent(R, n, q) /\ requests' = n
          /\ joined' = (joined \/ \E s \in R : s.q = q)
          /\ tableLoading' = TRUE /\ tableSearching' = (tableSearching /\ ~r.search) /\ mode' = FALSE
      BY <1>1, <2>3 DEF Paged!AnswerOk
    <3>2. q \in Queries /\ q.kw = 0
      BY <2>2, QueryTypes DEF TablesAssumption
    <3>3. R \in SUBSET PageRequests /\ n \in Nat /\ \A e \in R : e.id <= n /\ e.seq <= n /\ (e.search <=> e.q.kw # 0)
      BY <1>0 DEF PagedInv, PagedAsked, PageRequests
    <3> HIDE DEF n, q, R
    <3>4. /\ reqs' \subseteq PageRequests
          /\ \A e \in reqs' : e.id <= n /\ e.seq <= n /\ (e.search <=> e.q.kw # 0)
          /\ \E e \in reqs' : e.q = q /\ (e.search <=> q.kw # 0)
          /\ \A s \in R : \E e \in reqs' : e.search = s.search
      BY <3>1, <3>2, <3>3, Sending
    <3>5. PagedAsked'
      BY <3>1, <3>4 DEF PagedAsked, PageRequests
    <3>6. /\ tableLoading' \in BOOLEAN /\ tableSearching' \in BOOLEAN /\ mode' \in BOOLEAN /\ joined' \in BOOLEAN
          /\ tableSearching' => tableSearching /\ ~r.search
      BY <1>0, <3>1 DEF PagedInv, PagedTypes
    <3>7. PagedTypes'
      BY <2>1, <2>2, <3>1, <3>3, <3>6 DEF PagedInv, PagedTypes
    <3>8. PagedSpinning => PagedSpinning'
      <4>1. ~table.numbered /\ table.paging # "form"
        BY <1>0, <2>3, TableKinds
      <4>2. \E e \in reqs' : ~e.search
        BY <3>2, <3>4
      <4>3. ASSUME PagedSpinning, tableSearching' PROVE \E e \in reqs' : e.search /\ table.paging # "form"
        <5>1. PICK s \in reqs : s.search
          BY <3>6, <4>1, <4>3 DEF PagedSpinning
        <5>2. s \in R
          BY <3>6, <4>3, <5>1 DEF R
        <5> QED
          BY <3>4, <4>1, <5>1, <5>2
      <4> QED
        BY <2>1, <4>1, <4>2, <4>3 DEF PagedSpinning
    <3> QED
      BY <3>5, <3>7, <3>8 DEF PagedInv
  <2>4. CASE ~(table.effect /\ size' # size)
    <3>1. /\ reqs' = reqs \ {r} /\ Paged!EndsLoading(r)
          /\ mode' = IF table.paging = "mode" /\ r.search THEN TRUE ELSE mode
          /\ UNCHANGED <<requests, joined>>
      BY <1>1, <2>4 DEF Paged!AnswerOk
    <3>2. PagedAsked'
      BY <3>1, Remaining
    <3>3. tableLoading' \in BOOLEAN /\ tableSearching' \in BOOLEAN /\ (PagedSpinning => PagedSpinning')
      BY <2>1, <3>1, Ending
    <3>4. mode' \in BOOLEAN
      BY <3>1 DEF PagedInv, PagedTypes
    <3>5. PagedTypes'
      BY <2>1, <2>2, <3>1, <3>3, <3>4 DEF PagedInv, PagedTypes
    <3> QED
      BY <3>2, <3>3, <3>5 DEF PagedInv
  <2> QED
    BY <2>3, <2>4
<1>2. CASE Paged!AnswerStale(r)
  <2>1. /\ Paged!Stale(r) /\ reqs' = reqs \ {r}
        /\ UNCHANGED <<table, form, mode, query, active, size, rows, requests, tableLoading, tableSearching, timer, op, want, joined>>
    BY <1>2 DEF Paged!AnswerStale
  <2>2. PagedAsked'
    BY <2>1, Remaining
  <2>3. PagedTypes'
    BY <2>1 DEF PagedInv, PagedTypes
  <2>4. table.numbered /\ r.seq # requests
    BY <2>1 DEF Paged!Stale
  <2>5. PagedSpinning => PagedSpinning'
    BY <2>1, <2>4 DEF PagedSpinning
  <2> QED
    BY <2>2, <2>3, <2>5 DEF PagedInv
<1>3. ASSUME Paged!Failed(r), tableLoading' \in BOOLEAN, tableSearching' \in BOOLEAN PROVE PagedInv'
  <2>1. /\ reqs' = reqs \ {r} /\ (rows' = None \/ rows' = rows)
        /\ UNCHANGED <<table, form, mode, query, active, size, requests, timer, op, want, joined>>
    BY <1>3 DEF Paged!Failed
  <2>2. PagedAsked'
    BY <2>1, Remaining
  <2>3. PagedTypes'
    BY <1>3, <2>1 DEF PagedInv, PagedTypes
  <2> QED
    BY <2>2, <2>3 DEF PagedInv
<1>4. ASSUME Paged!Failed(r), Paged!EndsLoading(r)
      PROVE  tableLoading' \in BOOLEAN /\ tableSearching' \in BOOLEAN /\ (PagedSpinning => PagedSpinning')
  <2>1. ~Paged!Stale(r) /\ reqs' = reqs \ {r} /\ table' = table /\ op' = op /\ requests' = requests
    BY <1>4 DEF Paged!Failed
  <2> QED
    BY <1>4, <2>1, Ending
<1>5. CASE Paged!AnswerRefused(r)
  BY <1>3, <1>4, <1>5 DEF Paged!AnswerRefused
<1>6. CASE Paged!AnswerRejects(r)
  <2>1. Paged!Failed(r) /\ "reject" \in Faults
    BY <1>6 DEF Paged!AnswerRejects
  <2>2. CASE table.guarded
    <3>1. Paged!EndsLoading(r)
      BY <1>6, <2>2 DEF Paged!AnswerRejects
    <3> QED
      BY <1>3, <1>4, <2>1, <3>1
  <2>3. CASE ~table.guarded
    <3>1. UNCHANGED <<tableLoading, tableSearching>>
      BY <1>6, <2>3 DEF Paged!AnswerRejects
    <3>2. PagedInv'
      BY <1>0, <1>3, <2>1, <3>1
    <3>3. ~Catching
      BY <2>1, <2>3 DEF Catching, PagedInv, PagedTypes
    <3> QED
      BY <3>2, <3>3
  <2> QED
    BY <2>2, <2>3
<1> QED
  BY <1>1, <1>2, <1>5, <1>6

LEMMA PagedInit == ASSUME TablesAssumption PROVE Paged!Init => PagedInv /\ PagedSpinning
<1> SUFFICES ASSUME Paged!Init PROVE PagedInv /\ PagedSpinning
  OBVIOUS
<1>1. PICK z \in Sizes : z = Paged!Min(Sizes)
  BY DEF TablesAssumption, Paged!Min
<1>2. Paged!Q(1, z, 0) \in Queries
  BY QueryTypes DEF TablesAssumption
<1>3. PagedTypes
  <2>1. /\ form = 0 /\ query = 0 /\ active = 1 /\ size = z /\ rows = Paged!Q(1, z, 0) /\ want = rows /\ table \in Tables
        /\ requests = 0 /\ timer = None /\ op = None
    BY <1>1 DEF Paged!Init
  <2>2. mode \in BOOLEAN /\ tableLoading \in BOOLEAN /\ tableSearching \in BOOLEAN /\ joined \in BOOLEAN
    BY Zenon DEF Paged!Init
  <2> QED
    BY <1>2, <2>1, <2>2 DEF PagedTypes, TablesAssumption
<1>4. PagedAsked
  BY DEF Paged!Init, PagedAsked
<1>5. PagedSpinning
  BY DEF Paged!Init, PagedSpinning
<1> QED
  BY <1>3, <1>4, <1>5 DEF PagedInv

LEMMA PagedStep ==
  ASSUME TablesAssumption
  PROVE  PagedInv /\ [Paged!Next]_Paged!vars => PagedInv' /\ (Catching /\ PagedSpinning => PagedSpinning')
  BY ClicksKeep, QuietsKeep, AnswersKeep DEF Paged!Next, OpKinds

LEMMA PagedHolds == ASSUME TablesAssumption PROVE Paged!Spec => []PagedInv
<1>1. Paged!Init => PagedInv
  BY PagedInit
<1>2. PagedInv /\ [Paged!Next]_Paged!vars => PagedInv'
  BY PagedStep
<1> QED
  BY <1>1, <1>2, PTL DEF Paged!Spec

\* The tables' state has its types, whatever is clicked and in whichever order answers come (the
\* hooks use...Data).
THEOREM TablesTypes == ASSUME TablesAssumption PROVE Paged!Spec => []Paged!TypeOK
<1>1. PagedInv => Paged!TypeOK
  BY DEF TablesAssumption, PagedInv, PagedTypes, PagedAsked, Queries, Paged!TypeOK
<1> QED
  BY <1>1, PagedHolds, PTL

\* When nothing is under way no spinner turns, in the tables that catch what their requests throw
\* and, if nothing is thrown, in every table (setLoading and setSearching in the hooks).
THEOREM SpinnersEnd == ASSUME TablesAssumption, Catching PROVE Paged!Spec => []Paged!SpinnerEnds
<1>1. Paged!Init => PagedSpinning
  BY PagedInit
<1>2. PagedInv /\ PagedSpinning /\ [Paged!Next]_Paged!vars => PagedSpinning'
  BY PagedStep
<1>3. PagedInv /\ PagedSpinning => Paged!SpinnerEnds
  BY DEF PagedSpinning, Paged!SpinnerEnds, Paged!Idle
<1> QED
  BY <1>1, <1>2, <1>3, PagedHolds, PTL DEF Paged!Spec

-----------------------------------------------------------------------------
(* The pager and the rows.                                                 *)

Matched == rows # None => rows.page = active /\ rows.size = size

\* Where answers bring page and size, the pager is theirs; the deployments' pager moves with the
\* click and belongs to the last request, whose answer alone counts.
Matching ==
  /\ op = None
  /\ IF table.sized
     THEN reqs = {} \/ table \in Paged!Faithful => Matched
     ELSE /\ \A r \in reqs : r.seq = requests => r.q.page = active /\ r.q.size = size
          /\ (\A r \in reqs : r.seq # requests) => Matched

\* No operations, and nothing fails or the tables are those that keep to the last request.
Moving == ~Operations /\ Tables \subseteq Paged!AnswerPaged /\ (Faults = {} \/ Tables \subseteq Paged!Faithful)

LEMMA PagedKinds ==
  ASSUME NEW t \in Paged!AnswerPaged
  PROVE  /\ t.sized => t # Paged!useDeploymentsData /\ ~t.numbered
         /\ t.sized /\ t \in Paged!Faithful => ~t.moves /\ t.sizing = "form" /\ t.paging = "form" /\ t # Paged!useUsageLogsData
         /\ ~t.sized => /\ t.moves /\ t.numbered /\ ~t.effect /\ t.clears
                        /\ t.paging = "query" /\ t.sizing = "query" /\ t.reset = "submit"
<1>1. CASE t = Paged!useTokensData
  <2>1. t.sized /\ t.paging = "mode" /\ ~t.numbered
    BY <1>1 DEF Paged!useTokensData, Paged!Table
  <2>2. \A u \in Paged!Faithful : u.paging # "mode"
    BY DEF Paged!Faithful, Paged!useDeploymentsData, Paged!useTaskLogsData, Paged!useMjLogsData,
       Paged!Table
  <2>3. ~Paged!useDeploymentsData.sized
    BY DEF Paged!useDeploymentsData, Paged!Table
  <2> QED
    BY <2>1, <2>2, <2>3
<1>2. CASE t = Paged!useUsageLogsData
  <2>1. t.sized /\ t.sizing = "sameForm" /\ ~t.numbered
    BY <1>2 DEF Paged!useUsageLogsData, Paged!Table
  <2>2. \A u \in Paged!Faithful : u.sizing # "sameForm"
    BY DEF Paged!Faithful, Paged!useDeploymentsData, Paged!useTaskLogsData, Paged!useMjLogsData,
       Paged!Table
  <2>3. ~Paged!useDeploymentsData.sized
    BY DEF Paged!useDeploymentsData, Paged!Table
  <2> QED
    BY <2>1, <2>2, <2>3
<1>3. CASE t = Paged!useTaskLogsData \/ t = Paged!useMjLogsData
  <2>1. t.sized /\ ~t.numbered /\ ~t.moves /\ t.sizing = "form" /\ t.paging = "form"
    BY <1>3 DEF Paged!useMjLogsData, Paged!useTaskLogsData, Paged!Table
  <2>2. Paged!useUsageLogsData.sizing = "sameForm" /\ ~Paged!useDeploymentsData.sized
    BY DEF Paged!useUsageLogsData, Paged!useDeploymentsData, Paged!Table
  <2> QED
    BY <2>1, <2>2
<1>4. CASE t = Paged!useDeploymentsData
  BY <1>4 DEF Paged!useDeploymentsData, Paged!Table, Paged!DeploymentsFilters
<1> QED
  BY <1>1, <1>2, <1>3, <1>4 DEF Paged!AnswerPaged

\* A step that asks once.
LEMMA AskingOne ==
  ASSUME PagedInv, NEW q \in Queries, Paged!Ask(<<q>>)
  PROVE  /\ requests' = requests + 1
         /\ \A e \in reqs' : (e.q = q /\ e.seq = requests') \/ (e \in reqs /\ e.q # q)
         /\ \E e \in reqs' : e.seq = requests'
         /\ ~joined' => /\ ~joined
                        /\ reqs' = reqs \cup {[id |-> requests', q |-> q, seq |-> requests', search |-> q.kw # 0]}
<1>1. requests' = requests + 1 /\ requests \in Nat /\ reqs' = Paged!Sent(reqs, requests + 1, q)
  BY DEF Paged!Ask, PagedInv, PagedTypes
<1>2. joined' = (joined \/ \E r \in reqs : r.q = q)
  <2>1. DOMAIN <<q>> = {1} /\ <<q>>[1] = q
    OBVIOUS
  <2> QED
    BY <2>1 DEF Paged!Ask
<1>3. PICK n \in Nat : n = requests + 1
  BY <1>1
<1>4. reqs \in SUBSET PageRequests /\ \A r \in reqs : r.id <= n /\ r.seq <= n /\ (r.search <=> r.q.kw # 0)
  BY <1>1, <1>3 DEF PagedInv, PagedAsked, PageRequests
<1>5. reqs' = Paged!Sent(reqs, n, q) /\ requests' = n
  BY <1>1, <1>3
<1>6. /\ \A e \in reqs' : (e.q = q /\ e.seq = n) \/ (e \in reqs /\ e.q # q)
      /\ \E e \in reqs' : e.seq = n
      /\ (\A r \in reqs : r.q # q) => reqs' = reqs \cup {[id |-> n, q |-> q, seq |-> n, search |-> q.kw # 0]}
  BY <1>4, <1>5, Sending
<1>7. ~joined' => ~joined /\ \A r \in reqs : r.q # q
  BY <1>2
<1> QED
  BY <1>1, <1>5, <1>6, <1>7

\* Where the answer brings page and size, a click that moves the pager asks.
LEMMA MatchingSized ==
  ASSUME TablesAssumption, Moving, PagedInv, Matching, table.sized, [Paged!Next]_Paged!vars
  PROVE  Matching'
<1>0. /\ table \in Paged!AnswerPaged /\ table \in Paged!AllTables /\ op = None /\ table # Paged!useDeploymentsData
      /\ (table \in Paged!Faithful => ~table.moves /\ table.sizing = "form" /\ table.paging = "form" /\ table # Paged!useUsageLogsData)
  BY PagedKinds DEF Moving, PagedInv, PagedTypes, Matching, TablesAssumption
<1>1. ASSUME table' = table, op' = op, reqs' # {},
             table \in Paged!Faithful => UNCHANGED <<rows, active, size>>
      PROVE  Matching'
  BY <1>0, <1>1 DEF Matching, Matched
<1>2. ASSUME NEW s \in Seq(Queries), Len(s) = 1 \/ Len(s) = 2, Paged!Ask(s) PROVE reqs' # {}
  BY <1>2, AskingSome
<1>3. CASE Paged!Submit
  <2>1. Paged!Q(1, size, form) \in Queries
    BY QueryTypes DEF PagedInv, PagedTypes, TablesAssumption
  <2>2. Paged!Ask(<<Paged!Q(1, size, form)>>)
    BY <1>3 DEF Paged!Submit
  <2>3. reqs' # {}
    BY <1>2, <2>1, <2>2, AskOnce
  <2> QED
    BY <1>0, <1>1, <1>3, <2>3 DEF Paged!Submit
<1>4. CASE Paged!ResetElapsed
  <2> DEFINE q == Paged!Q(1, IF table.reset = "submit" THEN size ELSE timer,
                       IF table.reset = "load" THEN 0 ELSE form)
  <2>1. q \in Queries
    BY <1>4, QueryTypes DEF Paged!ResetElapsed, PagedInv, PagedTypes, TablesAssumption
  <2>2. Paged!Ask(<<q>>)
    BY <1>4 DEF Paged!ResetElapsed
  <2>3. reqs' # {}
    BY <1>2, <2>1, <2>2, AskOnce
  <2> QED
    BY <1>0, <1>1, <1>4, <2>3 DEF Paged!ResetElapsed
<1>5. ASSUME NEW p \in PageNumbers, Paged!handlePageChange(p) PROVE Matching'
  <2> DEFINE q == Paged!PageQuery(p)
  <2>1. q \in Queries
    BY <1>0, QueryTypes, TableKinds DEF Paged!PageQuery, PagedInv, PagedTypes, TablesAssumption
  <2>2. Paged!Ask(<<q>>)
    BY <1>5 DEF Paged!handlePageChange
  <2> HIDE DEF q
  <2>3. reqs' # {}
    BY <1>2, <2>1, <2>2, AskOnce
  <2> QED
    BY <1>0, <1>1, <1>5, <2>3 DEF Paged!handlePageChange
<1>6. ASSUME NEW z \in Sizes, Paged!handlePageSizeChange(z) PROVE Matching'
  <2> DEFINE q == Paged!SizeQuery(z)
             s == <<q>> \o Paged!SizeEffect(z)
  <2>1. q \in Queries /\ Paged!Q(1, z, 0) \in Queries
    BY <1>0, QueryTypes, TableKinds DEF Paged!SizeQuery, PagedInv, PagedTypes, TablesAssumption
  <2>2. Paged!Ask(s)
    BY <1>6 DEF Paged!handlePageSizeChange
  <2>3. s \in Seq(Queries) /\ (Len(s) = 1 \/ Len(s) = 2)
    BY <2>1, SizeAsks
  <2> HIDE DEF s
  <2>4. reqs' # {}
    BY <1>2, <2>2, <2>3
  <2> QED
    BY <1>0, <1>1, <1>6, <2>4 DEF Paged!handlePageSizeChange
<1>7. CASE \/ (\E k \in 0..1 : Paged!TypeKeyword(k)) \/ Paged!Reset \/ UNCHANGED Paged!vars
  <2>1. UNCHANGED <<table, op, reqs, rows, active, size>>
    BY <1>7 DEF Paged!TypeKeyword, Paged!Reset, Paged!vars
  <2> QED
    BY <2>1, <1>0 DEF Matching, Matched
<1>8. CASE \/ (\E kind \in OpKinds : Paged!StartOp(kind))
           \/ Paged!OpWritesCopy \/ Paged!OpUpdatesRows \/ Paged!OpRefreshes
  BY <1>0, <1>8 DEF Paged!StartOp, Paged!OpWritesCopy, Paged!OpUpdatesRows, Paged!OpRefreshes, Moving
<1>9. ASSUME NEW r \in reqs, Paged!AnswerOk(r) PROVE Matching'
  <2>1. /\ table' = table /\ op' = op /\ rows' = r.q /\ active' = r.q.page /\ size' = r.q.size
    BY <1>9 DEF Paged!AnswerOk, Paged!Pager
  <2> QED
    BY <1>0, <2>1 DEF Matching, Matched
<1>10. ASSUME NEW r \in reqs, Paged!AnswerStale(r) \/ Paged!AnswerRefused(r) \/ Paged!AnswerRejects(r)
       PROVE  Matching'
  <2>1. CASE Paged!AnswerStale(r)
    <3>1. ~table.numbered
      BY <1>0, PagedKinds
    <3> QED
      BY <2>1, <3>1 DEF Paged!AnswerStale, Paged!Stale
  <2>2. CASE Paged!AnswerRefused(r) \/ Paged!AnswerRejects(r)
    <3>1. Faults # {} /\ Paged!Failed(r)
      BY <2>2 DEF Paged!AnswerRefused, Paged!AnswerRejects
    <3>2. table \in Paged!Faithful
      BY <3>1 DEF Moving, PagedInv, PagedTypes
    <3>3. UNCHANGED <<table, op, active, size>> /\ (rows' = None \/ rows' = rows)
      BY <3>1 DEF Paged!Failed
    <3> QED
      BY <1>0, <3>2, <3>3 DEF Matching, Matched
  <2> QED
    BY <1>10, <2>1, <2>2
<1> QED
  BY <1>3, <1>4, <1>5, <1>6, <1>7, <1>8, <1>9, <1>10 DEF Paged!Next, OpKinds

\* The deployments: every click moves the pager and asks for the page and size it moves to.
LEMMA MatchingNumbered ==
  ASSUME TablesAssumption, Moving, PagedInv, Matching, ~table.sized, [Paged!Next]_Paged!vars
  PROVE  Matching'
<1>0. /\ table \in Paged!AllTables /\ op = None /\ table.moves /\ table.numbered /\ ~table.effect /\ table.clears
      /\ table.paging = "query" /\ table.sizing = "query" /\ table.reset = "submit"
      /\ \A r \in reqs : r.seq \in Nat /\ r.seq <= requests
      /\ requests \in Nat /\ form \in {0, 1} /\ query \in {0, 1} /\ size \in Sizes /\ 1 \in PageNumbers
  BY PagedKinds DEF Moving, PagedInv, PagedTypes, PagedAsked, Matching, TablesAssumption
<1>1. ASSUME NEW p \in PageNumbers, NEW z \in Sizes, NEW k \in {0, 1}, Paged!Ask(<<Paged!Q(p, z, k)>>),
             table' = table, op' = op, active' = p, size' = z
      PROVE  Matching'
  <2> DEFINE q == Paged!Q(p, z, k)
  <2>1. q \in Queries /\ q.page = p /\ q.size = z
    BY QueryTypes
  <2>2. Paged!Ask(<<q>>)
    BY <1>1
  <2> HIDE DEF q
  <2>3. /\ requests' = requests + 1
        /\ \A e \in reqs' : (e.q = q /\ e.seq = requests') \/ (e \in reqs /\ e.q # q)
        /\ \E e \in reqs' : e.seq = requests'
    BY <2>1, <2>2, AskingOne
  <2>4. \A e \in reqs' : e.seq = requests' => e.q = q
    BY <1>0, <2>3
  <2> QED
    BY <1>0, <1>1, <2>1, <2>3, <2>4 DEF Matching
<1>2. CASE Paged!Submit
  <2>1. Paged!Ask(<<Paged!Q(1, size, form)>>) /\ active' = 1 /\ UNCHANGED <<table, size, op>>
    BY <1>0, <1>2 DEF Paged!Submit
  <2> QED
    BY <1>0, <1>1, <2>1
<1>3. CASE Paged!ResetElapsed
  <2>1. Paged!Ask(<<Paged!Q(1, size, form)>>) /\ active' = 1 /\ UNCHANGED <<table, size, op>>
    BY <1>0, <1>3 DEF Paged!ResetElapsed
  <2> QED
    BY <1>0, <1>1, <2>1
<1>4. ASSUME NEW p \in PageNumbers, Paged!handlePageChange(p) PROVE Matching'
  <2>1. Paged!PageQuery(p) = Paged!Q(p, size, query)
    BY <1>0 DEF Paged!PageQuery
  <2>2. Paged!Ask(<<Paged!Q(p, size, query)>>) /\ active' = p /\ UNCHANGED <<table, size, op>>
    BY <1>0, <1>4, <2>1 DEF Paged!handlePageChange
  <2> QED
    BY <1>0, <1>1, <2>2
<1>5. ASSUME NEW z \in Sizes, Paged!handlePageSizeChange(z) PROVE Matching'
  <2>1. Paged!SizeQuery(z) = Paged!Q(1, z, query)
    BY <1>0 DEF Paged!SizeQuery
  <2>2. Paged!SizeEffect(z) = <<>> /\ <<Paged!SizeQuery(z)>> \o <<>> = <<Paged!SizeQuery(z)>>
    BY <1>0 DEF Paged!SizeEffect
  <2>3. Paged!Ask(<<Paged!Q(1, z, query)>>) /\ active' = 1 /\ size' = z /\ UNCHANGED <<table, op>>
    BY <1>0, <1>5, <2>1, <2>2 DEF Paged!handlePageSizeChange
  <2> QED
    BY <1>0, <1>1, <2>3
<1>6. CASE (\E k \in 0..1 : Paged!TypeKeyword(k)) \/ Paged!Reset \/ UNCHANGED Paged!vars
  <2>1. UNCHANGED <<table, op, reqs, rows, active, size, requests>>
    BY <1>6 DEF Paged!TypeKeyword, Paged!Reset, Paged!vars
  <2> QED
    BY <2>1, <1>0 DEF Matching, Matched
<1>7. CASE \/ (\E kind \in OpKinds : Paged!StartOp(kind))
           \/ Paged!OpWritesCopy \/ Paged!OpUpdatesRows \/ Paged!OpRefreshes
  BY <1>0, <1>7 DEF Paged!StartOp, Paged!OpWritesCopy, Paged!OpUpdatesRows, Paged!OpRefreshes, Moving
<1>8. ASSUME NEW r \in reqs, Paged!AnswerOk(r) PROVE Matching'
  <2>1. /\ r.seq = requests /\ rows' = r.q /\ active' = r.q.page
        /\ UNCHANGED <<table, size, op, requests>> /\ reqs' = reqs \ {r}
    BY <1>0, <1>8 DEF Paged!AnswerOk, Paged!Pager, Paged!Stale
  <2>2. r.q.page = active /\ r.q.size = size
    BY <2>1 DEF Matching
  <2> QED
    BY <1>0, <2>1, <2>2 DEF Matching, Matched
<1>9. ASSUME NEW r \in reqs, Paged!AnswerStale(r) PROVE Matching'
  <2>1. r.seq # requests /\ UNCHANGED <<table, active, size, rows, op, requests>> /\ reqs' = reqs \ {r}
    BY <1>9 DEF Paged!AnswerStale, Paged!Stale
  <2> QED
    BY <1>0, <2>1 DEF Matching, Matched
<1>10. ASSUME NEW r \in reqs, Paged!AnswerRefused(r) \/ Paged!AnswerRejects(r) PROVE Matching'
  <2>1. rows' = None /\ UNCHANGED <<table, active, size, op, requests>> /\ reqs' = reqs \ {r}
    BY <1>0, <1>10 DEF Paged!AnswerRefused, Paged!AnswerRejects, Paged!Failed
  <2> QED
    BY <1>0, <2>1 DEF Matching, Matched
<1> QED
  BY <1>2, <1>3, <1>4, <1>5, <1>6, <1>7, <1>8, <1>9, <1>10 DEF Paged!Next, OpKinds

\* When nothing is under way the pager names the page and the size of the rows above it, in
\* whichever order the answers came: for the tables whose answers set the pager if nothing fails,
\* and for the deployments and the task and Midjourney logs whatever fails (setActivePage and
\* setPageSize in the hooks).
THEOREM PagersNameTheirRows == ASSUME TablesAssumption, Moving PROVE Paged!Spec => []Paged!PagerMatchesRows
<1>1. Paged!Init => Matching
  <2> SUFFICES ASSUME Paged!Init PROVE Matching
    OBVIOUS
  <2>1. /\ op = None /\ reqs = {} /\ active = 1 /\ size = Paged!Min(Sizes) /\ rows = Paged!Q(1, Paged!Min(Sizes), 0)
    BY DEF Paged!Init
  <2>2. rows.page = active /\ rows.size = size
    BY <2>1 DEF Paged!Q
  <2> QED
    BY <2>1, <2>2 DEF Matching, Matched
<1>2. PagedInv /\ Matching /\ [Paged!Next]_Paged!vars => Matching'
  BY MatchingSized, MatchingNumbered
<1>3. Matching => Paged!PagerMatchesRows
  BY DEF Matching, Matched, Paged!PagerMatchesRows, Paged!Idle
<1> QED
  BY <1>1, <1>2, <1>3, PagedHolds, PTL DEF Paged!Spec

-----------------------------------------------------------------------------
(* What the user asked for.                                                *)

\* The last request is for what the user wants; without one it is shown.
Showing ==
  /\ op = None
  /\ table.numbered => want.size = size /\ want.kw = query
  /\ ~joined =>
       /\ \A r \in reqs : r.id = r.seq
       /\ \A r, e \in reqs : r.id = e.id => r = e
       /\ reqs # {} => \E r \in reqs : r.id = requests
       /\ \A r \in reqs : r.id = requests => r.q = want
       /\ reqs = {} => rows = want

\* Answers come in the order of the requests and nothing fails.
Serving == InOrder /\ ~Operations /\ Faults = {} /\ Tables \subseteq Paged!Faithful

LEMMA FaithfulKinds ==
  ASSUME NEW t \in Paged!Faithful
  PROVE  /\ ~t.effect
         /\ t.numbered => t.paging = "query" /\ t.sizing = "query" /\ t.reset = "submit" /\ ~t.sized
         /\ ~t.numbered => t.paging = "form" /\ t.sizing = "form" /\ t.reset = "search"
<1>1. CASE t = Paged!useDeploymentsData
  BY <1>1 DEF Paged!useDeploymentsData, Paged!Table, Paged!DeploymentsFilters
<1>2. CASE t = Paged!useTaskLogsData
  BY <1>2 DEF Paged!useTaskLogsData, Paged!Table, Paged!TaskLogsFilters
<1>3. CASE t = Paged!useMjLogsData
  BY <1>3 DEF Paged!useMjLogsData, Paged!useTaskLogsData, Paged!Table, Paged!MjLogsFilters
<1> QED
  BY <1>1, <1>2, <1>3 DEF Paged!Faithful

LEMMA ShowingStep ==
  ASSUME TablesAssumption, Serving, PagedInv, Showing, [Paged!Next]_Paged!vars
  PROVE  Showing'
<1>0. /\ table \in Paged!AllTables /\ op = None /\ ~table.effect
      /\ table.numbered => table.paging = "query" /\ table.sizing = "query" /\ table.reset = "submit" /\ ~table.sized
      /\ ~table.numbered => table.paging = "form" /\ table.sizing = "form" /\ table.reset = "search"
      /\ \A r \in reqs : r.seq \in Nat /\ r.id \in Nat /\ r.id <= requests
      /\ requests \in Nat /\ form \in {0, 1} /\ query \in {0, 1} /\ size \in Sizes /\ 1 \in PageNumbers
      /\ (timer = None \/ timer \in Sizes)
  BY FaithfulKinds DEF Serving, PagedInv, PagedTypes, PagedAsked, Showing, TablesAssumption
<1>1. ASSUME NEW p \in PageNumbers, NEW z \in Sizes, NEW k \in {0, 1},
             Paged!Ask(<<Paged!Q(p, z, k)>>), want' = Paged!Q(p, z, k), table' = table, op' = op, rows' = rows, table.numbered => size' = z /\ query' = k
      PROVE  Showing'
  <2> DEFINE q == Paged!Q(p, z, k)
             new == [id |-> requests', q |-> q, seq |-> requests', search |-> q.kw # 0]
  <2>1. q \in Queries /\ q.size = z /\ q.kw = k
    BY QueryTypes
  <2>2. Paged!Ask(<<q>>) /\ want' = q
    BY <1>1
  <2> HIDE DEF q
  <2>3. requests' = requests + 1 /\ (~joined' => ~joined /\ reqs' = reqs \cup {new})
    BY <2>1, <2>2, AskingOne
  <2>4. new.id = requests' /\ new.q = q /\ new.seq = requests'
    OBVIOUS
  <2> HIDE DEF new
  <2>5. ASSUME ~joined'
        PROVE  /\ \A r \in reqs' : r.id = r.seq
               /\ \A r, e \in reqs' : r.id = e.id => r = e
               /\ \E r \in reqs' : r.id = requests'
               /\ \A r \in reqs' : r.id = requests' => r.q = want'
    <3>1. ~joined /\ reqs' = reqs \cup {new}
      BY <2>3, <2>5
    <3>2. \A r \in reqs : r.id # requests'
      BY <1>0, <2>3
    <3>3. (\A r \in reqs : r.id = r.seq) /\ (\A r, e \in reqs : r.id = e.id => r = e)
      BY <3>1 DEF Showing
    <3> QED
      BY <2>2, <2>4, <3>1, <3>2, <3>3
  <2>6. table.numbered => want'.size = size' /\ want'.kw = query'
    BY <1>1, <2>1, <2>2
  <2> QED
    BY <1>0, <1>1, <2>5, <2>6 DEF Showing
<1>2. CASE Paged!Submit
  <2>1. /\ Paged!Ask(<<Paged!Q(1, size, form)>>) /\ want' = Paged!Q(1, size, form)
        /\ UNCHANGED <<table, size, op, rows>> /\ (table.numbered => query' = form)
    BY <1>0, <1>2 DEF Paged!Submit
  <2> QED
    BY <1>0, <1>1, <2>1
<1>3. CASE Paged!ResetElapsed
  <2>1. PICK z \in Sizes : z = IF table.reset = "submit" THEN size ELSE timer
    BY <1>0, <1>3 DEF Paged!ResetElapsed
  <2>2. table.numbered => z = size
    BY <1>0, <2>1
  <2>3. /\ Paged!Ask(<<Paged!Q(1, z, form)>>) /\ want' = Paged!Q(1, z, form)
        /\ UNCHANGED <<table, size, op, rows>> /\ (table.numbered => query' = form)
    BY <1>0, <1>3, <2>1 DEF Paged!ResetElapsed
  <2> QED
    BY <1>0, <1>1, <2>2, <2>3
<1>4. ASSUME NEW p \in PageNumbers, Paged!handlePageChange(p) PROVE Showing'
  <2>1. PICK k \in {0, 1} : k = IF table.numbered THEN query ELSE form
    BY <1>0
  <2>2. Paged!PageQuery(p) = Paged!Q(p, size, k)
    BY <1>0, <2>1 DEF Paged!PageQuery
  <2>3. want' = Paged!Q(p, size, k)
    BY <1>0, <1>4, <2>1 DEF Paged!handlePageChange, Showing
  <2>4. Paged!Ask(<<Paged!Q(p, size, k)>>) /\ UNCHANGED <<table, size, op, rows, query>>
    BY <1>4, <2>2 DEF Paged!handlePageChange
  <2> QED
    BY <1>0, <1>1, <2>1, <2>3, <2>4
<1>5. ASSUME NEW z \in Sizes, Paged!handlePageSizeChange(z) PROVE Showing'
  <2>1. PICK k \in {0, 1} : k = IF table.numbered THEN query ELSE form
    BY <1>0
  <2>2. Paged!SizeQuery(z) = Paged!Q(1, z, k)
    BY <1>0, <2>1 DEF Paged!SizeQuery
  <2>3. want' = Paged!Q(1, z, k)
    BY <1>0, <1>5, <2>1 DEF Paged!handlePageSizeChange, Showing
  <2>4. Paged!SizeEffect(z) = <<>> /\ <<Paged!SizeQuery(z)>> \o <<>> = <<Paged!SizeQuery(z)>>
    BY <1>0 DEF Paged!SizeEffect
  <2>5. Paged!Ask(<<Paged!Q(1, z, k)>>) /\ UNCHANGED <<table, op, rows, query>> /\ (table.numbered => size' = z)
    BY <1>0, <1>5, <2>2, <2>4 DEF Paged!handlePageSizeChange
  <2> QED
    BY <1>0, <1>1, <2>1, <2>3, <2>5
<1>6. CASE (\E k \in 0..1 : Paged!TypeKeyword(k)) \/ Paged!Reset \/ UNCHANGED Paged!vars
  <2>1. UNCHANGED <<table, op, reqs, rows, query, size, requests, want, joined>>
    BY <1>6 DEF Paged!TypeKeyword, Paged!Reset, Paged!vars
  <2> QED
    BY <2>1 DEF Showing
<1>7. CASE \/ (\E kind \in OpKinds : Paged!StartOp(kind))
           \/ Paged!OpWritesCopy \/ Paged!OpUpdatesRows \/ Paged!OpRefreshes
  BY <1>0, <1>7 DEF Paged!StartOp, Paged!OpWritesCopy, Paged!OpUpdatesRows, Paged!OpRefreshes, Serving
<1>8. ASSUME NEW r \in reqs, Paged!AnswerOk(r) PROVE Showing'
  <2>1. /\ \A s \in reqs : s.id >= r.id
        /\ rows' = r.q /\ reqs' = reqs \ {r}
        /\ UNCHANGED <<table, query, op, requests, want, joined>> /\ (table.numbered => size' = size)
    BY <1>0, <1>8 DEF Paged!AnswerOk, Paged!First, Paged!Pager, Serving
  <2>2. ASSUME ~joined
        PROVE  /\ reqs' # {} => \E s \in reqs' : s.id = requests
               /\ reqs' = {} => rows' = want
    <3>1. PICK s \in reqs : s.id = requests
      BY <2>2 DEF Showing
    <3>2. CASE s = r
      <4>1. \A e \in reqs : e.id = requests
        BY <1>0, <2>1, <3>1, <3>2
      <4>2. reqs' = {} /\ r.q = want
        BY <2>1, <2>2, <3>1, <3>2, <4>1 DEF Showing
      <4> QED
        BY <2>1, <4>2
    <3>3. CASE s # r
      BY <2>1, <3>1, <3>3
    <3> QED
      BY <3>2, <3>3
  <2> QED
    BY <2>1, <2>2 DEF Showing
<1>9. ASSUME NEW r \in reqs, Paged!AnswerStale(r) PROVE Showing'
  <2>1. /\ r.seq # requests /\ reqs' = reqs \ {r}
        /\ UNCHANGED <<table, query, size, rows, op, requests, want, joined>>
    BY <1>9 DEF Paged!AnswerStale, Paged!Stale
  <2>2. ~joined => \E s \in reqs' : s.id = requests
    BY <2>1 DEF Showing
  <2> QED
    BY <2>1, <2>2 DEF Showing
<1>10. ASSUME NEW r \in reqs, Paged!AnswerRefused(r) \/ Paged!AnswerRejects(r) PROVE Showing'
  BY <1>10 DEF Paged!AnswerRefused, Paged!AnswerRejects, Serving
<1> QED
  BY <1>2, <1>3, <1>4, <1>5, <1>6, <1>7, <1>8, <1>9, <1>10 DEF Paged!Next, OpKinds

\* With answers in order, the deployments and the task and Midjourney logs show what the user asked
\* for last once nothing is under way, however many clicks came before the answers
\* (useDeploymentsData, useTaskLogsData, useMjLogsData).
THEOREM LastAskedIsShown == ASSUME TablesAssumption, Serving PROVE Paged!Spec => []Paged!AskedIsShown
<1>1. Paged!Init => Showing
  <2> SUFFICES ASSUME Paged!Init PROVE Showing
    OBVIOUS
  <2>1. /\ op = None /\ reqs = {} /\ query = 0 /\ size = Paged!Min(Sizes) /\ rows = Paged!Q(1, Paged!Min(Sizes), 0) /\ want = rows
    BY DEF Paged!Init
  <2>2. want.size = size /\ want.kw = query
    BY <2>1 DEF Paged!Q
  <2> QED
    BY <2>1, <2>2 DEF Showing
<1>2. PagedInv /\ Showing /\ [Paged!Next]_Paged!vars => Showing'
  BY ShowingStep
<1>3. Showing => Paged!AskedIsShown
  BY DEF Showing, Paged!AskedIsShown, Paged!Idle
<1> QED
  BY <1>1, <1>2, <1>3, PagedHolds, PTL DEF Paged!Spec

=============================================================================
