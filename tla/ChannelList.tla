----------------------------- MODULE ChannelList -----------------------------
(***************************************************************************)
(* The channel table (hooks/channels/useChannelsData.jsx and the actions,  *)
(* filters, tabs and columns around it).  Plain loads carry a request      *)
(* number and an outdated answer is dropped; searches carry none.  An      *)
(* operation on channels keeps the closures of the render it was started   *)
(* from: it refreshes with that render's settings, or writes back that     *)
(* render's list.  API.get shares one answer between equal requests.       *)
(***************************************************************************)
EXTENDS Naturals, FiniteSets

CONSTANTS Pages,      \* pages 1..Pages; 0 is an activePage that is no number
          Sels,       \* the choices of page size, sort, type and status, in one
          MaxAsks, MaxOps, \* bounds on requests for the list, on operations
          Unread

VARIABLES view,      \* activePage, the other choices, tag mode, a keyword is typed
          gets,      \* GETs in flight: [q, at]; at is the db version the server read
          waits,     \* calls awaiting one of them
          counter,   \* requestCounter
          loading, searching,
          shown,     \* [q, at]: the list on screen, by its request and db version
          ops,       \* operations under way, with the render they belong to
          db,        \* version of the channels on the server
          asks, done,\* numbers of requests and operations so far
          need,      \* history: db version the last refreshing operation reported
          spoiled,   \* history: the list may rightly differ from the settings
          shared,    \* history: the last refresh joined an older GET
          stuck      \* history: a rejected request left loading set

vars == <<view, gets, waits, counter, loading, searching, shown, ops, db, asks, done, need, spoiled, shared, stuck>>

Views == [page : 0..Pages, sel : Sels, tag : BOOLEAN, kw : BOOLEAN]
Kinds == {"row", "list", "once", "delete", "batch", "reset"}
RowPage(q) == IF q.page = 0 THEN 1 ELSE q.page   \* what the server makes of it
Same(q, v) == RowPage(q) = RowPage(v) /\ q.sel = v.sel /\ q.tag = v.tag
Searches == {w \in waits : w.req = 0}

-----------------------------------------------------------------------------
\* API.get: an equal GET in flight is shared.
get(q) == gets' = IF \E g \in gets : g.q = q THEN gets ELSE gets \cup {[q |-> q, at |-> Unread]}

\* loadChannels and searchChannels call each other on the live keyword: with one they end
\* in an unnumbered search, without in a numbered load.  viaSearch: entered by searchChannels.
Ask(q, viaSearch, kind) ==
  /\ asks < MaxAsks /\ asks' = asks + 1
  /\ get(q)
  /\ counter' = IF q.kw THEN counter ELSE counter + 1
  /\ waits' = waits \cup {[q |-> q, req |-> IF q.kw THEN 0 ELSE counter + 1,
                           wrap |-> q.kw /\ ~viaSearch, srch |-> q.kw \/ viaSearch, kind |-> kind]}
  /\ loading' = (loading \/ ~q.kw \/ ~viaSearch)
  /\ searching' = (searching \/ q.kw \/ viaSearch)
  /\ shared' = (\E g \in gets : g.q = q)

\* The settings v now asked for, in a request q.
Spoils(q, v) == \/ ~Same(q, v)
                \/ IF q.kw THEN waits # {} ELSE Searches # {}

UserAsks(v, q, viaSearch) ==
  /\ view' = v
  /\ Ask(q, viaSearch, "none")
  /\ spoiled' = Spoils(q, v)
  /\ UNCHANGED <<shown, ops, db, done, need, stuck>>

handlePageChange(p) ==
  LET v == [view EXCEPT !.page = p] IN p # view.page /\ UserAsks(v, v, v.kw)

handlePageSizeChange(s) ==
  LET v == [view EXCEPT !.page = 1, !.sel = s] IN s # view.sel /\ UserAsks(v, v, v.kw)

SwitchIdSort(s) ==
  LET v == [view EXCEPT !.sel = s] IN s # view.sel /\ UserAsks(v, v, v.kw)

\* The status select, and the type tabs, which tag mode hides.
SelectFilter(s) ==
  LET v == [view EXCEPT !.page = 1, !.sel = s] IN s # view.sel /\ UserAsks(v, v, FALSE)

SwitchTagMode ==
  LET v == [view EXCEPT !.page = 1, !.tag = ~@] IN UserAsks(v, v, FALSE)

TypeKeyword ==
  /\ view' = [view EXCEPT !.kw = TRUE] /\ ~view.kw
  /\ UNCHANGED <<gets, waits, counter, loading, searching, shown, ops, db, asks, done, need, spoiled, shared, stuck>>

\* The query button and the group select ask for page 1; activePage follows a search's answer.
\* With the keyword deleted it is a load, and nothing sets activePage.
Submit == ~loading /\ ~searching /\ \E k \in {view.kw, FALSE} :
  LET q == [view EXCEPT !.page = 1, !.kw = k]
  IN UserAsks([view EXCEPT !.kw = k], q, TRUE)

\* onClick={refresh} hands the click event over as the page.
RefreshButton ==
  LET q == [view EXCEPT !.page = 0] IN UserAsks(view, q, view.kw)

-----------------------------------------------------------------------------
\* Operations.  "once": the four upstream checks, each behind its in-flight ref.  The
\* rows an operation can be started from, and the selection of a batch, are on screen.
StartOp(k) ==
  /\ done < MaxOps
  /\ k = "once" => ~\E o \in ops : o.kind = "once"
  /\ done' = done + 1
  /\ loading' = (loading \/ k = "batch")
  /\ view' = IF k = "reset" THEN [view EXCEPT !.kw = FALSE] ELSE view
  /\ ops' = ops \cup {[id |-> done, kind |-> k, view |-> view, list |-> shown,
                       at |-> IF k = "reset" THEN "done" ELSE "sent"]}
  /\ UNCHANGED <<gets, waits, counter, searching, shown, db, asks, need, spoiled, shared, stuck>>

OpCommits(o) ==
  /\ o.at = "sent"
  /\ db' = db + 1
  /\ ops' = (ops \ {o}) \cup {[o EXCEPT !.at = "done"]}
  /\ UNCHANGED <<view, gets, waits, counter, loading, searching, shown, asks, done, need, spoiled, shared, stuck>>

\* refresh() of the render the operation belongs to; the keyword is read live.
Refresh(o) ==
  LET q == [o.view EXCEPT !.kw = view.kw]
  IN /\ Ask(q, q.kw, o.kind)
     /\ spoiled' = Spoils(q, view)
     /\ ops' = (ops \ {o}) \cup {[o EXCEPT !.at = "refreshing"]}
     /\ need' = db
     /\ UNCHANGED <<view, db, done, stuck>>

\* manageChannel and manageTag write the captured list back; the others refresh.  A delete
\* does both.  Its timer looks for an empty captured list, which holds the deleted row.
OpAnswers(o) ==
  /\ o.at = "done"
  /\ IF o.kind = "row"
     THEN /\ shown' = o.list
          /\ ops' = ops \ {o}
          /\ spoiled' = (spoiled \/ o.list # shown)
          /\ UNCHANGED <<view, gets, waits, counter, loading, searching, db, asks, done, need, shared, stuck>>
     ELSE /\ shown' = IF o.kind = "delete" THEN o.list ELSE shown
          /\ Refresh(o)

\* success: false.  A refused delete refreshes all the same.
OpRefused(o) ==
  /\ o.at = "sent"
  /\ IF o.kind = "delete"
     THEN Refresh(o) /\ UNCHANGED shown
     ELSE /\ ops' = ops \ {o}
          /\ loading' = (loading /\ o.kind # "batch")
          /\ UNCHANGED <<view, gets, waits, counter, searching, shown, db, asks, done, need, spoiled, shared, stuck>>

\* The request rejects: nothing after it runs, a batch's setLoading(false) included.
OpRejects(o) ==
  /\ o.at = "sent"
  /\ ops' = ops \ {o}
  /\ stuck' = (stuck \/ o.kind = "batch")
  /\ UNCHANGED <<view, gets, waits, counter, loading, searching, shown, db, asks, done, need, spoiled, shared>>

-----------------------------------------------------------------------------
ServerReads(g) ==
  /\ g.at = Unread
  /\ gets' = (gets \ {g}) \cup {[g EXCEPT !.at = db]}
  /\ UNCHANGED <<view, waits, counter, loading, searching, shown, ops, db, asks, done, need, spoiled, shared, stuck>>

\* Mutant: the answer of an outdated load is applied.
AppliesAny(w) == TRUE

\* A load applies its answer when it is the newest load, a search always.
Applies(w) == w.req = 0 \/ w.req = counter

\* setLoading(false): by the newest load, by loadChannels after its search, by a batch.
EndsLoading(w) == (w.req # 0 /\ w.req = counter) \/ w.wrap \/ w.kind = "batch"

Answer(g, outcome) ==
  /\ g.at # Unread
  /\ LET W == {w \in waits : w.q = g.q}
         writes == outcome = "ok" /\ \E w \in W : Applies(w)
     IN /\ gets' = gets \ {g}
        /\ waits' = waits \ W
        /\ shown' = IF writes THEN g ELSE shown
        /\ view' = IF outcome = "ok" /\ \E w \in W : w.req = 0
                   THEN [view EXCEPT !.page = g.q.page] ELSE view
        /\ loading' = (loading /\ (outcome = "rejected" \/ ~\E w \in W : EndsLoading(w)))
        /\ searching' = (searching /\ ~\E w \in W : w.srch)
        /\ ops' = {o \in ops : ~(o.at = "refreshing" /\ \E w \in W : w.kind = o.kind)}
        /\ spoiled' = (spoiled \/ (outcome # "ok" /\ \E w \in W : w.req = 0 \/ w.req = counter))
        /\ stuck' = IF \E w \in W : EndsLoading(w) THEN outcome = "rejected" ELSE stuck
  /\ UNCHANGED <<counter, db, asks, done, need, shared>>

-----------------------------------------------------------------------------
Start == [page |-> 1, sel |-> CHOOSE s \in Sels : TRUE, tag |-> FALSE, kw |-> FALSE]

\* The first effect has asked for page 1 with the stored settings.
Init ==
  /\ view = Start
  /\ gets = {[q |-> Start, at |-> Unread]}
  /\ waits = {[q |-> Start, req |-> 1, wrap |-> FALSE, srch |-> FALSE, kind |-> "none"]}
  /\ counter = 1 /\ loading = TRUE /\ searching = FALSE
  /\ shown = [q |-> [Start EXCEPT !.page = 0], at |-> 0]
  /\ ops = {} /\ db = 0 /\ asks = 1 /\ done = 0 /\ need = 0 /\ spoiled = FALSE /\ shared = FALSE /\ stuck = FALSE

Next ==
  \/ \E p \in 1..Pages : handlePageChange(p)
  \/ \E s \in Sels : handlePageSizeChange(s) \/ SwitchIdSort(s) \/ SelectFilter(s)
  \/ SwitchTagMode \/ TypeKeyword \/ Submit \/ RefreshButton
  \/ \E k \in Kinds : StartOp(k)
  \/ \E o \in ops : OpCommits(o) \/ OpAnswers(o) \/ OpRefused(o) \/ OpRejects(o)
  \/ \E g \in gets : ServerReads(g) \/ \E r \in {"ok", "refused", "rejected"} : Answer(g, r)

Spec == Init /\ [][Next]_vars

-----------------------------------------------------------------------------
TypeOK ==
  /\ view \in Views /\ shown.q \in Views /\ counter \in 0..MaxAsks
  /\ \A g \in gets : g.q \in Views /\ g.at \in 0..db \cup {Unread}
  /\ \A w \in waits : w.q \in Views /\ w.req \in 0..counter
  /\ \A o \in ops : o.kind \in Kinds /\ o.view \in Views /\ o.at \in {"sent", "done", "refreshing"}

Idle == gets = {} /\ ops = {}

\* When nothing is under way the list on screen is the one the settings ask for, unless
\* since the last plain load from the current render a request failed, a search overlapped
\* another request, an operation of an older render finished, or the request asked for
\* another page than the pagination shows.
ShownIsAsked == (Idle /\ ~spoiled) => Same(shown.q, view)

\* When nothing is under way the table does not spin, unless a request that had set it
\* spinning was rejected; the search spinner never stays.
SpinnerEnds == Idle => ~searching /\ (loading => stuck)

\* After an operation that refreshes, the list on screen shows what the operation did,
\* unless its refresh joined a GET that was already in flight.
RefreshSeesOperation == (Idle /\ ~spoiled /\ ~shared) => shown.at >= need

=============================================================================
