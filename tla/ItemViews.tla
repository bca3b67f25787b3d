----------------------------- MODULE ItemViews -----------------------------
(* The dialogs that show what the server holds on one item and let its rows   *)
(* be changed: a channel's keys, Ollama models and usage, a user's            *)
(* subscriptions and bindings, a deployment's logs, details and extension,    *)
(* the history of top-ups, the check-ins, the prefill groups and the lists of *)
(* missing models. A view is a record of what its code does differently.      *)
EXTENDS Integers, Sequences, FiniteSets, SequencesExt

CONSTANTS Items,      \* what a view can be opened for
          Views,      \* the views to check
          NumRows,    \* rows that an item has at first
          Faults,     \* subset of {"load", "op", "price"}: requests that may fail
          Unhurried,  \* TRUE: every request ends before the next click
          MaxOpens,   \* bound on the number of openings
          MaxGets,    \* bound on the number of loads
          MaxOps,     \* bound on the number of operations
          None        \* nothing

VARIABLES v,        \* the view
          visible, item,
          query,    \* the page, filter, month or container that is chosen
          shown,    \* the rows on the screen, of which item and which query
          loading,
          gets,     \* loads under way
          ops,      \* operations under way
          server,   \* the rows of every item
          hours, price, costLoading, costId, costs,  \* the price of an extension
          pulls, aborting, source, pulling,          \* the streams of Ollama pulls
          opens, ngets, nops

costVars == <<hours, price, costLoading, costId, costs>>
pullVars == <<pulls, aborting, source, pulling>>
vars == <<v, visible, item, query, shown, loading, gets, ops, server, costVars, pullVars, opens, ngets, nops>>

-----------------------------------------------------------------------------
\* What can be done in a view: to one of its rows, or to the item as a whole.
KeyOps == {"disable", "enable", "delete"}
AllKeysOps == {"enable_all", "disable_all", "delete_disabled"}
SubscriptionOps == {"disable", "delete"}
ModelOps == {"delete"}
BindingOps == {"delete"}
TopupOps == {"enable"}
GroupOps == {"delete"}

\* query: something can be chosen that is sent with a load. keeps: the choice
\* outlives a closing. rowOps, itemOps: see above. names: how an operation names
\* its row. after: what follows an operation. empties: a closed view forgets its
\* rows. guarded: the answer to an earlier request is dropped.
MultiKeyManage ==
  [name |-> "keys", query |-> TRUE, keeps |-> FALSE, rowOps |-> KeyOps, itemOps |-> AllKeysOps,
   names |-> "position", after |-> "reload", empties |-> TRUE, guarded |-> FALSE]
OllamaModels ==
  [name |-> "ollama", query |-> FALSE, keeps |-> FALSE, rowOps |-> ModelOps, itemOps |-> {},
   names |-> "id", after |-> "reload", empties |-> FALSE, guarded |-> FALSE]
CodexUsage ==
  [name |-> "codex", query |-> FALSE, keeps |-> FALSE, rowOps |-> {}, itemOps |-> {},
   names |-> "id", after |-> "none", empties |-> TRUE, guarded |-> TRUE]
UserSubscriptions ==
  [name |-> "subscriptions", query |-> FALSE, keeps |-> FALSE, rowOps |-> SubscriptionOps, itemOps |-> {"create"},
   names |-> "id", after |-> "reload", empties |-> FALSE, guarded |-> FALSE]
UserBindings ==
  [name |-> "bindings", query |-> FALSE, keeps |-> FALSE, rowOps |-> BindingOps, itemOps |-> {},
   names |-> "id", after |-> "local", empties |-> FALSE, guarded |-> FALSE]
ViewLogs ==
  [name |-> "logs", query |-> TRUE, keeps |-> FALSE, rowOps |-> {}, itemOps |-> {},
   names |-> "id", after |-> "none", empties |-> TRUE, guarded |-> FALSE]
ViewDetails ==
  [name |-> "details", query |-> FALSE, keeps |-> FALSE, rowOps |-> {}, itemOps |-> {},
   names |-> "id", after |-> "none", empties |-> TRUE, guarded |-> FALSE]
ExtendDuration ==
  [name |-> "extend", query |-> FALSE, keeps |-> FALSE, rowOps |-> {}, itemOps |-> {"create"},
   names |-> "id", after |-> "close", empties |-> TRUE, guarded |-> FALSE]
TopupHistory ==
  [name |-> "topups", query |-> TRUE, keeps |-> TRUE, rowOps |-> TopupOps, itemOps |-> {},
   names |-> "id", after |-> "reload", empties |-> FALSE, guarded |-> FALSE]
CheckinCalendar ==
  [name |-> "checkins", query |-> TRUE, keeps |-> TRUE, rowOps |-> {}, itemOps |-> {"create"},
   names |-> "id", after |-> "reload", empties |-> FALSE, guarded |-> FALSE]
PrefillGroups ==
  [name |-> "prefill", query |-> FALSE, keeps |-> FALSE, rowOps |-> GroupOps, itemOps |-> {},
   names |-> "id", after |-> "reload", empties |-> FALSE, guarded |-> FALSE]
MissingModels ==
  [name |-> "missing", query |-> FALSE, keeps |-> FALSE, rowOps |-> {}, itemOps |-> {},
   names |-> "id", after |-> "none", empties |-> TRUE, guarded |-> FALSE]
AffinityUsage ==
  [name |-> "affinity", query |-> FALSE, keeps |-> FALSE, rowOps |-> {}, itemOps |-> {},
   names |-> "id", after |-> "none", empties |-> TRUE, guarded |-> TRUE]

AllViews == {MultiKeyManage, OllamaModels, CodexUsage, UserSubscriptions, UserBindings, ViewLogs, ViewDetails,
             ExtendDuration, TopupHistory, CheckinCalendar, PrefillGroups, MissingModels, AffinityUsage}

-----------------------------------------------------------------------------
Queries == {1, 2}
Nothing == [of |-> None, query |-> 0, rows |-> <<>>]

\* Rows: the item's name, a number and whether it is on, off or off by the system.
Initially(i) == [k \in 1..NumRows |-> <<i, k, IF k = 2 THEN "auto" ELSE "on">>]
SameRow(r, s) == r[1] = s[1] /\ r[2] = s[2]
PositionOf(r, rows) == {k \in DOMAIN rows : SameRow(r, rows[k])}

SetState(rows, ks, s) == [k \in DOMAIN rows |-> IF k \in ks THEN <<rows[k][1], rows[k][2], s>> ELSE rows[k]]

\* What an operation does to the rows ks.
Effect(op, i, rows, ks, n) ==
  CASE op = "delete" -> [j \in 1..(Len(rows) - Cardinality(ks)) |->
                           rows[IF \E k \in ks : k <= j THEN j + 1 ELSE j]]
    [] op = "disable" -> SetState(rows, ks, "off")
    [] op = "enable" -> SetState(rows, ks, "on")
    [] op = "enable_all" -> SetState(rows, DOMAIN rows, "on")
    [] op = "disable_all" -> SetState(rows, {k \in DOMAIN rows : rows[k][3] = "on"}, "off")
    [] op = "delete_disabled" -> SelectSeq(rows, LAMBDA r : r[3] # "auto")
    [] op = "create" -> Append(rows, <<i, 10 + n, "on">>)

Init ==
  /\ v \in Views /\ visible = FALSE /\ item = None /\ query = 1 /\ shown = Nothing /\ loading = FALSE
  /\ gets = {} /\ ops = {} /\ server = [i \in Items |-> Initially(i)]
  /\ hours = 1 /\ price = None /\ costLoading = FALSE /\ costId = 0 /\ costs = {}
  /\ pulls = {} /\ aborting = {} /\ source = None /\ pulling = FALSE
  /\ opens = 0 /\ ngets = 0 /\ nops = 0

\* Nothing is under way.
Quiet == gets = {} /\ ops = {} /\ costs = {} /\ pulls = {} /\ aborting = {}

\* A load of item i: the server has not read it yet.
Loads(i, q) ==
  /\ ngets < MaxGets /\ ngets' = ngets + 1
  /\ gets' = gets \cup {[item |-> i, query |-> q, n |-> ngets, rows |-> None]}
  /\ loading' = TRUE

Open(i) ==
  /\ ~visible /\ opens < MaxOpens /\ (Unhurried => Quiet)
  /\ visible' = TRUE /\ item' = i /\ opens' = opens + 1
  /\ query' = IF v.keeps THEN query ELSE 1
  /\ Loads(i, query')
  /\ UNCHANGED <<v, shown, ops, server, costVars, pullVars, nops>>

\* A hidden view stays mounted and its requests go on; resetState of an extension
\* makes the answers to its prices worthless.
Close ==
  /\ visible /\ (Unhurried => Quiet)
  /\ visible' = FALSE
  /\ shown' = IF v.empties THEN Nothing ELSE shown
  /\ hours' = 1 /\ price' = None /\ costLoading' = FALSE /\ costId' = costId + 1 /\ pulling' = FALSE
  /\ UNCHANGED <<v, item, query, loading, gets, ops, server, costs, pulls, aborting, source, opens, ngets, nops>>

\* A page, a filter, a month or a container is chosen; the last empties the lines.
Choose(q) ==
  /\ visible /\ v.query /\ q # query /\ (Unhurried => Quiet)
  /\ query' = q /\ Loads(item, q)
  /\ shown' = IF v = ViewLogs THEN Nothing ELSE shown
  /\ UNCHANGED <<v, visible, item, ops, server, costVars, pullVars, opens, nops>>

\* The views with a button, or an interval of five seconds, that loads again.
Refreshable == {MultiKeyManage, OllamaModels, CodexUsage, ViewLogs, ViewDetails}

Refresh ==
  /\ visible /\ v \in Refreshable /\ (v = CodexUsage => ~loading) /\ (Unhurried => Quiet) /\ Loads(item, query)
  /\ UNCHANGED <<v, visible, item, query, shown, ops, server, costVars, pullVars, opens, nops>>

\* The server reads.
Serve(g) ==
  /\ g \in gets /\ g.rows = None
  /\ gets' = (gets \ {g}) \cup {[g EXCEPT !.rows = server[g.item]]}
  /\ UNCHANGED <<v, visible, item, query, shown, loading, ops, server, costVars, pullVars, opens, ngets, nops>>

\* calculatePrice, when the details or the hours have changed.
AsksPrice(i, h) ==
  /\ costId' = costId + 1 /\ costLoading' = TRUE
  /\ costs' = costs \cup {[item |-> i, hours |-> h, id |-> costId']}

\* Only the answer to the newest request of this opening counts where it is guarded.
Counts(g) == v.guarded => visible /\ g.n = ngets - 1

Arrive(g) ==
  /\ g \in gets /\ g.rows # None /\ gets' = gets \ {g}
  /\ IF Counts(g)
     THEN shown' = [of |-> g.item, query |-> g.query, rows |-> g.rows] /\ loading' = FALSE
     ELSE UNCHANGED <<shown, loading>>
  /\ query' = IF v = MultiKeyManage THEN g.query ELSE query
  /\ IF v = ExtendDuration /\ visible THEN AsksPrice(g.item, hours) /\ UNCHANGED <<hours, price>>
     ELSE UNCHANGED costVars
  /\ UNCHANGED <<v, visible, item, ops, server, pullVars, opens, ngets, nops>>

\* The request fails or is refused: the rows stay, but for a usage, which is
\* replaced by the error, and an extension, which has no details then.
Fail(g) ==
  /\ "load" \in Faults /\ g \in gets /\ gets' = gets \ {g}
  /\ loading' = IF Counts(g) THEN FALSE ELSE loading
  /\ shown' = IF (v.guarded /\ Counts(g)) \/ v = ExtendDuration THEN Nothing ELSE shown
  /\ price' = IF v = ExtendDuration THEN None ELSE price
  /\ UNCHANGED <<v, visible, item, query, ops, server, hours, costLoading, costId, costs, pullVars, opens, ngets, nops>>

-----------------------------------------------------------------------------
\* The buttons of a row. One that waits for its answer is disabled.
Act(op, k) ==
  /\ visible /\ nops < MaxOps /\ (Unhurried => Quiet)
  /\ op \in v.rowOps /\ k \in DOMAIN shown.rows
  /\ ~\E o \in ops : o.op = op /\ o.at = k
  /\ ops' = ops \cup {[op |-> op, at |-> k, row |-> shown.rows[k], item |-> item, query |-> query, n |-> nops]}
  /\ nops' = nops + 1
  /\ UNCHANGED <<v, visible, item, query, shown, loading, gets, server, costVars, pullVars, opens, ngets>>

\* The buttons above the rows.
ActOnAll(op) ==
  /\ visible /\ nops < MaxOps /\ (Unhurried => Quiet)
  /\ op \in v.itemOps /\ ~\E o \in ops : o.op = op
  /\ ops' = ops \cup {[op |-> op, at |-> 0, row |-> None, item |-> item, query |-> query, n |-> nops]}
  /\ nops' = nops + 1
  /\ UNCHANGED <<v, visible, item, query, shown, loading, gets, server, costVars, pullVars, opens, ngets>>

\* Mutant: an operation is sent with the position among the rows on the screen, from zero.
TargetsNext(o) ==
  CASE o.row = None -> {}
    [] o.row # None /\ v.names = "position" -> {o.at + 1} \cap DOMAIN server[o.item]
    [] OTHER -> PositionOf(o.row, server[o.item])

\* The rows that the server takes an operation to mean: of a key it is given the
\* position, of a binding its kind and the user, else the row's own id.
Targets(o) ==
  CASE o.row = None -> {}
    [] o.row # None /\ v.names = "position" -> {o.at} \cap DOMAIN server[o.item]
    [] OTHER -> PositionOf(o.row, server[o.item])

\* What follows a success: the rows are loaded again (all the keys from their
\* first page), the row is taken off the screen, or the dialog closes.
Follows(o) ==
  CASE v.after = "reload" -> /\ Loads(o.item, IF o.op \in AllKeysOps THEN 1 ELSE o.query)
                             /\ query' = IF o.op \in AllKeysOps THEN 1 ELSE query
                             /\ UNCHANGED <<shown, visible>>
    [] v.after = "local" -> /\ shown' = [shown EXCEPT !.rows = SelectSeq(@, LAMBDA r : r # o.row)]
                            /\ UNCHANGED <<visible, query, gets, loading, ngets>>
    [] v.after = "close" -> visible' = FALSE /\ shown' = Nothing /\ UNCHANGED <<query, gets, loading, ngets>>

Succeed(o) ==
  /\ o \in ops /\ ops' = ops \ {o}
  /\ server' = [server EXCEPT ![o.item] = Effect(o.op, o.item, @, Targets(o), o.n)]
  /\ UNCHANGED opens /\ Follows(o)
  /\ IF v = ExtendDuration
     THEN hours' = 1 /\ price' = None /\ costLoading' = FALSE /\ costId' = costId + 1 /\ UNCHANGED costs
     ELSE UNCHANGED costVars
  /\ UNCHANGED <<v, item, pullVars, nops>>

Refuse(o) ==
  /\ "op" \in Faults /\ o \in ops /\ ops' = ops \ {o}
  /\ UNCHANGED <<v, visible, item, query, shown, loading, gets, server, costVars, pullVars, opens, ngets, nops>>

-----------------------------------------------------------------------------
\* The hours of an extension and the price that is asked for them.
SetHours(h) ==
  /\ v = ExtendDuration /\ visible /\ h # hours /\ costId < MaxGets
  /\ hours' = h
  /\ IF shown.of = None THEN UNCHANGED <<price, costLoading, costId, costs>>
     ELSE AsksPrice(shown.of, h) /\ UNCHANGED price
  /\ UNCHANGED <<v, visible, item, query, shown, loading, gets, ops, server, pullVars, opens, ngets, nops>>

PriceArrives(c) ==
  /\ c \in costs /\ costs' = costs \ {c}
  /\ IF c.id = costId THEN price' = <<c.item, c.hours>> /\ costLoading' = FALSE
     ELSE UNCHANGED <<price, costLoading>>
  /\ UNCHANGED <<v, visible, item, query, shown, loading, gets, ops, server, hours, costId, pullVars, opens, ngets, nops>>

PriceFails(c) ==
  /\ "price" \in Faults /\ c \in costs /\ costs' = costs \ {c}
  /\ IF c.id = costId THEN price' = None /\ costLoading' = FALSE
     ELSE UNCHANGED <<price, costLoading>>
  /\ UNCHANGED <<v, visible, item, query, shown, loading, gets, ops, server, hours, costId, pullVars, opens, ngets, nops>>

-----------------------------------------------------------------------------
\* A new source, or none: the effect on the source closes the one before it.
SetSource(p, ended) ==
  /\ source' = p
  /\ aborting' = (aborting \ ended) \cup (pulls \cap ({source} \ (ended \cup {p})))
  /\ pulls' = (pulls \ (ended \cup {source})) \cup ({p} \ {None})

\* pullModel.
Pull ==
  /\ v = OllamaModels /\ visible /\ ~pulling /\ nops < MaxOps /\ (Unhurried => Quiet)
  /\ SetSource(<<item, nops>>, {})
  /\ pulling' = TRUE /\ nops' = nops + 1
  /\ UNCHANGED <<v, visible, item, query, shown, loading, gets, ops, server, costVars, opens, ngets>>

\* The end of an aborted stream is handled whichever stream came after it. An
\* abort before the answer to the request is followed by a load.
Aborted(p) ==
  /\ p \in aborting /\ SetSource(None, {p}) /\ pulling' = FALSE
  /\ \/ UNCHANGED <<gets, loading, ngets>>
     \/ Loads(p[1], query)
  /\ UNCHANGED <<v, visible, item, query, shown, ops, server, costVars, opens, nops>>

\* The end of a stream, with the new model in the list.
Pulled(p) ==
  /\ p \in pulls /\ SetSource(None, {p}) /\ pulling' = FALSE
  /\ server' = [server EXCEPT ![p[1]] = Effect("create", p[1], @, {}, p[2])]
  /\ Loads(p[1], query)
  /\ UNCHANGED <<v, visible, item, query, shown, ops, costVars, opens, nops>>

\* The stream reports an error.
PullFails(p) ==
  /\ "op" \in Faults /\ p \in pulls /\ SetSource(None, {p}) /\ pulling' = FALSE
  /\ UNCHANGED <<v, visible, item, query, shown, loading, gets, ops, server, costVars, opens, ngets, nops>>

Next ==
  \/ \E i \in Items : Open(i)
  \/ Close \/ Refresh \/ Pull
  \/ \E q \in Queries : Choose(q)
  \/ \E g \in gets : Serve(g)
  \/ \E g \in gets : Arrive(g)
  \/ \E g \in gets : Fail(g)
  \/ \E op \in v.rowOps, k \in DOMAIN shown.rows : Act(op, k)
  \/ \E op \in v.itemOps : ActOnAll(op)
  \/ \E o \in ops : Succeed(o)
  \/ \E o \in ops : Refuse(o)
  \/ \E h \in {1, 2} : SetHours(h)
  \/ \E c \in costs : PriceArrives(c)
  \/ \E c \in costs : PriceFails(c)
  \/ \E p \in aborting : Aborted(p)
  \/ \E p \in pulls : Pulled(p)
  \/ \E p \in pulls : PullFails(p)

Spec == Init /\ [][Next]_vars

-----------------------------------------------------------------------------
TypeOK ==
  /\ v \in AllViews /\ visible \in BOOLEAN /\ loading \in BOOLEAN /\ item \in Items \cup {None}
  /\ query \in Queries /\ shown.of \in Items \cup {None} /\ hours \in {1, 2}
  /\ \A i \in Items : \A k \in DOMAIN server[i] : server[i][k][1] = i
  /\ \A o \in ops : o.item \in Items /\ o.at \in 0..(NumRows + MaxOps)

\* The rows of an open view are those of its own item and query once it has
\* loaded: no answer for another item is on the screen.
ShownIsItems ==
  visible /\ ~loading => shown = Nothing \/ (shown.of = item /\ (v.query => shown.query = query))

\* When nothing is under way the screen shows what the server holds.
ShownIsServers ==
  visible /\ Quiet /\ shown.of # None => shown.rows = server[shown.of]

\* An operation on a row changes that row of the open item and no other.
HitsTheRowMeant ==
  \A o \in ops \ ops' : o.row # None =>
    \A i \in Items : \A k \in DOMAIN server[i] :
      ~SameRow(server[i][k], o.row) => \E j \in DOMAIN server'[i] : server'[i][j] = server[i][k]

\* The price of an extension is that of the hours in the field.
PriceIsForHours == visible /\ price # None /\ ~costLoading => price[2] = hours

\* A channel's models are pulled one at a time, and the one that is pulled can
\* still be stopped: a stream that nothing refers to any more has been closed.
OnePull == pulls \subseteq {source}

=============================================================================
