------------------------------ MODULE TableList ------------------------------
(***************************************************************************)
(* The paged tables of the console: tokens, users, redemption codes,       *)
(* models, deployments and the three logs (hooks/*/use...Data).  A table   *)
(* shows one page of a list or of a search; every click asks the server    *)
(* and every answer is applied when it arrives.  The hooks differ in which *)
(* page, size and keyword a click asks for, in whether the pager moves     *)
(* with the click or with the answer, and in what an operation on a row    *)
(* writes back; each table is a record of those choices.                   *)
(***************************************************************************)
EXTENDS Naturals, Sequences, FiniteSets, FiniteSetsExt

CONSTANTS Tables,    \* the tables considered
          InOrder,   \* answers arrive in the order of the requests
          Faults,    \* subset of {"refuse", "reject"}
          Calm,      \* nobody clicks in the 100 ms of a reset
          Operations, \* operations on rows are considered
          MaxAsks, Pages, Sizes, None

\* paging: the keyword and page a click on the pager asks for, sizing: the page and keyword a
\* change of size asks for, moves: the pager moves with the click, sized: the answer sets the
\* size, effect: a change of size also loads the first page, numbered: only the answer to the
\* last request is applied, guarded: a failing request is caught, clears: it empties the table,
\* ops: what an operation does to the rows.
Table(paging, sizing) ==
  [paging |-> paging, sizing |-> sizing, moves |-> TRUE, sized |-> FALSE, effect |-> FALSE,
   numbered |-> FALSE, guarded |-> FALSE, clears |-> FALSE, ops |-> {}, reset |-> "search", covers |-> {"loading"}]

\* What the reset button runs 100 ms after it has emptied the form.
TokensFilters == "search"
UsersFilters == "load"
RedemptionsFilters == "search"
ModelsFilters == "search"
DeploymentsFilters == "submit"
UsageLogsFilters == "search"
TaskLogsFilters == "search"
MjLogsFilters == "search"

\* The flags whose spinner covers the rows; the pager lies outside of it.
TokensTable == {"loading"}
UsersTable == {"loading"}
RedemptionsTable == {"loading"}
ModelsTable == {"loading"}
DeploymentsTable == {"loading", "searching"}
UsageLogsTable == {"loading"}
TaskLogsTable == {"loading"}
MjLogsTable == {"loading"}

useTokensData == [Table("mode", "mode") EXCEPT !.reset = TokensFilters, !.covers = TokensTable,
    !.moves = FALSE, !.sized = TRUE, !.effect = TRUE, !.ops = {"copy", "reload"}]
useUsersData == [Table("form", "samePage") EXCEPT !.reset = UsersFilters, !.covers = UsersTable,
    !.ops = {"copy", "refresh"}]
useRedemptionsData == [Table("first", "oldSize") EXCEPT !.reset = RedemptionsFilters, !.covers = RedemptionsTable,
    !.effect = TRUE, !.guarded = TRUE, !.ops = {"copy", "refresh"}]
useModelsData == [Table("all", "all") EXCEPT !.reset = ModelsFilters, !.covers = ModelsTable,
    !.guarded = TRUE, !.clears = TRUE, !.ops = {"prev", "refresh"}]
useDeploymentsData ==
  [Table("query", "query") EXCEPT !.reset = DeploymentsFilters, !.covers = DeploymentsTable,
    !.numbered = TRUE, !.guarded = TRUE, !.clears = TRUE, !.ops = {"refresh"}]
useUsageLogsData == [Table("form", "sameForm") EXCEPT !.reset = UsageLogsFilters, !.covers = UsageLogsTable,
    !.sized = TRUE]
useTaskLogsData == [Table("form", "form") EXCEPT !.reset = TaskLogsFilters, !.covers = TaskLogsTable,
    !.moves = FALSE, !.sized = TRUE]
useMjLogsData == [useTaskLogsData EXCEPT !.reset = MjLogsFilters, !.covers = MjLogsTable]

AllTables == {useTokensData, useUsersData, useRedemptionsData, useModelsData, useDeploymentsData,
              useUsageLogsData, useTaskLogsData, useMjLogsData}
\* The tables whose pager is set by the answer, those that catch failing requests, and those
\* that ask for what the user asked for.
AnswerPaged == {useTokensData, useUsageLogsData, useTaskLogsData, useMjLogsData, useDeploymentsData}
Guarded == {t \in AllTables : t.guarded}
Faithful == {useDeploymentsData, useTaskLogsData, useMjLogsData}

-----------------------------------------------------------------------------
VARIABLES table, form,    \* its record and the keyword typed, 0 for none
          mode, query,    \* searchMode of the tokens, query of the deployments
          active, size,   \* the pager
          rows,           \* the request whose rows are shown, None if none
          reqs, asks,     \* requests in flight [id, q, seq, search] and made
          loading, searching,
          timer,          \* None, or the size known to the reset whose 100 ms are running
          op,             \* None, or an operation under way [kind, rows, page, size]
          want,           \* history: what the user last asked to see
          joined          \* history: a request was given the answer of an older one

vars == <<table, form, mode, query, active, size, rows, reqs, asks, loading, searching, timer, op, want, joined>>

Ready == Calm => timer = None

Q(p, z, k) == [page |-> p, size |-> z, kw |-> k]

\* API.get: an equal request in flight is joined; its answer then counts for both callers.
Sent(R, n, q) ==
  LET same == {r \in R : r.q = q}
  IN IF same = {} THEN R \cup {[id |-> n, q |-> q, seq |-> n, search |-> q.kw # 0]}
     ELSE (R \ same) \cup {[r EXCEPT !.seq = n] : r \in same}

\* The requests of a step, one or two, in order.
Ask(s) ==
  /\ asks + Len(s) <= MaxAsks
  /\ LET one == Sent(reqs, asks + 1, s[1])
     IN reqs' = IF Len(s) = 1 THEN one ELSE Sent(one, asks + 2, s[2])
  /\ asks' = asks + Len(s)
  /\ joined' = (joined \/ \E i \in DOMAIN s : \E r \in reqs : r.q = s[i])
  /\ loading' = (loading \/ \E i \in DOMAIN s : s[i].kw = 0 \/ table.paging = "form")
  /\ searching' = (searching \/ \E i \in DOMAIN s : s[i].kw # 0 /\ table.paging # "form")
  /\ mode' = IF \E i \in DOMAIN s : s[i].kw = 0 THEN FALSE ELSE mode

TypeKeyword(k) ==
  /\ Ready
  /\ form # k
  /\ form' = k
  /\ UNCHANGED <<table, mode, query, active, size, rows, reqs, asks, loading, searching, timer, op, want, joined>>

\* searchTokens, searchUsers, searchRedemptions, searchModels, searchDeployments, and refresh
\* of the logs.
Submit ==
  /\ Ready
  /\ Ask(<<Q(1, size, form)>>)
  /\ query' = IF table.paging = "query" THEN form ELSE query
  /\ active' = IF table.paging = "query" \/ table = useUsageLogsData THEN 1 ELSE active
  /\ want' = Q(1, size, form)
  /\ UNCHANGED <<table, form, size, rows, timer, op>>

\* handleReset
Reset ==
  /\ timer = None
  /\ form' = 0 /\ timer' = size
  /\ UNCHANGED <<table, mode, query, active, size, rows, reqs, asks, loading, searching, op, want, joined>>

\* The search runs with the size of the render that was reset; the form is read now, unless
\* the reset loads the list.
ResetElapsed ==
  LET q == Q(1, IF table.reset = "submit" THEN size ELSE timer, IF table.reset = "load" THEN 0 ELSE form)
  IN /\ timer # None
     /\ timer' = None
     /\ Ask(<<q>>) /\ want' = q
     /\ query' = IF table.paging = "query" THEN form ELSE query
     /\ active' = IF table.paging = "query" \/ table = useUsageLogsData THEN 1 ELSE active
     /\ UNCHANGED <<table, form, size, rows, op>>

\* Mutant: pages are counted from the one shown.
PageAfter(p) == Q(p + active - 1, size, form)

\* What a click on page p asks for.
PageQuery(p) ==
  CASE table.paging = "mode" -> IF ~mode THEN Q(p, size, 0) ELSE IF form = 0 THEN Q(1, size, 0) ELSE Q(p, size, form)
    [] table.paging = "form" -> Q(p, size, form)
    [] table.paging = "first" -> IF form = 0 THEN Q(p, size, 0) ELSE Q(1, size, form)
    [] table.paging = "all" -> Q(p, size, 0)
    [] table.paging = "query" -> Q(p, size, query)

handlePageChange(p) ==
  /\ Ready
  /\ Ask(<<PageQuery(p)>>)
  /\ active' = IF table.moves THEN p ELSE active
  /\ want' = Q(p, IF table.sizing = "form" THEN size ELSE want.size, IF table.paging \in {"form", "first"} THEN form ELSE want.kw)
  /\ UNCHANGED <<table, form, query, size, rows, timer, op>>

\* What a change to size z asks for.
SizeQuery(z) ==
  CASE table.sizing = "mode" -> Q(1, z, IF mode THEN form ELSE 0)
    [] table.sizing = "samePage" -> Q(active, z, 0)
    [] table.sizing = "sameForm" -> Q(active, z, form)
    [] table.sizing = "oldSize" -> IF form = 0 THEN Q(1, z, 0) ELSE Q(1, size, form)
    [] table.sizing = "all" -> Q(1, z, 0)
    [] table.sizing = "query" -> Q(1, z, query)
    [] table.sizing = "form" -> Q(1, z, form)

\* The effect of the tokens and of the redemption codes.
SizeEffect(z) == IF table.effect THEN <<Q(1, z, 0)>> ELSE <<>>

handlePageSizeChange(z) ==
  /\ Ready
  /\ z # size
  /\ Ask(<<SizeQuery(z)>> \o SizeEffect(z))
  /\ size' = IF table.sizing = "form" THEN size ELSE z
  /\ active' = IF table.moves THEN 1 ELSE active
  /\ want' = Q(1, z, IF table.paging \in {"form", "first"} THEN form ELSE want.kw)
  /\ UNCHANGED <<table, form, query, rows, timer, op>>

\* What refresh asks for, with the page and size of the render it belongs to.
RefreshQuery(p, z) ==
  CASE table.paging \in {"mode", "all"} -> Q(p, z, 0)
    [] table.paging = "form" -> Q(p, z, form)
    [] table.paging = "first" -> IF form = 0 THEN Q(p, z, 0) ELSE Q(1, z, form)
    [] table.paging = "query" -> Q(p, z, query)

-----------------------------------------------------------------------------
\* manageToken, manageUser, manageRedemption, manageModel, startDeployment, ..., batch deletes.
StartOp(kind) ==
  /\ Ready
  /\ Operations /\ op = None /\ rows # None /\ kind \in table.ops
  /\ ~("loading" \in table.covers /\ loading) /\ ~("searching" \in table.covers /\ searching)
  /\ op' = [kind |-> kind, rows |-> rows, page |-> active, size |-> size]
  /\ loading' = (loading \/ kind = "copy")
  /\ UNCHANGED <<table, form, mode, query, active, size, rows, reqs, asks, searching, timer, want, joined>>

OpWritesCopy ==
  /\ op # None /\ op.kind = "copy"
  /\ rows' = op.rows
  /\ loading' = FALSE /\ op' = None
  /\ UNCHANGED <<table, form, mode, query, active, size, reqs, asks, searching, timer, want, joined>>

\* setModels(prev => ...): the status changes in the rows shown.
OpUpdatesRows ==
  /\ op # None /\ op.kind = "prev"
  /\ op' = None
  /\ UNCHANGED <<table, form, mode, query, active, size, rows, reqs, asks, loading, searching, timer, want, joined>>

OpRefreshes ==
  /\ op # None /\ op.kind \in {"refresh", "reload"}
  /\ Ask(<<RefreshQuery(op.page, op.size)>>)
  /\ op' = None
  /\ want' = RefreshQuery(op.page, op.size)
  /\ UNCHANGED <<table, form, query, active, size, rows, timer>>

-----------------------------------------------------------------------------
First(r) == InOrder => \A s \in reqs : s.id >= r.id
Stale(r) == table.numbered /\ r.seq # asks

EndsLoading(r) ==
  IF Stale(r) THEN UNCHANGED <<loading, searching>>
  ELSE IF table.numbered THEN loading' = FALSE /\ searching' = FALSE
  ELSE IF r.search /\ table.paging # "form" THEN searching' = FALSE /\ UNCHANGED loading
  ELSE loading' = FALSE /\ UNCHANGED searching

\* The pager after an answer: page, and size where the answer brings it.
Pager(r) == <<r.q.page, IF table.sized THEN r.q.size ELSE size>>

AnswerOk(r) ==
  /\ First(r) /\ ~Stale(r)
  /\ rows' = r.q
  /\ active' = Pager(r)[1] /\ size' = Pager(r)[2]
  /\ IF table.effect /\ size' # size
     THEN LET n == asks + 1
              q == Q(1, size', 0)
          IN /\ n <= MaxAsks
             /\ reqs' = Sent(reqs \ {r}, n, q) /\ asks' = n
             /\ joined' = (joined \/ \E s \in reqs \ {r} : s.q = q)
             /\ loading' = TRUE /\ searching' = (searching /\ ~r.search) /\ mode' = FALSE
     ELSE /\ reqs' = reqs \ {r} /\ EndsLoading(r)
          /\ mode' = IF table.paging = "mode" /\ r.search THEN TRUE ELSE mode
          /\ UNCHANGED <<asks, joined>>
  /\ UNCHANGED <<table, form, query, timer, op, want>>

AnswerStale(r) ==
  /\ First(r) /\ Stale(r)
  /\ reqs' = reqs \ {r}
  /\ UNCHANGED <<table, form, mode, query, active, size, rows, asks, loading, searching, timer, op, want, joined>>

Failed(r) == /\ First(r) /\ ~Stale(r)
             /\ reqs' = reqs \ {r}
             /\ rows' = IF table.clears THEN None ELSE rows
             /\ UNCHANGED <<table, form, mode, query, active, size, asks, timer, op, want, joined>>

AnswerRefused(r) == "refuse" \in Faults /\ Failed(r) /\ EndsLoading(r)

\* Mutant: the caught error leaves the spinner on.
CaughtTooLate(r) ==
  /\ "reject" \in Faults
  /\ Failed(r)
  /\ UNCHANGED <<loading, searching>>

\* The request fails; without a try the rest of the function does not run.
AnswerRejects(r) ==
  /\ "reject" \in Faults
  /\ Failed(r)
  /\ IF table.guarded THEN EndsLoading(r) ELSE UNCHANGED <<loading, searching>>

-----------------------------------------------------------------------------
\* The first page has been loaded.
Init ==
  /\ table \in Tables
  /\ form = 0 /\ mode = FALSE /\ query = 0 /\ active = 1 /\ size = Min(Sizes)
  /\ rows = Q(1, Min(Sizes), 0) /\ want = rows
  /\ reqs = {} /\ asks = 0 /\ loading = FALSE /\ searching = FALSE /\ timer = None /\ op = None /\ joined = FALSE

Next ==
  \/ \E k \in 0..1 : TypeKeyword(k)
  \/ Submit \/ Reset \/ ResetElapsed
  \/ \E p \in Pages : handlePageChange(p)
  \/ \E z \in Sizes : handlePageSizeChange(z)
  \/ \E kind \in {"copy", "prev", "refresh", "reload"} : StartOp(kind)
  \/ OpWritesCopy \/ OpUpdatesRows \/ OpRefreshes
  \/ \E r \in reqs : AnswerOk(r) \/ AnswerStale(r) \/ AnswerRefused(r) \/ AnswerRejects(r)

Spec == Init /\ [][Next]_vars

-----------------------------------------------------------------------------
TypeOK ==
  /\ active \in Pages /\ size \in Sizes /\ form \in 0..1 /\ query \in 0..1 /\ asks \in 0..MaxAsks
  /\ rows # None => rows \in [page : Pages, size : Sizes, kw : 0..1]
  /\ \A r \in reqs : r.q.page \in Pages /\ r.id <= asks /\ r.seq <= asks

Idle == reqs = {} /\ op = None /\ timer = None

\* When nothing is under way the pager names the page and the size of the rows above it,
\* whatever was clicked meanwhile and in whichever order the answers came, unless a repeated
\* click was given the answer of an earlier one and that answer does not bring its size.
PagerMatchesRows == (Idle /\ rows # None /\ (table.sized \/ ~joined)) => (rows.page = active /\ rows.size = size)

\* When nothing is under way the table shows the page, the size and the search the user asked
\* for last, unless a repeated click was given the answer of an earlier one.
AskedIsShown == (Idle /\ ~joined) => rows = want

\* A spinner stops once its requests have ended, whatever they answered.
SpinnerEnds == Idle => ~loading /\ ~searching

=============================================================================
