-------------------------- MODULE TaskBillingProofs --------------------------
(***************************************************************************)
(* A video task is billed at most once, for any number of tasks, polling   *)
(* processes, exits and failures.  The argument: billing starts with a won *)
(* compare-and-swap out of an unfinished status into a terminal one;       *)
(* nothing moves a video task out of a terminal status; and a polling loop *)
(* only ever compares against a status that was unfinished when it read    *)
(* it.  So a task that is being billed, or was, cannot be won again.       *)
(***************************************************************************)
EXTENDS TaskBilling, TLAPS, FiniteSetTheorems

\* The row exists exactly for stored tasks, and those are known upstream.
RequestInv(t) ==
    /\ req[t] # "stored" => status[t] = "none"
    /\ req[t] \in {"accepted", "settled", "stored"} => upstream[t] # "none"

\* What a polling loop holds: stored tasks, unfinished when they were listed.
PollerInv(p) ==
    /\ ppc[p] \in {"idle", "loop"} <=> cur[p] = NoTask
    /\ cur[p] # NoTask => req[cur[p]] = "stored"
    /\ \A t \in work[p] : mem[p][t] \notin Terminal /\ req[t] = "stored"
    /\ ppc[p] = "fetched" =>
          /\ mem[p][cur[p]] \notin Terminal
          /\ Kind[cur[p]] # "suno" => answer[p] \in Statuses
    /\ ppc[p] = "save" => Kind[cur[p]] = "suno"

\* A user's fetch concerns a stored live task.
ReaderInv == rpc # "idle" => /\ rtask \in Tasks
                             /\ Kind[rtask] = "live"
                             /\ req[rtask] = "stored"

\* Poller p won the terminal transition of t and has not billed it yet.
Pending(p, t) == cur[p] = t /\ ppc[p] \in {"complete", "funding"}

\* At most one right to bill exists: pending, or used, or not yet won.
BillingInv(t) ==
    Kind[t] = "video" =>
        /\ status[t] \notin Terminal =>
              billed[t] = 0 /\ \A p \in Pollers : ~Pending(p, t)
        /\ billed[t] \in {0, 1}
        /\ billed[t] = 1 => \A p \in Pollers : ~Pending(p, t)
        /\ \A p, q \in Pollers : Pending(p, t) /\ Pending(q, t) => p = q

IInv ==
    /\ TypeOK
    /\ \A t \in Tasks : RequestInv(t) /\ BillingInv(t)
    /\ \A p \in Pollers : PollerInv(p)
    /\ ReaderInv

-----------------------------------------------------------------------------
(* Steps of the requests, of the upstream and of time.                      *)

\* A step that leaves rows, bills and the polling loops' control alone keeps
\* the billing invariant.
LEMMA BillingFrame ==
    ASSUME IInv, UNCHANGED <<status, billed, ppc, cur>>
    PROVE  \A t \in Tasks : BillingInv(t)'
BY DEF IInv, BillingInv, Pending

\* Setting a status keeps the row in its type.
LEMMA SetStatusType ==
    ASSUME TypeOK, NEW t \in Tasks, NEW new \in Statuses, NEW done \in BOOLEAN,
           SetStatus(t, new, done)
    PROVE  /\ status' \in [Tasks -> Statuses]
           /\ complete' \in [Tasks -> BOOLEAN]
           /\ endings' \in [Tasks -> Nat]
<1>1. status' \in [Tasks -> Statuses]
  BY DEF TypeOK, SetStatus
<1>2. complete' \in [Tasks -> BOOLEAN]
  BY Zenon DEF TypeOK, SetStatus
<1>3. endings' \in [Tasks -> Nat]
  BY DEF TypeOK, SetStatus
<1>4. QED  BY <1>1, <1>2, <1>3

\* The same when "done" is read off the new status.
LEMMA EndStatusType ==
    ASSUME TypeOK, NEW t \in Tasks, NEW new \in Statuses,
           SetStatus(t, new, new \in Terminal)
    PROVE  /\ status' \in [Tasks -> Statuses]
           /\ complete' \in [Tasks -> BOOLEAN]
           /\ endings' \in [Tasks -> Nat]
<1> DEFINE done == new \in Terminal
<1>1. done \in BOOLEAN  OBVIOUS
<1>2. SetStatus(t, new, done)  OBVIOUS
<1> HIDE DEF done
<1>3. QED  BY <1>1, <1>2, SetStatusType

\* A request only ever stores a task that has no row yet.
LEMMA RequestStepInv ==
    ASSUME IInv, NEW t \in Tasks, RequestStep(t) \/ RequestExits(t)
    PROVE  IInv'
<1> USE ConstantsAssumption
<1>0. TypeOK /\ \A u \in Tasks : RequestInv(u) /\ BillingInv(u)
  BY DEF IInv
<1>1. TypeOK'
  <2>1. CASE \E q \in Quotas : PreConsumeBilling(t, q)
    BY <1>0, <2>1 DEF TypeOK, PreConsumeBilling, pollVars, readVars
  <2>2. CASE \E f, k \in BOOLEAN : SubmitFails(t, f, k)
    BY <1>0, <2>2 DEF TypeOK, SubmitFails, pollVars, readVars
  <2>3. CASE \E q \in Quotas : SubmitAccepted(t, q)
    BY <1>0, <2>3 DEF TypeOK, SubmitAccepted, pollVars, readVars
  <2>4. CASE \E f, k \in BOOLEAN : SettleBilling(t, f, k)
    BY <1>0, <2>4 DEF TypeOK, SettleBilling, pollVars, readVars
  <2>5. CASE \E ok \in BOOLEAN : InsertTask(t, ok)
    BY <1>0, <2>5 DEF TypeOK, InsertTask, pollVars, readVars, Statuses, Terminal
  <2>6. CASE RequestExits(t)
    BY <1>0, <2>6 DEF TypeOK, RequestExits, dbVars, readVars
  <2>7. CASE PreConsumeFails(t)
    BY <1>0, <2>7 DEF TypeOK, PreConsumeFails, dbVars, pollVars, readVars
  <2>8. QED
    BY <2>1, <2>2, <2>3, <2>4, <2>5, <2>6, <2>7 DEF RequestStep
<1>2. \A u \in Tasks : RequestInv(u)'
  BY <1>0 DEF TypeOK, RequestInv, RequestStep, PreConsumeFails, PreConsumeBilling,
              SubmitFails, SubmitAccepted, SettleBilling, InsertTask, RequestExits, dbVars
<1>3. /\ UNCHANGED <<ppc, work, mem, cur, answer, billed, rpc, rtask>>
      /\ \A u \in Tasks : req[u] = "stored" => req'[u] = "stored"
  BY <1>0 DEF TypeOK, RequestStep, PreConsumeFails, PreConsumeBilling, SubmitFails,
              SubmitAccepted, SettleBilling, InsertTask, RequestExits, dbVars, pollVars, readVars
<1>4. \A p \in Pollers : PollerInv(p)'
  BY <1>0, <1>3 DEF IInv, TypeOK, PollerInv
<1>5. ReaderInv'
  BY <1>3 DEF IInv, ReaderInv
<1>6. \A u \in Tasks : BillingInv(u)'
  <2>1. \A u \in Tasks : status'[u] = status[u] \/ (status[u] = "none" /\ status'[u] = "NOT_START")
    BY <1>0 DEF TypeOK, RequestInv, RequestStep, PreConsumeFails, PreConsumeBilling,
                SubmitFails, SubmitAccepted, SettleBilling, InsertTask, RequestExits, dbVars
  <2>2. QED
    BY <1>0, <1>3, <2>1 DEF BillingInv, Pending, Terminal
<1>7. QED  BY <1>1, <1>2, <1>4, <1>5, <1>6 DEF IInv

\* The upstream and the clock touch neither rows nor bills.
LEMMA OutsideInv ==
    ASSUME IInv, NEW t \in Tasks,
           TimesOut(t) \/ \E how \in {"success", "failure"} : UpstreamEnds(t, how)
    PROVE  IInv'
<1>1. TypeOK'
  <2>1. CASE TimesOut(t)
    <3>1. late' \in [Tasks -> BOOLEAN]
      BY <2>1, Zenon DEF IInv, TypeOK, TimesOut
    <3>2. QED
      BY <2>1, <3>1 DEF IInv, TypeOK, TimesOut, reqVars, pollVars, readVars
  <2>2. CASE \E how \in {"success", "failure"} : UpstreamEnds(t, how)
    BY <2>2 DEF IInv, TypeOK, UpstreamEnds, dbVars, pollVars, readVars
  <2>3. QED  BY <2>1, <2>2
<1>2. UNCHANGED <<status, req, billed, ppc, work, mem, cur, answer, rpc, rtask>>
  BY DEF TimesOut, UpstreamEnds, dbVars, reqVars, pollVars, readVars
<1>3. \A u \in Tasks : RequestInv(u)'
  BY <1>2 DEF IInv, TypeOK, RequestInv, TimesOut, UpstreamEnds, reqVars
<1>4. /\ \A p \in Pollers : PollerInv(p)'
      /\ ReaderInv'
  BY <1>2 DEF IInv, PollerInv, ReaderInv
<1>5. QED  BY <1>1, <1>2, <1>3, <1>4, BillingFrame DEF IInv

-----------------------------------------------------------------------------
(* A user's fetch.                                                          *)

\* A fetch writes live tasks only.
LEMMA ReaderStepInv ==
    ASSUME IInv,
           (\E t \in Tasks : ReadTask(t)) \/ RealtimeFetch \/ RealtimeFails \/ RealtimeSave
    PROVE  IInv'
<1> USE ConstantsAssumption
<1>0. TypeOK /\ ReaderInv /\ \A t \in Tasks : RequestInv(t) /\ BillingInv(t)
  BY DEF IInv
<1>1. CASE \E t \in Tasks : ReadTask(t)
  <2>1. TypeOK'
    BY <1>0, <1>1 DEF TypeOK, ReadTask, dbVars, reqVars, pollVars
  <2>2. ReaderInv'
    BY <1>0, <1>1 DEF ReadTask, ReaderInv, RequestInv, reqVars
  <2>3. QED
    BY <1>1, <2>1, <2>2, BillingFrame
    DEF IInv, RequestInv, PollerInv, ReadTask, dbVars, reqVars, pollVars
<1>2. CASE RealtimeFetch
  <2>1. StatusOf[upstream[rtask]] \in Statuses
    BY <1>0, <1>2 DEF RealtimeFetch, TypeOK, ReaderInv, RequestInv, StatusOf, Statuses,
                      Terminal
  <2>2. TypeOK'
    BY <1>0, <1>2, <2>1 DEF TypeOK, RealtimeFetch, dbVars, reqVars, pollVars
  <2>3. QED
    BY <1>2, <2>2, BillingFrame
    DEF IInv, RequestInv, PollerInv, ReaderInv, RealtimeFetch, dbVars, reqVars, pollVars
<1>3. CASE RealtimeSave
  <2>1. rtask \in Tasks /\ Kind[rtask] = "live" /\ req[rtask] = "stored"
    BY <1>0, <1>3 DEF RealtimeSave, ReaderInv
  <2>2. TypeOK'
    <3>1. CASE status[rtask] = rmem
      <4>1. SetStatus(rtask, ranswer, ranswer \in Terminal) /\ ranswer \in Statuses
        BY <1>0, <1>3, <3>1 DEF RealtimeSave, TypeOK
      <4>2. /\ status' \in [Tasks -> Statuses]
            /\ complete' \in [Tasks -> BOOLEAN]
            /\ endings' \in [Tasks -> Nat]
        BY <1>0, <2>1, <4>1, EndStatusType
      <4>3. QED
        BY <1>0, <1>3, <4>2 DEF TypeOK, RealtimeSave, reqVars, pollVars, Statuses
    <3>2. CASE status[rtask] # rmem
      BY <1>0, <1>3, <3>2 DEF TypeOK, RealtimeSave, reqVars, pollVars, Statuses
    <3>3. QED  BY <3>1, <3>2
  <2>3. \A t \in Tasks : t # rtask => status'[t] = status[t]
    BY <1>0, <1>3, <2>1 DEF TypeOK, RealtimeSave, SetStatus
  <2>4. UNCHANGED <<billed, ppc, cur, req, upstream, work, mem, answer>>
    BY <1>3 DEF RealtimeSave, reqVars, pollVars
  <2>5. \A t \in Tasks : RequestInv(t)' /\ BillingInv(t)'
    BY <1>0, <2>1, <2>3, <2>4 DEF RequestInv, BillingInv, Pending
  <2>6. /\ \A p \in Pollers : PollerInv(p)'
        /\ ReaderInv'
    BY <1>3, <2>4 DEF IInv, PollerInv, ReaderInv, RealtimeSave
  <2>7. QED  BY <2>2, <2>5, <2>6 DEF IInv
<1>4. CASE RealtimeFails
  <2>1. TypeOK'
    BY <1>0, <1>4 DEF TypeOK, RealtimeFails, dbVars, reqVars, pollVars, Statuses
  <2>2. QED
    BY <1>4, <2>1, BillingFrame
    DEF IInv, RequestInv, PollerInv, ReaderInv, RealtimeFails, dbVars, reqVars, pollVars
<1>5. QED  BY <1>1, <1>2, <1>3, <1>4

-----------------------------------------------------------------------------
(* Steps of a polling loop.                                                 *)

\* A step of loop p leaves the other loops, the requests and fetches alone.
Private(p) ==
    /\ \A q \in Pollers \ {p} : /\ ppc'[q] = ppc[q]
                                 /\ cur'[q] = cur[q]
                                 /\ work'[q] = work[q]
                                 /\ mem'[q] = mem[q]
                                 /\ answer'[q] = answer[q]
    /\ UNCHANGED <<req, upstream, rpc, rtask>>

\* What a private step has to show: types, its own loop, rows and bills.
LEMMA PollerStepFrame ==
    ASSUME IInv, NEW p \in Pollers, Private(p), TypeOK', PollerInv(p)',
           \A t \in Tasks : req[t] # "stored" => status'[t] = status[t],
           \A t \in Tasks : BillingInv(t)'
    PROVE  IInv'
<1>1. \A t \in Tasks : RequestInv(t)'
  BY DEF IInv, Private, RequestInv
<1>2. ASSUME NEW q \in Pollers  PROVE PollerInv(q)'
  <2>1. CASE q # p
    BY <2>1 DEF IInv, Private, PollerInv
  <2>2. QED  BY <2>1
<1>3. ReaderInv'
  BY DEF IInv, Private, ReaderInv
<1>4. QED  BY <1>1, <1>2, <1>3 DEF IInv

\* Loop p bills nothing: bills stay, p has no new right to bill, and no row
\* leaves a terminal status.
LEMMA UnbilledStep ==
    ASSUME IInv, NEW p \in Pollers, Private(p), billed' = billed,
           \A t \in Tasks : Pending(p, t)' => Pending(p, t),
           \A t \in Tasks : Kind[t] = "video" /\ status[t] \in Terminal
                              => status'[t] \in Terminal
    PROVE  \A t \in Tasks : BillingInv(t)'
<1> SUFFICES ASSUME NEW t \in Tasks  PROVE BillingInv(t)'
  OBVIOUS
<1>1. \A q \in Pollers : Pending(q, t)' => Pending(q, t)
  BY DEF Private, Pending
<1>2. QED
  BY <1>1 DEF IInv, BillingInv

\* Loop p wins a terminal transition of an unfinished task t and may now bill it.
LEMMA WinningStep ==
    ASSUME IInv, NEW p \in Pollers, Private(p), billed' = billed, NEW t \in Tasks,
           status[t] \notin Terminal, status'[t] \in Terminal,
           \A u \in Tasks \ {t} : status'[u] = status[u] /\ ~Pending(p, u)'
    PROVE  \A u \in Tasks : BillingInv(u)'
<1>1. \A q \in Pollers \ {p}, u \in Tasks : Pending(q, u)' <=> Pending(q, u)
  BY DEF Private, Pending
<1>2. BillingInv(t)'
  BY <1>1 DEF IInv, BillingInv
<1>3. ASSUME NEW u \in Tasks \ {t}  PROVE BillingInv(u)'
  BY <1>1, <1>3 DEF IInv, BillingInv
<1>4. QED  BY <1>2, <1>3

\* A compare-and-swap by loop p against an unfinished status: either nothing
\* happens to any row, or t leaves that status for the new one.
LEMMA CasStep ==
    ASSUME TypeOK, NEW p \in Pollers, NEW t \in Tasks, NEW new \in Statuses, NEW out,
           mem[p][t] \notin Terminal, UpdateWithStatus(p, t, new, out)
    PROVE  /\ status' \in [Tasks -> Statuses]
           /\ complete' \in [Tasks -> BOOLEAN]
           /\ endings' \in [Tasks -> Nat]
           /\ \A u \in Tasks : u # t => status'[u] = status[u]
           /\ \A u \in Tasks : status[u] \in Terminal => status'[u] = status[u]
           /\ out # "fail" /\ CasWins(p, t) =>
                 status[t] \notin Terminal /\ status'[t] = new
<1>1. CASE out # "fail" /\ CasWins(p, t)
  <2>1. SetStatus(t, new, new \in Terminal)
    BY <1>1 DEF UpdateWithStatus
  <2>2. QED
    BY <1>1, <2>1, EndStatusType DEF SetStatus, CasWins, TypeOK
<1>2. CASE ~(out # "fail" /\ CasWins(p, t))
  BY <1>2 DEF UpdateWithStatus, TypeOK
<1>3. QED  BY <1>1, <1>2

\* The control state of a loop keeps its type.
ControlType ==
    /\ ppc \in [Pollers -> {"idle", "loop", "fetched", "complete", "funding", "token",
                            "save"}]
    /\ cur \in [Pollers -> Tasks \cup {NoTask}]
    /\ answer \in [Pollers -> Statuses \cup {"REASON"}]
    /\ owed \in [Pollers -> Int]

\* Going on with the next task, or to the billing of one, keeps it.
LEMMA ContinueType ==
    ASSUME TypeOK, NEW p \in Pollers,
           Continue(p) \/ \E t \in Tasks, delta \in Int : Bill(p, t, delta)
    PROVE  ControlType'
<1>1. CASE Continue(p)
  BY <1>1 DEF TypeOK, ControlType, Continue, Statuses
<1>2. CASE \E t \in Tasks, delta \in Int : Bill(p, t, delta)
  BY <1>2 DEF TypeOK, ControlType, Bill
<1>3. QED  BY <1>1, <1>2

\* Reading a list: only unfinished, stored tasks are put on it.
LEMMA ListInv ==
    ASSUME IInv, NEW p \in Pollers, ListTimedOut(p) \/ ListUnfinished(p) \/ PassEnds(p)
    PROVE  IInv'
<1> USE ConstantsAssumption
<1>0. TypeOK /\ PollerInv(p) /\ \A t \in Tasks : RequestInv(t)
  BY DEF IInv
<1>1. TypeOK'
  <2>1. NoList \in [Tasks -> Statuses]
    BY DEF NoList, Statuses
  <2>2. CASE ListTimedOut(p)
    BY <1>0, <2>2 DEF TypeOK, ListTimedOut, dbVars, reqVars, readVars
  <2>3. CASE ListUnfinished(p)
    BY <1>0, <2>3 DEF TypeOK, ListUnfinished, dbVars, reqVars, readVars
  <2>4. CASE PassEnds(p)
    BY <1>0, <2>1, <2>4 DEF TypeOK, PassEnds, dbVars, reqVars, readVars
  <2>5. QED  BY <2>2, <2>3, <2>4
<1>2. Private(p)
  BY <1>0 DEF TypeOK, Private, ListTimedOut, ListUnfinished, PassEnds, dbVars, reqVars,
              readVars
<1>3. PollerInv(p)'
  BY <1>0 DEF TypeOK, PollerInv, RequestInv, Unfinished, ListTimedOut, ListUnfinished,
              PassEnds, dbVars, reqVars
<1>4. /\ status' = status /\ billed' = billed
      /\ \A t \in Tasks : Pending(p, t)' => Pending(p, t)
  BY <1>0 DEF TypeOK, Pending, ListTimedOut, ListUnfinished, PassEnds, dbVars
<1>5. \A t \in Tasks : BillingInv(t)'
  BY <1>2, <1>4, UnbilledStep
<1>6. QED  BY <1>1, <1>2, <1>3, <1>4, <1>5, PollerStepFrame

\* The sweep: the right to refund is won with the row.
LEMMA SweepInv ==
    ASSUME IInv, NEW p \in Pollers, NEW t \in Tasks, NEW out \in Outcomes,
           SweepTimedOutTask(p, t, out)
    PROVE  IInv'
<1> USE ConstantsAssumption
<1>0. /\ TypeOK /\ PollerInv(p) /\ \A u \in Tasks : RequestInv(u)
      /\ mem[p][t] \notin Terminal /\ req[t] = "stored"
  BY DEF IInv, PollerInv, SweepTimedOutTask
<1>1. UpdateWithStatus(p, t, "FAILURE", out) /\ "FAILURE" \in Statuses
  BY DEF SweepTimedOutTask, Statuses, Terminal
<1>2. /\ status' \in [Tasks -> Statuses]
      /\ complete' \in [Tasks -> BOOLEAN]
      /\ endings' \in [Tasks -> Nat]
      /\ \A u \in Tasks : u # t => status'[u] = status[u]
      /\ \A u \in Tasks : status[u] \in Terminal => status'[u] = status[u]
      /\ out # "fail" /\ CasWins(p, t) =>
            status[t] \notin Terminal /\ status'[t] = "FAILURE"
  BY <1>0, <1>1, CasStep
<1>3. TypeOK'
  <2>1. quota[t] \in Nat
    BY <1>0 DEF TypeOK
  <2>2. Bill(p, t, -quota[t]) \/ Continue(p)
    BY DEF SweepTimedOutTask
  <2>3. ControlType'
    BY <1>0, <2>1, <2>2, ContinueType
  <2>4. QED
    BY <1>0, <1>2, <2>3 DEF TypeOK, ControlType, SweepTimedOutTask, reqVars, readVars
<1>4. Private(p)
  BY <1>0 DEF TypeOK, Private, SweepTimedOutTask, Bill, Continue, reqVars, readVars
<1>5. PollerInv(p)'
  BY <1>0 DEF TypeOK, PollerInv, SweepTimedOutTask, Bill, Continue, reqVars
<1>6. \A u \in Tasks : BillingInv(u)'
  <2>1. CASE out = "ok" /\ CasWins(p, t) /\ quota[t] # 0
    <3>1. \A u \in Tasks \ {t} : ~Pending(p, u)'
      BY <1>0, <2>1 DEF TypeOK, SweepTimedOutTask, Bill, Pending
    <3>2. billed' = billed
      BY DEF SweepTimedOutTask
    <3>3. QED
      BY <1>2, <1>4, <2>1, <3>1, <3>2, WinningStep DEF Terminal
  <2>2. CASE ~(out = "ok" /\ CasWins(p, t) /\ quota[t] # 0)
    <3>1. billed' = billed /\ \A u \in Tasks : ~Pending(p, u)'
      BY <1>0, <2>2 DEF TypeOK, SweepTimedOutTask, Continue, Pending
    <3>2. QED
      BY <1>2, <1>4, <3>1, UnbilledStep
  <2>3. QED  BY <2>1, <2>2
<1>7. QED  BY <1>0, <1>2, <1>3, <1>4, <1>5, <1>6, PollerStepFrame

\* Polling a task up to its answer, and the unbilled closing of a task whose
\* channel is gone.
LEMMA FetchInv ==
    ASSUME IInv, NEW p \in Pollers, NEW t \in Tasks,
           ChannelMissing(p, t) \/ FetchTask(p, t) \/ FetchFails(p, t)
    PROVE  IInv'
<1> USE ConstantsAssumption
<1>0. /\ TypeOK /\ PollerInv(p) /\ \A u \in Tasks : RequestInv(u)
      /\ mem[p][t] \notin Terminal /\ req[t] = "stored" /\ upstream[t] # "none"
      /\ cur[p] = NoTask /\ ppc[p] = "loop"
  BY DEF IInv, PollerInv, RequestInv, ChannelMissing, FetchTask, FetchFails
<1>1. Private(p)
  BY <1>0 DEF TypeOK, Private, ChannelMissing, FetchTask, FetchFails, dbVars, reqVars,
              readVars
<1>2. CASE ChannelMissing(p, t)
  <2>1. SetStatus(t, "FAILURE", TRUE) /\ "FAILURE" \in Statuses /\ TRUE \in BOOLEAN
    BY <1>2 DEF ChannelMissing, Statuses, Terminal
  <2>2. /\ status' \in [Tasks -> Statuses]
        /\ complete' \in [Tasks -> BOOLEAN]
        /\ endings' \in [Tasks -> Nat]
    BY <1>0, <2>1, SetStatusType
  <2>3. TypeOK'
    BY <1>0, <1>2, <2>2 DEF TypeOK, ChannelMissing, reqVars, readVars
  <2>4. PollerInv(p)'
    BY <1>0, <1>2 DEF TypeOK, PollerInv, ChannelMissing, reqVars
  <2>5. /\ \A u \in Tasks : u # t => status'[u] = status[u]
        /\ \A u \in Tasks : status[u] \in Terminal => status'[u] \in Terminal
    BY <1>0, <2>1 DEF SetStatus, TypeOK, Terminal
  <2>6. billed' = billed /\ \A u \in Tasks : ~Pending(p, u)'
    BY <1>0, <1>2 DEF ChannelMissing, Pending
  <2>7. \A u \in Tasks : BillingInv(u)'
    BY <1>1, <2>5, <2>6, UnbilledStep
  <2>8. QED  BY <1>0, <1>1, <2>3, <2>4, <2>5, <2>7, PollerStepFrame
<1>3. CASE FetchTask(p, t)
  <2>1. PICK a \in Answers(t) : answer' = [answer EXCEPT ![p] = a]
    BY <1>3 DEF FetchTask
  <2>2. a \in Statuses \cup {"REASON"} /\ (Kind[t] # "suno" => a \in Statuses)
    BY <1>0, <2>1 DEF TypeOK, Answers, StatusOf, Statuses, Terminal
  <2>3. TypeOK'
    BY <1>0, <1>3, <2>1, <2>2 DEF TypeOK, FetchTask, dbVars, reqVars, readVars
  <2>4. PollerInv(p)'
    BY <1>0, <1>3, <2>1, <2>2 DEF TypeOK, PollerInv, FetchTask, dbVars, reqVars
  <2>5. status' = status /\ billed' = billed /\ \A u \in Tasks : ~Pending(p, u)'
    BY <1>0, <1>3 DEF TypeOK, FetchTask, Pending, dbVars
  <2>6. \A u \in Tasks : BillingInv(u)'
    BY <1>1, <2>5, UnbilledStep
  <2>7. QED  BY <1>1, <2>3, <2>4, <2>5, <2>6, PollerStepFrame
<1>4. CASE FetchFails(p, t)
  <2>1. TypeOK'
    BY <1>0, <1>4 DEF TypeOK, FetchFails, dbVars, reqVars, readVars
  <2>2. PollerInv(p)'
    BY <1>0, <1>4 DEF TypeOK, PollerInv, FetchFails, dbVars, reqVars
  <2>3. status' = status /\ billed' = billed /\ \A u \in Tasks : ~Pending(p, u)'
    BY <1>0, <1>4 DEF FetchFails, Pending, dbVars
  <2>4. \A u \in Tasks : BillingInv(u)'
    BY <1>1, <2>3, UnbilledStep
  <2>5. QED  BY <1>1, <2>1, <2>2, <2>3, <2>4, PollerStepFrame
<1>5. QED  BY <1>2, <1>3, <1>4

\* Using an answer about a task that is not suno's: the right to refund or to
\* settle is won with the row.
LEMMA UpdateVideoInv ==
    ASSUME IInv, NEW p \in Pollers, NEW out \in Outcomes, UpdateVideoSingleTask(p, out)
    PROVE  IInv'
<1> USE ConstantsAssumption
<1> DEFINE t == cur[p]
           new == answer[p]
<1>a. TypeOK /\ PollerInv(p) /\ \A u \in Tasks : RequestInv(u)
  BY DEF IInv
<1>b. ppc[p] = "fetched" /\ Kind[t] # "suno" /\ cur[p] \in Tasks \cup {NoTask}
  BY <1>a DEF TypeOK, UpdateVideoSingleTask
<1>c. t \in Tasks /\ mem[p][t] \notin Terminal /\ req[t] = "stored" /\ new \in Statuses
  BY <1>a, <1>b DEF PollerInv
<1>0. /\ TypeOK /\ PollerInv(p) /\ \A u \in Tasks : RequestInv(u)
      /\ t \in Tasks /\ mem[p][t] \notin Terminal /\ req[t] = "stored"
      /\ new \in Statuses /\ ppc[p] = "fetched"
  BY <1>a, <1>b, <1>c
<1>1. UpdateWithStatus(p, t, new, out)
  BY DEF UpdateVideoSingleTask
<1>2. /\ status' \in [Tasks -> Statuses]
      /\ complete' \in [Tasks -> BOOLEAN]
      /\ endings' \in [Tasks -> Nat]
      /\ \A u \in Tasks : u # t => status'[u] = status[u]
      /\ \A u \in Tasks : status[u] \in Terminal => status'[u] = status[u]
      /\ out # "fail" /\ CasWins(p, t) => status[t] \notin Terminal /\ status'[t] = new
  BY <1>0, <1>1, CasStep
<1>3. TypeOK'
  <2>1. quota[t] \in Nat
    BY <1>0 DEF TypeOK
  <2>2. CASE Bill(p, t, -quota[t]) \/ Continue(p)
    <3>1. ControlType'
      BY <1>0, <2>1, <2>2, ContinueType
    <3>2. QED
      BY <1>0, <1>2, <3>1 DEF TypeOK, ControlType, UpdateVideoSingleTask, reqVars, readVars
  <2>3. CASE ppc' = [ppc EXCEPT ![p] = "complete"] /\ UNCHANGED <<cur, answer, owed>>
    BY <1>0, <1>2, <2>3 DEF TypeOK, UpdateVideoSingleTask, reqVars, readVars
  <2>4. QED  BY <2>2, <2>3 DEF UpdateVideoSingleTask
<1>4. Private(p)
  BY <1>0 DEF TypeOK, Private, UpdateVideoSingleTask, Bill, Continue, reqVars, readVars
<1>5. PollerInv(p)'
  BY <1>0 DEF TypeOK, PollerInv, UpdateVideoSingleTask, Bill, Continue, reqVars
<1>6. \A u \in Tasks : BillingInv(u)'
  <2>1. billed' = billed
    BY DEF UpdateVideoSingleTask
  <2>2. CASE out = "ok" /\ CasWins(p, t) /\ new \in Terminal
    <3>1. \A u \in Tasks \ {t} : ~Pending(p, u)'
      BY <1>0 DEF TypeOK, UpdateVideoSingleTask, Bill, Continue, Pending
    <3>2. QED
      BY <1>0, <1>2, <1>4, <2>1, <2>2, <3>1, WinningStep
  <2>3. CASE ~(out = "ok" /\ CasWins(p, t) /\ new \in Terminal)
    <3>1. \A u \in Tasks : ~Pending(p, u)'
      BY <1>0, <2>3 DEF TypeOK, UpdateVideoSingleTask, Continue, Pending, Terminal
    <3>2. QED
      BY <1>2, <1>4, <2>1, <3>1, UnbilledStep
  <2>4. QED  BY <2>2, <2>3
<1>7. QED  BY <1>0, <1>2, <1>3, <1>4, <1>5, <1>6, PollerStepFrame

\* The steps between winning and adjusting: a right to bill is kept or dropped.
LEMMA PrepareInv ==
    ASSUME IInv, NEW p \in Pollers,
           UpdateSunoTask(p) \/ \E c \in Costs : SettleTaskBillingOnComplete(p, c)
    PROVE  IInv'
<1> USE ConstantsAssumption
<1> DEFINE t == cur[p]
<1>0. /\ TypeOK /\ PollerInv(p) /\ t \in Tasks /\ quota[t] \in Nat
      /\ ppc[p] \in {"fetched", "complete"}
  BY DEF IInv, TypeOK, PollerInv, UpdateSunoTask, SettleTaskBillingOnComplete
<1>1. CASE UpdateSunoTask(p)
  <2>1. TypeOK'
    <3>1. CASE Bill(p, t, -quota[t]) \/ Continue(p)
      <4>1. ControlType'
        BY <1>0, <3>1, ContinueType
      <4>2. QED
        BY <1>0, <1>1, <4>1 DEF TypeOK, ControlType, UpdateSunoTask, dbVars, reqVars,
                                readVars
    <3>2. CASE ppc' = [ppc EXCEPT ![p] = "save"] /\ UNCHANGED <<cur, answer, owed>>
      BY <1>0, <1>1, <3>2 DEF TypeOK, UpdateSunoTask, dbVars, reqVars, readVars
    <3>3. QED  BY <1>1, <3>1, <3>2 DEF UpdateSunoTask
  <2>2. Private(p)
    BY <1>0, <1>1 DEF TypeOK, Private, UpdateSunoTask, Bill, Continue, reqVars, readVars
  <2>3. PollerInv(p)'
    BY <1>0, <1>1 DEF TypeOK, PollerInv, UpdateSunoTask, Bill, Continue, reqVars
  <2>4. \A u \in Tasks : BillingInv(u)'
    <3>1. UNCHANGED <<status, billed>> /\ Kind[t] # "video"
      BY <1>1 DEF UpdateSunoTask, dbVars
    <3>2. \A u \in Tasks : Kind[u] = "video" => \A q \in Pollers : Pending(q, u)' => Pending(q, u)
      BY <1>0, <1>1, <2>2, <3>1
      DEF TypeOK, Private, UpdateSunoTask, Bill, Continue, Pending
    <3>3. QED
      BY <3>1, <3>2 DEF IInv, BillingInv
  <2>5. QED
    BY <1>1, <2>1, <2>2, <2>3, <2>4, PollerStepFrame DEF UpdateSunoTask, dbVars
<1>2. ASSUME NEW c \in Costs, SettleTaskBillingOnComplete(p, c)  PROVE IInv'
  <2>1. TypeOK'
    <3>1. Bill(p, t, c - quota[t]) \/ Continue(p)
      BY <1>2 DEF SettleTaskBillingOnComplete
    <3>2. c - quota[t] \in Int
      BY <1>0
    <3>3. ControlType'
      BY <1>0, <3>1, <3>2, ContinueType
    <3>4. QED
      BY <1>0, <1>2, <3>3 DEF TypeOK, ControlType, SettleTaskBillingOnComplete, dbVars,
                              reqVars, readVars
  <2>2. Private(p)
    BY <1>0, <1>2 DEF TypeOK, Private, SettleTaskBillingOnComplete, Bill, Continue,
                      reqVars, readVars
  <2>3. PollerInv(p)'
    BY <1>0, <1>2 DEF TypeOK, PollerInv, SettleTaskBillingOnComplete, Bill, Continue,
                      reqVars
  <2>4. /\ status' = status /\ billed' = billed
        /\ \A u \in Tasks : Pending(p, u)' => Pending(p, u)
    BY <1>0, <1>2 DEF TypeOK, SettleTaskBillingOnComplete, Bill, Continue, Pending, dbVars
  <2>5. \A u \in Tasks : BillingInv(u)'
    BY <2>2, <2>4, UnbilledStep
  <2>6. QED
    BY <2>1, <2>2, <2>3, <2>4, <2>5, PollerStepFrame
<1>3. QED  BY <1>1, <1>2

\* So does going on after the billing, which keeps the loop's own invariant.
LEMMA BilledType ==
    ASSUME TypeOK, NEW p \in Pollers, cur[p] \in Tasks, Billed(p)
    PROVE  ControlType'
<1>1. CASE Continue(p)
  BY <1>1, ContinueType
<1>2. CASE ppc' = [ppc EXCEPT ![p] = "save"] /\ UNCHANGED <<cur, answer, owed>>
  BY <1>2 DEF TypeOK, ControlType
<1>3. QED  BY <1>1, <1>2 DEF Billed

\* The right to bill is used: the charge is adjusted, and nobody may adjust it
\* again.  A failed adjustment gives the right up.
LEMMA AdjustFundingInv ==
    ASSUME IInv, NEW p \in Pollers, NEW ok \in BOOLEAN, TaskAdjustFunding(p, ok)
    PROVE  IInv'
<1> USE ConstantsAssumption
<1>a. TypeOK /\ PollerInv(p) /\ ppc[p] = "funding"
  BY DEF IInv, TaskAdjustFunding
<1>b. PICK t \in Tasks : cur[p] = t
  BY <1>a DEF TypeOK, PollerInv
<1>0. TypeOK /\ PollerInv(p) /\ ppc[p] = "funding" /\ cur[p] = t
  BY <1>a, <1>b
<1>1. TypeOK'
  <2>1. owed[p] \in Int /\ funds[t] \in Int /\ billed[t] \in Nat
    BY <1>0 DEF TypeOK
  <2>2. funds' \in [Tasks -> Int] /\ billed' \in [Tasks -> Nat]
    <3>1. CASE ok
      <4>1. /\ funds' = [funds EXCEPT ![t] = @ + owed[p]]
            /\ billed' = [billed EXCEPT ![t] = @ + 1]
        BY <1>0, <3>1 DEF TaskAdjustFunding
      <4>2. QED  BY <1>0, <2>1, <4>1 DEF TypeOK
    <3>2. CASE ~ok
      BY <1>0, <3>2 DEF TypeOK, TaskAdjustFunding
    <3>3. QED  BY <3>1, <3>2
  <2>3. ControlType'
    <3>1. CASE ok
      BY <1>0, <3>1 DEF TypeOK, ControlType, TaskAdjustFunding
    <3>2. CASE ~ok
      BY <1>0, <3>2, BilledType DEF TaskAdjustFunding
    <3>3. QED  BY <3>1, <3>2
  <2>4. QED
    BY <1>0, <2>2, <2>3 DEF TypeOK, ControlType, TaskAdjustFunding, reqVars, readVars
<1>2. Private(p)
  BY <1>0 DEF TypeOK, Private, TaskAdjustFunding, Billed, Continue, reqVars, readVars
<1>3. PollerInv(p)'
  BY <1>0 DEF TypeOK, PollerInv, TaskAdjustFunding, Billed, Continue, reqVars
<1>4. status' = status /\ \A u \in Tasks : ~Pending(p, u)'
  BY <1>0 DEF TypeOK, TaskAdjustFunding, Billed, Continue, Pending
<1>5. \A u \in Tasks : BillingInv(u)'
  <2>1. CASE ~ok
    BY <1>2, <1>4, <2>1, UnbilledStep DEF TaskAdjustFunding
  <2>2. CASE ok
    <3>1. \A q \in Pollers \ {p}, u \in Tasks : Pending(q, u)' <=> Pending(q, u)
      BY <1>2 DEF Private, Pending
    <3>2. billed' = [billed EXCEPT ![t] = @ + 1]
      BY <1>0, <2>2 DEF TaskAdjustFunding
    <3>3. \A u \in Tasks \ {t} : billed'[u] = billed[u]
      BY <1>0, <3>2 DEF TypeOK
    <3>4. ASSUME NEW u \in Tasks \ {t}  PROVE BillingInv(u)'
      BY <1>4, <3>1, <3>3, <3>4 DEF IInv, BillingInv
    <3>5. ASSUME Kind[t] = "video"  PROVE BillingInv(t)'
      <4>1. Pending(p, t) /\ BillingInv(t)
        BY <1>0 DEF IInv, Pending
      <4>2. status[t] \in Terminal /\ billed[t] = 0
        BY <3>5, <4>1 DEF BillingInv
      <4>3. \A q \in Pollers \ {p} : ~Pending(q, t)
        BY <3>5, <4>1 DEF BillingInv
      <4>4. billed'[t] = 1
        BY <3>2, <4>2, <1>0 DEF TypeOK
      <4>5. \A q \in Pollers : ~Pending(q, t)'
        BY <1>0, <1>4, <3>1, <4>3
      <4>6. QED  BY <1>4, <4>2, <4>4, <4>5 DEF BillingInv
    <3>6. ASSUME Kind[t] # "video"  PROVE BillingInv(t)'
      BY <3>6 DEF BillingInv
    <3>7. QED  BY <3>4, <3>5, <3>6
  <2>3. QED  BY <2>1, <2>2
<1>6. QED  BY <1>1, <1>2, <1>3, <1>4, <1>5, PollerStepFrame

\* After the adjustment: the token, the save of a suno task, and a process that
\* exits; none of them bills, and only suno rows are overwritten.
LEMMA AfterwardsInv ==
    ASSUME IInv, NEW p \in Pollers,
           \/ \E ok \in BOOLEAN : TaskAdjustTokenQuota(p, ok) \/ SaveSunoTask(p, ok)
           \/ PollerExits(p)
    PROVE  IInv'
<1> USE ConstantsAssumption
<1>a. TypeOK /\ PollerInv(p)
  BY DEF IInv
<1>1. ASSUME NEW ok \in BOOLEAN, TaskAdjustTokenQuota(p, ok)  PROVE IInv'
  <2>a. ppc[p] = "token"
    BY <1>1 DEF TaskAdjustTokenQuota
  <2>b. PICK t \in Tasks : cur[p] = t
    BY <1>a, <2>a DEF TypeOK, PollerInv
  <2>1. TypeOK'
    <3>1. ControlType'
      BY <1>1, <1>a, <2>b, BilledType DEF TaskAdjustTokenQuota
    <3>2. owed[p] \in Int /\ tok[t] \in Int
      BY <1>a DEF TypeOK
    <3>3. tok' = [tok EXCEPT ![t] = IF ok THEN @ + owed[p] ELSE @]
      BY <1>1, <2>b DEF TaskAdjustTokenQuota
    <3>4. tok' \in [Tasks -> Int]
      BY <1>a, <3>2, <3>3 DEF TypeOK
    <3>5. QED
      BY <1>1, <1>a, <3>1, <3>4 DEF TypeOK, ControlType, TaskAdjustTokenQuota, reqVars,
                                    readVars
  <2>2. Private(p)
    BY <1>1, <1>a DEF TypeOK, Private, TaskAdjustTokenQuota, Billed, Continue, reqVars,
                      readVars
  <2>3. PollerInv(p)'
    BY <1>1, <1>a, <2>b DEF TypeOK, PollerInv, TaskAdjustTokenQuota, Billed, Continue,
                            reqVars
  <2>4. /\ status' = status /\ billed' = billed
        /\ \A u \in Tasks : ~Pending(p, u)'
    BY <1>1, <1>a DEF TypeOK, TaskAdjustTokenQuota, Billed, Continue, Pending
  <2>5. \A u \in Tasks : BillingInv(u)'
    BY <2>2, <2>4, UnbilledStep
  <2>6. QED  BY <2>1, <2>2, <2>3, <2>4, <2>5, PollerStepFrame
<1>2. ASSUME NEW ok \in BOOLEAN, SaveSunoTask(p, ok)  PROVE IInv'
  <2>a. ppc[p] = "save"
    BY <1>2 DEF SaveSunoTask
  <2>b. PICK t \in Tasks : cur[p] = t
    BY <1>a, <2>a DEF TypeOK, PollerInv
  <2>c. Kind[t] = "suno" /\ req[t] = "stored"
    BY <1>a, <2>a, <2>b DEF PollerInv
  <2>0. /\ status' \in [Tasks -> Statuses]
        /\ complete' \in [Tasks -> BOOLEAN]
        /\ endings' \in [Tasks -> Nat]
        /\ \A u \in Tasks \ {t} : status'[u] = status[u]
    <3> DEFINE new == IF answer[p] = "REASON" THEN mem[p][t] ELSE answer[p]
               done == answer[p] \in Terminal \cup {"REASON"}
    <3>1. new \in Statuses /\ done \in BOOLEAN
      BY <1>a DEF TypeOK
    <3>2. CASE ok
      <4>1. SetStatus(t, new, done)
        BY <1>2, <2>b, <3>2 DEF SaveSunoTask
      <4> HIDE DEF new, done
      <4>2. \A u \in Tasks \ {t} : status'[u] = status[u]
        BY <1>a, <4>1 DEF SetStatus, TypeOK
      <4>3. QED  BY <1>a, <3>1, <4>1, <4>2, SetStatusType
    <3>3. CASE ~ok
      BY <1>2, <1>a, <3>3 DEF SaveSunoTask, TypeOK
    <3>4. QED  BY <3>2, <3>3
  <2>1. TypeOK'
    <3>1. ControlType'
      BY <1>2, <1>a, ContinueType DEF SaveSunoTask
    <3>2. QED
      BY <1>2, <1>a, <2>0, <3>1 DEF TypeOK, ControlType, SaveSunoTask, reqVars, readVars
  <2>2. Private(p)
    BY <1>2, <1>a DEF TypeOK, Private, SaveSunoTask, Continue, reqVars, readVars
  <2>3. PollerInv(p)'
    BY <1>2, <1>a, <2>b DEF TypeOK, PollerInv, SaveSunoTask, Continue, reqVars
  <2>4. billed' = billed /\ \A u \in Tasks : ~Pending(p, u)'
    BY <1>2, <1>a DEF TypeOK, SaveSunoTask, Continue, Pending
  <2>5. \A u \in Tasks : BillingInv(u)'
    BY <2>0, <2>2, <2>4, <2>c, UnbilledStep
  <2>6. QED  BY <2>0, <2>1, <2>2, <2>3, <2>5, <2>c, PollerStepFrame
<1>3. CASE PollerExits(p)
  <2>1. TypeOK'
    <3>1. NoList \in [Tasks -> Statuses] /\ "none" \in Statuses
      BY DEF NoList, Statuses
    <3>2. QED
      BY <1>3, <1>a, <3>1 DEF TypeOK, PollerExits, dbVars, reqVars, readVars
  <2>2. Private(p)
    BY <1>3, <1>a DEF TypeOK, Private, PollerExits, reqVars, readVars
  <2>3. PollerInv(p)'
    BY <1>3, <1>a DEF TypeOK, PollerInv, PollerExits, reqVars
  <2>4. /\ status' = status /\ billed' = billed
        /\ \A u \in Tasks : ~Pending(p, u)'
    BY <1>3, <1>a DEF TypeOK, PollerExits, Pending, dbVars
  <2>5. \A u \in Tasks : BillingInv(u)'
    BY <2>2, <2>4, UnbilledStep
  <2>6. QED  BY <2>1, <2>2, <2>3, <2>4, <2>5, PollerStepFrame
<1>4. QED  BY <1>1, <1>2, <1>3

-----------------------------------------------------------------------------
(* The theorems.                                                            *)

\* Before the first request nothing is stored, billed or held.
LEMMA InitInv == ASSUME Init PROVE IInv
<1> USE ConstantsAssumption
<1>1. TypeOK
  BY DEF Init, TypeOK, NoList, Statuses
<1>2. \A t \in Tasks : RequestInv(t) /\ BillingInv(t)
  BY DEF Init, RequestInv, BillingInv, Pending, Terminal
<1>3. (\A p \in Pollers : PollerInv(p)) /\ ReaderInv
  BY DEF Init, PollerInv, ReaderInv
<1>4. QED  BY <1>1, <1>2, <1>3 DEF IInv

\* Every step of every process keeps the invariant.
LEMMA StepInv == ASSUME IInv, [Next]_vars PROVE IInv'
<1>1. CASE UNCHANGED vars
  <2>1. /\ UNCHANGED <<status, complete, late, quota, funds, tok, billed, endings>>
        /\ UNCHANGED <<upstream, req, ppc, phase, work, mem, cur, answer, owed, exits>>
        /\ UNCHANGED <<rpc, rtask, rmem, ranswer, reads>>
    BY <1>1 DEF vars, dbVars, reqVars, pollVars, readVars
  <2>2. TypeOK'
    BY <2>1 DEF IInv, TypeOK
  <2>3. QED
    BY <2>1, <2>2, BillingFrame DEF IInv, RequestInv, PollerInv, ReaderInv
<1>2. ASSUME NEW t \in Tasks, RequestStep(t) \/ RequestExits(t)  PROVE IInv'
  BY <1>2, RequestStepInv
<1>3. ASSUME NEW t \in Tasks,
             TimesOut(t) \/ \E how \in {"success", "failure"} : UpstreamEnds(t, how)
      PROVE  IInv'
  BY <1>3, OutsideInv
<1>4. ASSUME NEW p \in Pollers, PollerStep(p) \/ PollerExits(p)  PROVE IInv'
  BY <1>4, ListInv, SweepInv, FetchInv, UpdateVideoInv, PrepareInv, AdjustFundingInv,
     AfterwardsInv DEF PollerStep
<1>5. CASE (\E t \in Tasks : ReadTask(t)) \/ RealtimeFetch \/ RealtimeFails \/ RealtimeSave
  BY <1>5, ReaderStepInv
<1>6. QED  BY <1>1, <1>2, <1>3, <1>4, <1>5 DEF Next

\* The inductive invariant holds of every behaviour.
THEOREM Invariance == Spec => []IInv
<1>1. Init => IInv
  BY InitInv
<1>2. IInv /\ [Next]_vars => IInv'
  BY StepInv
<1>3. QED  BY <1>1, <1>2, PTL DEF Spec

\* The variables keep their types: in particular a polling loop never acts on
\* a status, a task or an amount it did not obtain.
THEOREM TypeCorrect == Spec => []TypeOK
<1>1. IInv => TypeOK
  BY DEF IInv
<1>2. QED  BY <1>1, Invariance, PTL

\* However many processes poll, and wherever they stop, the charge of a video
\* task is refunded or adjusted at most once.
THEOREM VideoBilledOnce == Spec => []BilledAtMostOnce
<1>1. IInv => BilledAtMostOnce
  BY DEF IInv, BillingInv, BilledAtMostOnce
<1>2. QED  BY <1>1, Invariance, PTL

\* What a step may do to the row of a video task that has ended: a polling loop
\* compares with an unfinished status and so loses; the bulk update of a task
\* without a channel writes a terminal status; nobody else writes it.
LEMMA TerminalStep ==
    ASSUME IInv, [Next]_vars, NEW t \in Tasks, Kind[t] = "video", status[t] \in Terminal
    PROVE  status'[t] \in Terminal
<1> USE ConstantsAssumption
<1>0. TypeOK /\ ReaderInv /\ \A u \in Tasks : RequestInv(u)
  BY DEF IInv
<1>1. CASE UNCHANGED vars
  BY <1>1 DEF vars, dbVars
<1>2. ASSUME NEW u \in Tasks,
             RequestStep(u) \/ RequestExits(u) \/ TimesOut(u)
               \/ \E how \in {"success", "failure"} : UpstreamEnds(u, how)
      PROVE  status'[t] = status[t]
  <2>1. status[t] # "none"
    BY DEF Terminal
  <2>2. QED
    BY <1>0, <1>2, <2>1
    DEF TypeOK, RequestInv, RequestStep, PreConsumeFails, PreConsumeBilling, SubmitFails,
        SubmitAccepted, SettleBilling, InsertTask, RequestExits, TimesOut, UpstreamEnds, dbVars
<1>3. ASSUME NEW p \in Pollers, PollerStep(p) \/ PollerExits(p)
      PROVE  status'[t] \in Terminal
  <2>0. PollerInv(p)
    BY DEF IInv
  <2>1. ASSUME NEW u \in Tasks, NEW out \in Outcomes, SweepTimedOutTask(p, u, out)
        PROVE  status'[t] \in Terminal
    <3>1. mem[p][u] \notin Terminal /\ UpdateWithStatus(p, u, "FAILURE", out)
      BY <2>0, <2>1 DEF PollerInv, SweepTimedOutTask
    <3>2. "FAILURE" \in Statuses
      BY DEF Statuses, Terminal
    <3>3. QED  BY <1>0, <3>1, <3>2, CasStep
  <2>2. ASSUME NEW u \in Tasks, ChannelMissing(p, u)  PROVE status'[t] \in Terminal
    BY <1>0, <2>2 DEF TypeOK, ChannelMissing, SetStatus, Terminal
  <2>3. ASSUME NEW out \in Outcomes, UpdateVideoSingleTask(p, out)
        PROVE  status'[t] \in Terminal
    <3>1. /\ ppc[p] = "fetched" /\ Kind[cur[p]] # "suno"
          /\ UpdateWithStatus(p, cur[p], answer[p], out)
      BY <2>3 DEF UpdateVideoSingleTask
    <3>2. cur[p] \in Tasks /\ mem[p][cur[p]] \notin Terminal /\ answer[p] \in Statuses
      BY <1>0, <2>0, <3>1 DEF TypeOK, PollerInv
    <3>3. QED  BY <1>0, <3>1, <3>2, CasStep
  <2>4. ASSUME NEW ok \in BOOLEAN, SaveSunoTask(p, ok)  PROVE status'[t] = status[t]
    <3>1. cur[p] # t
      BY <2>0, <2>4 DEF PollerInv, SaveSunoTask
    <3>2. QED  BY <1>0, <2>4, <3>1 DEF TypeOK, SaveSunoTask, SetStatus
  <2>5. CASE \/ ListTimedOut(p) \/ ListUnfinished(p) \/ PassEnds(p) \/ UpdateSunoTask(p)
             \/ PollerExits(p)
             \/ \E u \in Tasks : FetchTask(p, u) \/ FetchFails(p, u)
             \/ \E c \in Costs : SettleTaskBillingOnComplete(p, c)
             \/ \E ok \in BOOLEAN : TaskAdjustFunding(p, ok) \/ TaskAdjustTokenQuota(p, ok)
    BY <2>5 DEF ListTimedOut, ListUnfinished, PassEnds, UpdateSunoTask, PollerExits,
                FetchTask, FetchFails, SettleTaskBillingOnComplete, TaskAdjustFunding,
                TaskAdjustTokenQuota, dbVars
  <2>6. QED  BY <1>3, <2>1, <2>2, <2>3, <2>4, <2>5 DEF PollerStep
<1>4. CASE (\E u \in Tasks : ReadTask(u)) \/ RealtimeFetch \/ RealtimeFails
  BY <1>4 DEF ReadTask, RealtimeFetch, RealtimeFails, dbVars
<1>5. CASE RealtimeSave
  BY <1>0, <1>5 DEF TypeOK, ReaderInv, RealtimeSave, SetStatus
<1>6. QED  BY <1>1, <1>2, <1>3, <1>4, <1>5 DEF Next

\* No late answer, stale list or restart brings a video task back from a
\* terminal status.
THEOREM VideoTerminalIsFinal == Spec => TerminalIsFinal
<1>1. IInv /\ [Next]_vars =>
        [\A t \in Tasks :
            Kind[t] = "video" /\ status[t] \in Terminal => status'[t] \in Terminal]_vars
  BY TerminalStep
<1>2. QED  BY <1>1, Invariance, PTL DEF Spec, TerminalIsFinal

-----------------------------------------------------------------------------
(***************************************************************************)
(* What a task is charged, for any number of tasks, polling processes and  *)
(* exits.  The first part shows that only one loop has the right to        *)
(* bill a video task; here the amounts follow: a refund gives back what    *)
(* was charged and no more, and without failures the charge of a task that *)
(* has ended is what its status says.                                      *)
(***************************************************************************)

\* Loop p has adjusted the funding of t and not yet the token.
Adjusting(p, t) == cur[p] = t /\ ppc[p] = "token"

\* Until a video task is billed it is charged its quota; who bills it gives back
\* at most that, and the token's part is outstanding in at most one loop.
ChargeInv(t) ==
    Kind[t] = "video" =>
        /\ funds[t] >= 0 /\ tok[t] >= 0
        /\ req[t] \in {"settled", "stored"} /\ billed[t] = 0 =>
              funds[t] = quota[t] /\ tok[t] = quota[t]
        /\ \A p \in Pollers : cur[p] = t /\ ppc[p] \in {"funding", "token"} =>
              owed[p] + quota[t] >= 0
        /\ \A p \in Pollers : Adjusting(p, t) => billed[t] = 1 /\ tok[t] = quota[t]
        /\ \A p, q \in Pollers : Adjusting(p, t) /\ Adjusting(q, t) => p = q

CInv == IInv /\ \A t \in Tasks : ChargeInv(t)

\* Nobody's charge moves, and loop p alone goes on: it is not about to adjust a
\* token it was not adjusting, and what it owes it can give back.
LEMMA UnchargedStep ==
    ASSUME CInv, NEW p \in Pollers, Private(p), UNCHANGED <<funds, tok, quota, billed>>,
           \A q \in Pollers \ {p} : owed'[q] = owed[q],
           \A t \in Tasks : ~Adjusting(p, t)',
           \A t \in Tasks : cur'[p] = t /\ ppc'[p] = "funding" => owed'[p] + quota[t] >= 0
    PROVE  \A t \in Tasks : ChargeInv(t)'
<1> SUFFICES ASSUME NEW t \in Tasks, Kind[t] = "video"  PROVE ChargeInv(t)'
  BY DEF ChargeInv
<1>0. ChargeInv(t)
  BY DEF CInv
<1>1. \A q \in Pollers : Adjusting(q, t)' => Adjusting(q, t)
  BY DEF Private, Adjusting
<1>2. req' = req
  BY DEF Private
<1>3. \A q \in Pollers : cur'[q] = t /\ ppc'[q] \in {"funding", "token"} =>
            owed'[q] + quota[t] >= 0
  BY <1>0 DEF ChargeInv, Private, Adjusting
<1>4. QED
  BY <1>0, <1>1, <1>2, <1>3 DEF ChargeInv

\* A request moves the charge of its own task only, and no loop knows that task.
LEMMA RequestCharge ==
    ASSUME CInv, "settle" \notin Faults, NEW t \in Tasks, RequestStep(t) \/ RequestExits(t)
    PROVE  \A u \in Tasks : ChargeInv(u)'
<1> USE ConstantsAssumption
<1>0. TypeOK /\ ChargeInv(t) /\ req[t] # "stored"
  BY DEF CInv, IInv, RequestStep, PreConsumeFails, PreConsumeBilling, SubmitFails,
         SubmitAccepted, SettleBilling, InsertTask, RequestExits
<1>1. UNCHANGED <<ppc, cur, owed, billed>>
  BY DEF RequestStep, PreConsumeFails, PreConsumeBilling, SubmitFails, SubmitAccepted,
         SettleBilling, InsertTask, RequestExits, dbVars, pollVars
<1>2. \A u \in Tasks \ {t} : /\ funds'[u] = funds[u] /\ tok'[u] = tok[u]
                             /\ quota'[u] = quota[u] /\ req'[u] = req[u]
  BY <1>0 DEF TypeOK, RequestStep, PreConsumeFails, PreConsumeBilling, SubmitFails,
              SubmitAccepted, SettleBilling, InsertTask, RequestExits, dbVars
<1>3. ASSUME NEW u \in Tasks \ {t}  PROVE ChargeInv(u)'
  BY <1>1, <1>2 DEF CInv, ChargeInv, Adjusting
<1>4. \A p \in Pollers : cur[p] # t
  BY <1>0 DEF CInv, IInv, PollerInv
<1>5. ASSUME Kind[t] = "video"  PROVE ChargeInv(t)'
  <2>0. funds[t] >= 0 /\ tok[t] >= 0 /\ funds[t] \in Int /\ tok[t] \in Int /\ quota[t] \in Nat
    BY <1>0, <1>5 DEF ChargeInv, TypeOK
  <2>1. /\ funds'[t] >= 0 /\ tok'[t] >= 0
        /\ req'[t] \in {"settled", "stored"} => 
              \/ funds'[t] = quota'[t] /\ tok'[t] = quota'[t]
              \/ /\ req[t] \in {"settled", "stored"}
                 /\ funds'[t] = funds[t] /\ tok'[t] = tok[t] /\ quota'[t] = quota[t]
    <3>1. CASE \E q \in Quotas : PreConsumeBilling(t, q)
      BY <1>0, <2>0, <3>1 DEF TypeOK, PreConsumeBilling
    <3>2. CASE \E f, k \in BOOLEAN : SubmitFails(t, f, k)
      BY <1>0, <2>0, <3>2 DEF TypeOK, SubmitFails
    <3>3. CASE \E q \in Quotas : SubmitAccepted(t, q)
      BY <1>0, <2>0, <3>3 DEF TypeOK, SubmitAccepted
    <3>4. CASE \E f, k \in BOOLEAN : SettleBilling(t, f, k)
      BY <1>0, <2>0, <3>4 DEF TypeOK, SettleBilling
    <3>5. CASE \E ok \in BOOLEAN : InsertTask(t, ok)
      BY <1>0, <2>0, <3>5 DEF TypeOK, InsertTask
    <3>6. CASE RequestExits(t) \/ PreConsumeFails(t)
      BY <1>0, <2>0, <3>6 DEF TypeOK, RequestExits, PreConsumeFails, dbVars
    <3>7. QED  BY <3>1, <3>2, <3>3, <3>4, <3>5, <3>6 DEF RequestStep
  <2>2. QED
    BY <1>0, <1>1, <1>4, <1>5, <2>1 DEF ChargeInv, Adjusting
<1>6. QED  BY <1>3, <1>5 DEF ChargeInv

\* A step of loop p concerns its own control state only; quotas stay.
LEMMA LoopFrame ==
    ASSUME IInv, NEW p \in Pollers, PollerStep(p) \/ PollerExits(p)
    PROVE  /\ Private(p) /\ quota' = quota
           /\ \A q \in Pollers \ {p} : owed'[q] = owed[q] /\ phase'[q] = phase[q]
<1>0. TypeOK
  BY DEF IInv
<1>1. CASE ListTimedOut(p) \/ ListUnfinished(p) \/ PassEnds(p) \/ PollerExits(p)
  BY <1>0, <1>1 DEF TypeOK, Private, ListTimedOut, ListUnfinished, PassEnds, PollerExits,
                    dbVars, reqVars, readVars
<1>2. CASE \E t \in Tasks, out \in Outcomes : SweepTimedOutTask(p, t, out)
  BY <1>0, <1>2 DEF TypeOK, Private, SweepTimedOutTask, Bill, Continue, reqVars, readVars
<1>3. CASE \E t \in Tasks : ChannelMissing(p, t) \/ FetchTask(p, t) \/ FetchFails(p, t)
  BY <1>0, <1>3 DEF TypeOK, Private, ChannelMissing, FetchTask, FetchFails, dbVars, reqVars,
                    readVars
<1>4. CASE \E out \in Outcomes : UpdateVideoSingleTask(p, out)
  BY <1>0, <1>4 DEF TypeOK, Private, UpdateVideoSingleTask, Bill, Continue, reqVars, readVars
<1>5. CASE UpdateSunoTask(p) \/ \E c \in Costs : SettleTaskBillingOnComplete(p, c)
  BY <1>0, <1>5 DEF TypeOK, Private, UpdateSunoTask, SettleTaskBillingOnComplete, Bill,
                    Continue, dbVars, reqVars, readVars
<1>6. CASE \E ok \in BOOLEAN :
              TaskAdjustFunding(p, ok) \/ TaskAdjustTokenQuota(p, ok) \/ SaveSunoTask(p, ok)
  BY <1>0, <1>6 DEF TypeOK, Private, TaskAdjustFunding, TaskAdjustTokenQuota, SaveSunoTask,
                    Billed, Continue, reqVars, readVars
<1>7. QED  BY <1>1, <1>2, <1>3, <1>4, <1>5, <1>6 DEF PollerStep

\* A loop that goes on with the next task owes nothing and adjusts nothing.
LEMMA ContinueFacts ==
    ASSUME TypeOK, NEW p \in Pollers, Continue(p)
    PROVE  ppc'[p] = "loop" /\ cur'[p] = NoTask /\ answer'[p] = "none" /\ owed'[p] = 0
BY DEF TypeOK, Continue

\* A loop that goes on to bill.
LEMMA BillFacts ==
    ASSUME TypeOK, NEW p \in Pollers, NEW t, NEW delta, Bill(p, t, delta)
    PROVE  ppc'[p] = "funding" /\ cur'[p] = t /\ owed'[p] = delta /\ answer'[p] = answer[p]
BY DEF TypeOK, Bill

\* Every step of a polling loop but the two adjustments leaves all charges alone,
\* and what the loop then owes can be given back.
LEMMA PollerCharge ==
    ASSUME CInv, NEW p \in Pollers, PollerStep(p) \/ PollerExits(p),
           ~\E ok \in BOOLEAN : TaskAdjustFunding(p, ok) \/ TaskAdjustTokenQuota(p, ok)
    PROVE  \A t \in Tasks : ChargeInv(t)'
<1> USE ConstantsAssumption
<1> DEFINE Fits ==
      /\ UNCHANGED <<funds, tok, billed>>
      /\ ppc'[p] # "token"
      /\ \A t \in Tasks : cur'[p] = t /\ ppc'[p] = "funding" => owed'[p] + quota[t] >= 0
<1>0. TypeOK /\ PollerInv(p) /\ IInv
  BY DEF CInv, IInv
<1>1. \A t \in Tasks : quota[t] \in Nat
  BY <1>0 DEF TypeOK
<1>2. CASE ListTimedOut(p) \/ ListUnfinished(p) \/ PassEnds(p) \/ PollerExits(p)
  <2>1. Fits
    BY <1>0, <1>2 DEF TypeOK, ListTimedOut, ListUnfinished, PassEnds, PollerExits, dbVars
  <2>2. QED  BY <1>0, <2>1, LoopFrame, UnchargedStep DEF Adjusting
<1>3. ASSUME NEW t \in Tasks, NEW out \in Outcomes, SweepTimedOutTask(p, t, out)
      PROVE  \A u \in Tasks : ChargeInv(u)'
  <2>1. UNCHANGED <<funds, tok, billed>> /\ (Bill(p, t, -quota[t]) \/ Continue(p))
    BY <1>3 DEF SweepTimedOutTask
  <2>2. Fits
    BY <1>0, <1>1, <2>1, ContinueFacts, BillFacts
  <2>3. QED  BY <1>0, <2>2, LoopFrame, UnchargedStep DEF Adjusting
<1>4. CASE \E t \in Tasks : ChannelMissing(p, t) \/ FetchTask(p, t) \/ FetchFails(p, t)
  <2>1. Fits
    BY <1>0, <1>4 DEF TypeOK, ChannelMissing, FetchTask, FetchFails, dbVars
  <2>2. QED  BY <1>0, <2>1, LoopFrame, UnchargedStep DEF Adjusting
<1>5. ASSUME NEW out \in Outcomes, UpdateVideoSingleTask(p, out)
      PROVE  \A u \in Tasks : ChargeInv(u)'
  <2>1. /\ UNCHANGED <<funds, tok, billed>>
        /\ \/ ppc' = [ppc EXCEPT ![p] = "complete"]
           \/ Bill(p, cur[p], -quota[cur[p]]) \/ Continue(p)
    BY <1>5 DEF UpdateVideoSingleTask
  <2>2. Fits
    BY <1>0, <1>1, <2>1, ContinueFacts, BillFacts DEF TypeOK
  <2>3. QED  BY <1>0, <2>2, LoopFrame, UnchargedStep DEF Adjusting
<1>6. ASSUME NEW c \in Costs, SettleTaskBillingOnComplete(p, c)
      PROVE  \A u \in Tasks : ChargeInv(u)'
  <2>1. /\ UNCHANGED <<funds, tok, billed>>
        /\ Bill(p, cur[p], c - quota[cur[p]]) \/ Continue(p)
    BY <1>6 DEF SettleTaskBillingOnComplete, dbVars
  <2>2. Fits
    BY <1>0, <1>1, <2>1, ContinueFacts, BillFacts
  <2>3. QED  BY <1>0, <2>2, LoopFrame, UnchargedStep DEF Adjusting
<1>7. CASE UpdateSunoTask(p)
  <2>1. /\ UNCHANGED <<funds, tok, billed>>
        /\ \/ ppc' = [ppc EXCEPT ![p] = "save"]
           \/ Bill(p, cur[p], -quota[cur[p]]) \/ Continue(p)
    BY <1>7 DEF UpdateSunoTask, dbVars
  <2>2. Fits
    BY <1>0, <1>1, <2>1, ContinueFacts, BillFacts DEF TypeOK
  <2>3. QED  BY <1>0, <2>2, LoopFrame, UnchargedStep DEF Adjusting
<1>8. CASE \E ok \in BOOLEAN : SaveSunoTask(p, ok)
  <2>1. UNCHANGED <<funds, tok, billed>> /\ Continue(p)
    BY <1>8 DEF SaveSunoTask
  <2>2. Fits
    BY <1>0, <2>1, ContinueFacts
  <2>3. QED  BY <1>0, <2>2, LoopFrame, UnchargedStep DEF Adjusting
<1>9. QED  BY <1>2, <1>3, <1>4, <1>5, <1>6, <1>7, <1>8 DEF PollerStep

\* The funding is adjusted: by BillingInv this is the first time, so the charge
\* is the quota and what is owed leaves it at zero or above.
LEMMA FundingCharge ==
    ASSUME CInv, NEW p \in Pollers, NEW ok \in BOOLEAN, TaskAdjustFunding(p, ok)
    PROVE  \A u \in Tasks : ChargeInv(u)'
<1> USE ConstantsAssumption
<1>0. TypeOK /\ PollerInv(p) /\ IInv /\ ppc[p] = "funding"
  BY DEF CInv, IInv, TaskAdjustFunding
<1>1. PICK t \in Tasks : cur[p] = t /\ req[t] = "stored"
  BY <1>0 DEF TypeOK, PollerInv
<1>2. /\ Private(p) /\ quota' = quota
      /\ \A q \in Pollers \ {p} : owed'[q] = owed[q]
  BY <1>0, LoopFrame DEF PollerStep
<1>3. CASE ~ok
  <2>1. UNCHANGED <<funds, billed, tok>> /\ Billed(p)
    BY <1>3 DEF TaskAdjustFunding
  <2>2. ppc'[p] \in {"save", "loop"}
    BY <1>0, <2>1 DEF Billed, Continue, TypeOK
  <2>3. QED
    BY <1>2, <2>1, <2>2, UnchargedStep DEF Adjusting
<1>4. CASE ok
  <2>1. /\ funds' = [funds EXCEPT ![t] = @ + owed[p]]
        /\ billed' = [billed EXCEPT ![t] = @ + 1]
        /\ ppc' = [ppc EXCEPT ![p] = "token"]
        /\ UNCHANGED <<cur, owed, tok>>
    BY <1>1, <1>4 DEF TaskAdjustFunding
  <2>2. ASSUME NEW u \in Tasks \ {t}  PROVE ChargeInv(u)'
    <3>1. ChargeInv(u)
      BY DEF CInv
    <3>2. funds'[u] = funds[u] /\ billed'[u] = billed[u]
      BY <1>0, <2>1 DEF TypeOK
    <3>3. \A q \in Pollers : cur[q] = u => ppc'[q] = ppc[q]
      BY <1>0, <1>1, <2>1 DEF TypeOK
    <3>4. QED  BY <1>2, <2>1, <3>1, <3>2, <3>3 DEF ChargeInv, Adjusting, Private
  <2>3. ASSUME Kind[t] = "video"  PROVE ChargeInv(t)'
    <3>1. ChargeInv(t) /\ BillingInv(t) /\ Pending(p, t)
      BY <1>0, <1>1 DEF CInv, IInv, Pending
    <3>2. /\ billed[t] = 0 /\ funds[t] = quota[t] /\ tok[t] = quota[t] /\ quota[t] \in Nat
          /\ owed[p] \in Int /\ owed[p] + quota[t] >= 0
      BY <1>0, <1>1, <2>3, <3>1 DEF ChargeInv, BillingInv, Pending, TypeOK
    <3>3. funds'[t] = quota[t] + owed[p] /\ billed'[t] = 1
      BY <1>0, <2>1, <3>2 DEF TypeOK
    <3>4. \A q \in Pollers : ~Adjusting(q, t)
      BY <2>3, <3>1, <3>2 DEF ChargeInv
    <3>5. \A q \in Pollers : Adjusting(q, t)' => q = p
      BY <1>0, <2>1, <3>4 DEF Adjusting, TypeOK
    <3>6. \A q \in Pollers : cur'[q] = t /\ ppc'[q] \in {"funding", "token"} =>
             owed'[q] + quota[t] >= 0
      BY <1>0, <1>1, <2>1, <2>3, <3>1 DEF ChargeInv, TypeOK
    <3>7. QED
      BY <1>2, <2>1, <3>2, <3>3, <3>5, <3>6 DEF ChargeInv
  <2>4. QED  BY <2>2, <2>3 DEF ChargeInv
<1>5. QED  BY <1>3, <1>4

\* The token follows the funding, by the same loop and the same amount.
LEMMA TokenCharge ==
    ASSUME CInv, NEW p \in Pollers, NEW ok \in BOOLEAN, TaskAdjustTokenQuota(p, ok)
    PROVE  \A u \in Tasks : ChargeInv(u)'
<1> USE ConstantsAssumption
<1>0. TypeOK /\ PollerInv(p) /\ IInv /\ ppc[p] = "token"
  BY DEF CInv, IInv, TaskAdjustTokenQuota
<1>1. PICK t \in Tasks : cur[p] = t /\ req[t] = "stored"
  BY <1>0 DEF TypeOK, PollerInv
<1>2. /\ Private(p) /\ quota' = quota
      /\ \A q \in Pollers \ {p} : owed'[q] = owed[q]
  BY <1>0, LoopFrame DEF PollerStep
<1>3. /\ tok' = [tok EXCEPT ![t] = IF ok THEN @ + owed[p] ELSE @]
      /\ UNCHANGED <<funds, billed>> /\ Billed(p)
  BY <1>1 DEF TaskAdjustTokenQuota
<1>4. ppc'[p] \in {"save", "loop"}
  BY <1>0, <1>3 DEF Billed, Continue, TypeOK
<1>5. ASSUME NEW u \in Tasks \ {t}  PROVE ChargeInv(u)'
  <2>1. ChargeInv(u)
    BY DEF CInv
  <2>2. tok'[u] = tok[u]
    BY <1>0, <1>3 DEF TypeOK
  <2>3. QED  BY <1>2, <1>3, <1>4, <2>1, <2>2 DEF ChargeInv, Adjusting, Private
<1>6. ASSUME Kind[t] = "video"  PROVE ChargeInv(t)'
  <2>1. ChargeInv(t) /\ Adjusting(p, t)
    BY <1>0, <1>1 DEF CInv, Adjusting
  <2>2. /\ billed[t] = 1 /\ tok[t] = quota[t] /\ quota[t] \in Nat
        /\ owed[p] \in Int /\ owed[p] + quota[t] >= 0
    BY <1>0, <1>1, <1>6, <2>1 DEF ChargeInv, TypeOK
  <2>3. tok'[t] >= 0
    BY <1>0, <1>3, <2>2 DEF TypeOK
  <2>4. \A q \in Pollers : ~Adjusting(q, t)'
    BY <1>2, <1>4, <1>6, <2>1 DEF ChargeInv, Adjusting, Private
  <2>5. \A q \in Pollers : cur'[q] = t /\ ppc'[q] \in {"funding", "token"} =>
             owed'[q] + quota[t] >= 0
    BY <1>2, <1>4, <1>6, <2>1 DEF ChargeInv, Private
  <2>6. QED
    BY <1>2, <1>3, <1>6, <2>1, <2>2, <2>3, <2>4, <2>5 DEF ChargeInv
<1>7. QED  BY <1>5, <1>6 DEF ChargeInv

\* Every step keeps the charges of video tasks right.
LEMMA StepCharge ==
    ASSUME CInv, "settle" \notin Faults, [Next]_vars
    PROVE  CInv'
<1>0. IInv /\ IInv'
  BY StepInv DEF CInv
<1>1. ASSUME UNCHANGED <<funds, tok, quota, billed, req, ppc, cur, owed>>
      PROVE  \A t \in Tasks : ChargeInv(t)'
  BY <1>1 DEF CInv, ChargeInv, Adjusting
<1>2. CASE UNCHANGED vars
  BY <1>0, <1>1, <1>2 DEF CInv, vars, dbVars, reqVars, pollVars
<1>3. ASSUME NEW t \in Tasks, RequestStep(t) \/ RequestExits(t)  PROVE CInv'
  BY <1>0, <1>3, RequestCharge DEF CInv
<1>4. ASSUME NEW t \in Tasks,
             TimesOut(t) \/ \E how \in {"success", "failure"} : UpstreamEnds(t, how)
      PROVE  CInv'
  BY <1>0, <1>1, <1>4 DEF CInv, TimesOut, UpstreamEnds, dbVars, reqVars, pollVars
<1>5. ASSUME NEW p \in Pollers, PollerStep(p) \/ PollerExits(p)  PROVE CInv'
  BY <1>0, <1>5, PollerCharge, FundingCharge, TokenCharge DEF CInv
<1>6. CASE (\E t \in Tasks : ReadTask(t)) \/ RealtimeFetch \/ RealtimeFails \/ RealtimeSave
  BY <1>0, <1>1, <1>6 DEF CInv, ReadTask, RealtimeFetch, RealtimeFails, RealtimeSave, dbVars,
                          reqVars, pollVars
<1>7. QED  BY <1>2, <1>3, <1>4, <1>5, <1>6 DEF Next

\* Where settlements on submission do not fail, a refund of a video task gives
\* back what was charged and no more, whatever else fails and whoever polls.
THEOREM VideoNeverOverRefunded ==
    ASSUME \A t \in Tasks : Kind[t] = "video", "settle" \notin Faults
    PROVE  Spec => []NeverOverRefunded
<1>1. Init => CInv
  <2>1. Init => \A t \in Tasks : ChargeInv(t)
    BY DEF Init, ChargeInv, Adjusting
  <2>2. QED  BY <2>1, InitInv DEF CInv
<1>2. CInv /\ [Next]_vars => CInv'
  BY StepCharge
<1>3. CInv => NeverOverRefunded
  BY DEF CInv, ChargeInv, NeverOverRefunded
<1>4. QED  BY <1>1, <1>2, <1>3, PTL DEF Spec

-----------------------------------------------------------------------------
(* Bills and endings.  A fetch of a live task can reopen it, so several     *)
(* loops may hold a right to bill it; each was won with an ending.          *)

\* The loops that have the right to bill t.
Claims(t) == {p \in Pollers : Pending(p, t)}

EndInv(t) == Kind[t] # "suno" => billed[t] + Cardinality(Claims(t)) <= endings[t]

EInv == IInv /\ \A t \in Tasks : EndInv(t)

\* No new claim, no new bill.
LEMMA NoNewClaim ==
    ASSUME EInv, TypeOK', IsFiniteSet(Pollers), NEW t \in Tasks,
           Claims(t)' \subseteq Claims(t), billed'[t] = billed[t], endings'[t] >= endings[t]
    PROVE  EndInv(t)'
<1>1. IsFiniteSet(Claims(t))
  BY FS_Subset DEF Claims
<1>2. Cardinality(Claims(t)') <= Cardinality(Claims(t)) /\ IsFiniteSet(Claims(t)')
  BY <1>1, FS_Subset
<1>3. Cardinality(Claims(t)') \in Nat /\ Cardinality(Claims(t)) \in Nat
  BY <1>1, <1>2, FS_CardinalityType
<1>4. billed[t] \in Nat /\ endings[t] \in Nat /\ endings'[t] \in Nat
  BY DEF EInv, IInv, TypeOK
<1>5. EndInv(t)
  BY DEF EInv
<1>6. QED  BY <1>2, <1>3, <1>4, <1>5 DEF EndInv

\* A claim is won together with an ending.
LEMMA ClaimWon ==
    ASSUME EInv, TypeOK', IsFiniteSet(Pollers), NEW t \in Tasks, NEW p \in Pollers,
           Claims(t)' \subseteq Claims(t) \cup {p}, billed'[t] = billed[t],
           endings'[t] = endings[t] + 1
    PROVE  EndInv(t)'
<1>1. IsFiniteSet(Claims(t))
  BY FS_Subset DEF Claims
<1>2. /\ IsFiniteSet(Claims(t) \cup {p})
      /\ Cardinality(Claims(t) \cup {p}) \in {Cardinality(Claims(t)), Cardinality(Claims(t)) + 1}
  BY <1>1, FS_AddElement
<1>3. Cardinality(Claims(t)') <= Cardinality(Claims(t) \cup {p}) /\ IsFiniteSet(Claims(t)')
  BY <1>2, FS_Subset
<1>4. Cardinality(Claims(t)') \in Nat /\ Cardinality(Claims(t)) \in Nat
  BY <1>1, <1>3, FS_CardinalityType
<1>5. billed[t] \in Nat /\ endings[t] \in Nat
  BY DEF EInv, IInv, TypeOK
<1>6. EndInv(t)
  BY DEF EInv
<1>7. QED  BY <1>2, <1>3, <1>4, <1>5, <1>6 DEF EndInv

\* A claim is used up by the bill.
LEMMA ClaimUsed ==
    ASSUME EInv, TypeOK', IsFiniteSet(Pollers), NEW t \in Tasks, NEW p \in Claims(t),
           Claims(t)' \subseteq Claims(t) \ {p}, billed'[t] = billed[t] + 1,
           endings'[t] = endings[t]
    PROVE  EndInv(t)'
<1>1. IsFiniteSet(Claims(t))
  BY FS_Subset DEF Claims
<1>2. /\ IsFiniteSet(Claims(t) \ {p})
      /\ Cardinality(Claims(t) \ {p}) = Cardinality(Claims(t)) - 1
  BY <1>1, FS_RemoveElement
<1>3. Cardinality(Claims(t)') <= Cardinality(Claims(t) \ {p}) /\ IsFiniteSet(Claims(t)')
  BY <1>2, FS_Subset
<1>4. Cardinality(Claims(t)') \in Nat /\ Cardinality(Claims(t)) \in Nat
  BY <1>1, <1>3, FS_CardinalityType
<1>5. billed[t] \in Nat /\ endings[t] \in Nat
  BY DEF EInv, IInv, TypeOK
<1>6. EndInv(t)
  BY DEF EInv
<1>7. QED  BY <1>2, <1>3, <1>4, <1>5, <1>6 DEF EndInv

\* Setting a status counts the endings and never takes one back.
LEMMA EndingsCount ==
    ASSUME TypeOK, NEW t \in Tasks, NEW new, NEW done, SetStatus(t, new, done)
    PROVE  /\ \A u \in Tasks : endings'[u] >= endings[u]
           /\ status[t] \notin Terminal /\ new \in Terminal => endings'[t] = endings[t] + 1
BY DEF TypeOK, SetStatus

\* The same for a compare-and-swap by a loop that saw the task unfinished.
LEMMA CasCounts ==
    ASSUME TypeOK, NEW p \in Pollers, NEW t \in Tasks, NEW new, NEW out,
           mem[p][t] \notin Terminal, UpdateWithStatus(p, t, new, out)
    PROVE  /\ \A u \in Tasks : endings'[u] >= endings[u]
           /\ out = "ok" /\ CasWins(p, t) /\ new \in Terminal => endings'[t] = endings[t] + 1
<1>1. CASE out # "fail" /\ CasWins(p, t)
  BY <1>1, EndingsCount DEF UpdateWithStatus, CasWins
<1>2. CASE ~(out # "fail" /\ CasWins(p, t))
  BY <1>2 DEF UpdateWithStatus, TypeOK
<1>3. QED  BY <1>1, <1>2

\* Another loop's claims stay what they are.
LEMMA OthersClaims ==
    ASSUME NEW p \in Pollers, Private(p), NEW t \in Tasks
    PROVE  /\ Claims(t)' \subseteq Claims(t) \cup {p}
           /\ ~Pending(p, t)' => Claims(t)' \subseteq Claims(t) \ {p}
BY DEF Claims, Pending, Private

\* A loop that gets no claim and bills nothing.
LEMMA ClaimlessStep ==
    ASSUME EInv, IInv', IsFiniteSet(Pollers), NEW p \in Pollers, Private(p),
           billed' = billed, \A t \in Tasks : Pending(p, t)' => Pending(p, t),
           \A t \in Tasks : endings'[t] >= endings[t]
    PROVE  \A t \in Tasks : EndInv(t)'
<1> SUFFICES ASSUME NEW t \in Tasks  PROVE EndInv(t)'
  OBVIOUS
<1>1. Claims(t)' \subseteq Claims(t)
  BY DEF Claims, Pending, Private
<1>2. QED  BY <1>1, NoNewClaim DEF IInv

\* A loop that may have won task t, and nothing else.
LEMMA WinnersStep ==
    ASSUME EInv, IInv', IsFiniteSet(Pollers), NEW p \in Pollers, Private(p), NEW t \in Tasks,
           billed' = billed, \A u \in Tasks : endings'[u] >= endings[u],
           \A u \in Tasks \ {t} : ~Pending(p, u)',
           Pending(p, t)' => endings'[t] = endings[t] + 1
    PROVE  \A u \in Tasks : EndInv(u)'
<1>1. TypeOK'
  BY DEF IInv
<1>2. ASSUME NEW u \in Tasks, ~Pending(p, u)'  PROVE EndInv(u)'
  BY <1>1, <1>2, OthersClaims, NoNewClaim
<1>3. ASSUME Pending(p, t)'  PROVE EndInv(t)'
  BY <1>1, <1>3, OthersClaims, ClaimWon
<1>4. QED  BY <1>2, <1>3

\* Every step of a polling loop.
LEMMA PollerEnd ==
    ASSUME EInv, IInv', IsFiniteSet(Pollers), NEW p \in Pollers, PollerStep(p) \/ PollerExits(p)
    PROVE  \A t \in Tasks : EndInv(t)'
<1> USE ConstantsAssumption
<1>0. TypeOK /\ PollerInv(p) /\ IInv /\ Private(p)
  BY LoopFrame DEF EInv, IInv
<1>e. \A t \in Tasks : endings[t] \in Nat
  BY <1>0 DEF TypeOK
<1>1. CASE ListTimedOut(p) \/ ListUnfinished(p) \/ PassEnds(p) \/ PollerExits(p)
  <2>1. billed' = billed /\ endings' = endings /\ ~(ppc'[p] \in {"complete", "funding"})
    BY <1>0, <1>1 DEF TypeOK, ListTimedOut, ListUnfinished, PassEnds, PollerExits, dbVars
  <2>2. QED  BY <1>0, <1>e, <2>1, ClaimlessStep DEF Pending
<1>2. ASSUME NEW t \in Tasks, NEW out \in Outcomes, SweepTimedOutTask(p, t, out)
      PROVE  \A u \in Tasks : EndInv(u)'
  <2>1. /\ billed' = billed /\ UpdateWithStatus(p, t, "FAILURE", out)
        /\ \/ out = "ok" /\ CasWins(p, t) /\ Bill(p, t, -quota[t])
           \/ Continue(p)
        /\ mem[p][t] \notin Terminal /\ "FAILURE" \in Terminal
    BY <1>0, <1>2 DEF SweepTimedOutTask, PollerInv, Terminal
  <2>2. /\ \A u \in Tasks : endings'[u] >= endings[u]
        /\ out = "ok" /\ CasWins(p, t) => endings'[t] = endings[t] + 1
    BY <1>0, <2>1, CasCounts
  <2>3. /\ \A u \in Tasks \ {t} : ~Pending(p, u)'
        /\ Pending(p, t)' => out = "ok" /\ CasWins(p, t)
    BY <1>0, <2>1, ContinueFacts, BillFacts DEF Pending
  <2>4. QED  BY <1>0, <2>1, <2>2, <2>3, WinnersStep
<1>3. ASSUME NEW t \in Tasks, ChannelMissing(p, t) \/ FetchTask(p, t) \/ FetchFails(p, t)
      PROVE  \A u \in Tasks : EndInv(u)'
  <2>1. billed' = billed /\ \A u \in Tasks : ~Pending(p, u)'
    BY <1>0, <1>3 DEF TypeOK, ChannelMissing, FetchTask, FetchFails, Pending, dbVars
  <2>2. endings' = endings \/ SetStatus(t, "FAILURE", TRUE)
    BY <1>3 DEF ChannelMissing, FetchTask, FetchFails, dbVars
  <2>3. \A u \in Tasks : endings'[u] >= endings[u]
    <3>1. CASE endings' = endings
      BY <1>e, <3>1
    <3>2. CASE SetStatus(t, "FAILURE", TRUE)
      <4>1. TypeOK
        BY <1>0
      <4>2. QED  BY <3>2, <4>1, EndingsCount
    <3>3. QED  BY <2>2, <3>1, <3>2
  <2>4. QED  BY <1>0, <2>1, <2>3, ClaimlessStep
<1>4. ASSUME NEW out \in Outcomes, UpdateVideoSingleTask(p, out)
      PROVE  \A u \in Tasks : EndInv(u)'
  <2>1. ppc[p] = "fetched" /\ cur[p] \in Tasks \cup {NoTask}
    BY <1>0, <1>4 DEF UpdateVideoSingleTask, TypeOK
  <2>2. cur[p] \in Tasks /\ mem[p][cur[p]] \notin Terminal
    BY <1>0, <2>1 DEF PollerInv
  <2>t. PICK t \in Tasks : cur[p] = t
    BY <2>2
  <2>3. /\ billed' = billed /\ UpdateWithStatus(p, t, answer[p], out)
        /\ \/ /\ out = "ok" /\ CasWins(p, t) /\ answer[p] \in Terminal
              /\ \/ ppc' = [ppc EXCEPT ![p] = "complete"] /\ cur' = cur
                 \/ Bill(p, t, -quota[t])
           \/ Continue(p)
    BY <1>4, <2>t DEF UpdateVideoSingleTask, Terminal
  <2>4. /\ \A u \in Tasks : endings'[u] >= endings[u]
        /\ out = "ok" /\ CasWins(p, t) /\ answer[p] \in Terminal =>
              endings'[t] = endings[t] + 1
    BY <1>0, <2>2, <2>t, <2>3, CasCounts
  <2>5. CASE out = "ok" /\ CasWins(p, t) /\ answer[p] \in Terminal
    <3>1. \A u \in Tasks \ {t} : ~Pending(p, u)'
      BY <1>0, <2>t, <2>3, ContinueFacts, BillFacts DEF Pending, TypeOK
    <3>2. QED  BY <1>0, <2>3, <2>4, <2>5, <3>1, WinnersStep
  <2>6. CASE ~(out = "ok" /\ CasWins(p, t) /\ answer[p] \in Terminal)
    <3>1. \A u \in Tasks : ~Pending(p, u)'
      BY <1>0, <2>3, <2>6, ContinueFacts DEF Pending
    <3>2. QED  BY <1>0, <2>3, <2>4, <3>1, ClaimlessStep
  <2>7. QED  BY <2>5, <2>6
<1>5. ASSUME NEW c \in Costs, SettleTaskBillingOnComplete(p, c)
      PROVE  \A u \in Tasks : EndInv(u)'
  <2>1. /\ billed' = billed /\ endings' = endings /\ ppc[p] = "complete"
        /\ Bill(p, cur[p], c - quota[cur[p]]) \/ Continue(p)
    BY <1>5 DEF SettleTaskBillingOnComplete, dbVars
  <2>2. \A u \in Tasks : Pending(p, u)' => Pending(p, u)
    BY <1>0, <2>1, ContinueFacts, BillFacts DEF Pending
  <2>3. QED  BY <1>0, <1>e, <2>1, <2>2, ClaimlessStep
<1>6. CASE UpdateSunoTask(p)
  <2>1. /\ billed' = billed /\ endings' = endings /\ Kind[cur[p]] = "suno"
        /\ \/ ppc' = [ppc EXCEPT ![p] = "save"]
           \/ Bill(p, cur[p], -quota[cur[p]]) \/ Continue(p)
    BY <1>6 DEF UpdateSunoTask, dbVars
  <2>2. \A u \in Tasks : Kind[u] # "suno" => ~Pending(p, u)'
    BY <1>0, <2>1, ContinueFacts, BillFacts DEF Pending, TypeOK
  <2>3. ASSUME NEW u \in Tasks, Kind[u] # "suno"  PROVE EndInv(u)'
    BY <1>0, <1>e, <2>1, <2>2, <2>3, OthersClaims, NoNewClaim DEF IInv
  <2>4. QED  BY <2>3 DEF EndInv
<1>7. ASSUME NEW ok \in BOOLEAN, TaskAdjustFunding(p, ok)
      PROVE  \A u \in Tasks : EndInv(u)'
  <2>1. /\ endings' = endings /\ ppc[p] = "funding"
        /\ \/ /\ billed' = [billed EXCEPT ![cur[p]] = @ + 1]
              /\ ppc' = [ppc EXCEPT ![p] = "token"]
           \/ billed' = billed /\ Billed(p)
    BY <1>7 DEF TaskAdjustFunding
  <2>2. \A u \in Tasks : ~Pending(p, u)'
    BY <1>0, <2>1 DEF Billed, Continue, Pending, TypeOK
  <2>3. CASE billed' = billed
    BY <1>0, <1>e, <2>1, <2>2, <2>3, ClaimlessStep
  <2>4. CASE billed' = [billed EXCEPT ![cur[p]] = @ + 1]
    <3>1. ASSUME NEW u \in Tasks, cur[p] # u  PROVE EndInv(u)'
      <4>1. billed'[u] = billed[u] /\ endings'[u] >= endings[u]
        BY <1>0, <1>e, <2>1, <2>4, <3>1 DEF TypeOK
      <4>2. Claims(u)' \subseteq Claims(u)
        BY <1>0, <2>2, OthersClaims
      <4>3. QED  BY <4>1, <4>2, NoNewClaim DEF IInv
    <3>2. ASSUME NEW u \in Tasks, cur[p] = u  PROVE EndInv(u)'
      <4>1. billed'[u] = billed[u] + 1 /\ endings'[u] = endings[u]
        BY <1>0, <2>1, <2>4, <3>2 DEF TypeOK
      <4>2. p \in Claims(u) /\ Claims(u)' \subseteq Claims(u) \ {p}
        BY <1>0, <2>1, <2>2, <3>2, OthersClaims DEF Claims, Pending
      <4>3. QED  BY <4>1, <4>2, ClaimUsed DEF IInv
    <3>3. QED  BY <3>1, <3>2
  <2>5. QED  BY <2>1, <2>3, <2>4
<1>8. ASSUME NEW ok \in BOOLEAN, TaskAdjustTokenQuota(p, ok)
      PROVE  \A u \in Tasks : EndInv(u)'
  <2>1. billed' = billed /\ endings' = endings /\ Billed(p)
    BY <1>8 DEF TaskAdjustTokenQuota
  <2>2. \A u \in Tasks : ~Pending(p, u)'
    BY <1>0, <2>1 DEF Billed, Continue, Pending, TypeOK
  <2>3. QED  BY <1>0, <1>e, <2>1, <2>2, ClaimlessStep
<1>9. ASSUME NEW ok \in BOOLEAN, SaveSunoTask(p, ok)
      PROVE  \A u \in Tasks : EndInv(u)'
  <2>1. billed' = billed /\ Continue(p) /\ ppc[p] = "save"
    BY <1>9 DEF SaveSunoTask
  <2>2. cur[p] \in Tasks
    BY <1>0, <2>1 DEF PollerInv, TypeOK
  <2>3. \A u \in Tasks : endings'[u] >= endings[u]
    BY <1>0, <1>e, <1>9, <2>2, EndingsCount DEF SaveSunoTask
  <2>4. \A u \in Tasks : ~Pending(p, u)'
    BY <1>0, <2>1, ContinueFacts DEF Pending
  <2>5. QED  BY <1>0, <2>1, <2>3, <2>4, ClaimlessStep
<1>10. QED
  BY <1>1, <1>2, <1>3, <1>4, <1>5, <1>6, <1>7, <1>8, <1>9 DEF PollerStep

\* Every step keeps bills covered by endings.
LEMMA StepEnd ==
    ASSUME EInv, IsFiniteSet(Pollers), [Next]_vars
    PROVE  EInv'
<1>0. IInv /\ IInv' /\ TypeOK /\ TypeOK'
  BY StepInv DEF EInv, IInv
<1>1. ASSUME UNCHANGED <<billed, ppc, cur>>, \A t \in Tasks : endings'[t] >= endings[t]
      PROVE  \A t \in Tasks : EndInv(t)'
  <2>1. \A t \in Tasks : Claims(t)' = Claims(t)
    BY <1>1 DEF Claims, Pending
  <2>2. QED  BY <1>0, <1>1, <2>1, NoNewClaim
<1>e. \A t \in Tasks : endings[t] \in Nat
  BY <1>0 DEF TypeOK
<1>2. CASE UNCHANGED vars
  BY <1>0, <1>1, <1>2, <1>e DEF EInv, vars, dbVars, pollVars
<1>3. ASSUME NEW t \in Tasks, RequestStep(t) \/ RequestExits(t)  PROVE EInv'
  <2>1. UNCHANGED <<billed, ppc, cur, endings>>
    BY <1>3 DEF RequestStep, PreConsumeFails, PreConsumeBilling, SubmitFails, SubmitAccepted,
                SettleBilling, InsertTask, RequestExits, dbVars, pollVars
  <2>2. QED  BY <1>0, <1>1, <1>e, <2>1 DEF EInv
<1>4. ASSUME NEW t \in Tasks,
             TimesOut(t) \/ \E how \in {"success", "failure"} : UpstreamEnds(t, how)
      PROVE  EInv'
  BY <1>0, <1>1, <1>4, <1>e DEF EInv, TimesOut, UpstreamEnds, dbVars, pollVars
<1>5. ASSUME NEW p \in Pollers, PollerStep(p) \/ PollerExits(p)  PROVE EInv'
  BY <1>0, <1>5, PollerEnd DEF EInv
<1>6. CASE (\E t \in Tasks : ReadTask(t)) \/ RealtimeFetch \/ RealtimeFails
  BY <1>0, <1>1, <1>6, <1>e DEF EInv, ReadTask, RealtimeFetch, RealtimeFails, dbVars, pollVars
<1>7. CASE RealtimeSave
  <2>1. rtask \in Tasks
    BY <1>0, <1>7 DEF IInv, ReaderInv, RealtimeSave
  <2>2. \A t \in Tasks : endings'[t] >= endings[t]
    BY <1>0, <1>e, <1>7, <2>1, EndingsCount DEF RealtimeSave
  <2>3. QED  BY <1>0, <1>1, <1>7, <2>2 DEF EInv, RealtimeSave, pollVars
<1>8. QED  BY <1>2, <1>3, <1>4, <1>5, <1>6, <1>7 DEF Next

\* Whatever fails, however many processes poll and users fetch: a video or live
\* task is billed at most once for each time its row became terminal.
THEOREM BillsNeedEndings ==
    ASSUME IsFiniteSet(Pollers)
    PROVE  Spec => []BilledOncePerEnding
<1>1. Init => EInv
  <2>1. ASSUME Init, NEW t \in Tasks  PROVE EndInv(t)
    <3>1. Claims(t) = {}
      BY <2>1 DEF Init, Claims, Pending
    <3>2. QED  BY <2>1, <3>1, FS_EmptySet DEF Init, EndInv
  <2>2. QED  BY <2>1, InitInv DEF EInv
<1>2. EInv /\ [Next]_vars => EInv'
  BY StepEnd
<1>3. EInv => BilledOncePerEnding
  <2> SUFFICES ASSUME EInv, NEW t \in Tasks, Kind[t] # "suno"
               PROVE  billed[t] <= endings[t]
    BY DEF BilledOncePerEnding
  <2>1. Cardinality(Claims(t)) \in Nat
    BY FS_Subset, FS_CardinalityType DEF Claims
  <2>2. billed[t] \in Nat /\ endings[t] \in Nat
    BY DEF EInv, IInv, TypeOK
  <2>3. QED  BY <2>1, <2>2 DEF EInv, EndInv
<1>4. QED  BY <1>1, <1>2, <1>3, PTL DEF Spec

-----------------------------------------------------------------------------
(* Without failures.  Polling loops then finish what they start, and what a *)
(* task was charged follows its status, whichever of them billed it.        *)

\* Nothing fails and no process exits.  A task whose row is saved without a
\* comparison has one loop to do it, as when a single master node polls.
Undisturbed ==
    /\ Faults = {}
    /\ MaxExits = 0
    /\ \A t \in Tasks : Kind[t] = "video" \/ (Kind[t] = "suno" /\ \E p \in Pollers : Pollers = {p})

\* Loop p is somewhere between having won t and being done with it.
InBilling(p, t) == cur[p] = t /\ ppc[p] \in {"complete", "funding", "token", "save"}

Charged(t) == funds[t] = quota[t] /\ tok[t] = quota[t]

\* The charge is what the status says.
Agreed(t) ==
    /\ status[t] \notin Terminal => Charged(t)
    /\ status[t] = "FAILURE" => funds[t] = 0 /\ tok[t] = 0
    /\ status[t] = "SUCCESS" => funds[t] = tok[t] /\ funds[t] \in {quota[t]} \cup (Costs \ {0})

\* What loop p is about to add to the charge leads to what the status says, or
\* (suno) to what the status will be once the loop has saved the task.
Owes(p, t) ==
    \/ /\ status[t] = "FAILURE" /\ owed[p] = -quota[t]
       /\ Kind[t] = "suno" => phase[p] = "sweep"
    \/ /\ Kind[t] = "video" /\ status[t] = "SUCCESS"
       /\ owed[p] + quota[t] \in Costs \ {0}
    \/ /\ Kind[t] = "suno" /\ phase[p] = "poll" /\ answer[p] = "FAILURE"
       /\ status[t] \notin Terminal /\ owed[p] = -quota[t]

\* Where loop p stands with t.
BillingAt(p, t) ==
    cur[p] = t =>
        /\ ppc[p] = "complete" => Kind[t] = "video" /\ status[t] = "SUCCESS" /\ Charged(t)
        /\ ppc[p] = "funding" => Charged(t) /\ Owes(p, t)
        /\ ppc[p] = "token" => /\ funds[t] = quota[t] + owed[p] /\ tok[t] = quota[t]
                               /\ Owes(p, t)
        /\ ppc[p] = "save" => /\ phase[p] = "poll" /\ answer[p] # "REASON"
                              /\ status[t] \notin Terminal
                              /\ answer[p] = "FAILURE" => funds[t] = 0 /\ tok[t] = 0
                              /\ answer[p] # "FAILURE" => Charged(t)

\* The only loop of a suno task knows its status.
SunoAt(p, t) ==
    /\ t \in work[p] => status[t] = mem[p][t] /\ cur[p] # t
    /\ cur[p] = t /\ ppc[p] = "fetched" =>
          status[t] = mem[p][t] /\ phase[p] = "poll" /\ answer[p] # "REASON"

QuietInv(t) ==
    /\ req[t] = "settled" => Charged(t)
    /\ req[t] = "stored" /\ (\A p \in Pollers : ~InBilling(p, t)) => Agreed(t)
    /\ \A p, q \in Pollers : InBilling(p, t) /\ InBilling(q, t) => p = q
    /\ \A p \in Pollers : BillingAt(p, t)
    /\ Kind[t] = "suno" => \A p \in Pollers : SunoAt(p, t)

QInv == IInv /\ \A t \in Tasks : QuietInv(t)

\* The rest of what a step of loop p leaves alone.
Secluded(p) ==
    /\ Private(p) /\ quota' = quota
    /\ \A q \in Pollers \ {p} : owed'[q] = owed[q] /\ phase'[q] = phase[q]

\* Loop p is not billing t before the step and does not hold it after, and the
\* step leaves its row and charge alone.
LEMMA NotConcerned ==
    ASSUME QInv, NEW p \in Pollers, Secluded(p), NEW t \in Tasks,
           ~InBilling(p, t), cur'[p] # t,
           status'[t] = status[t], funds'[t] = funds[t], tok'[t] = tok[t],
           Kind[t] = "suno" /\ t \in work'[p] => status[t] = mem'[p][t]
    PROVE  QuietInv(t)'
<1>0. QuietInv(t)
  BY DEF QInv
<1>1. \A q \in Pollers : InBilling(q, t)' <=> InBilling(q, t)
  BY DEF Secluded, Private, InBilling
<1>2. ASSUME NEW q \in Pollers  PROVE BillingAt(q, t)'
  <2>1. CASE q = p
    BY <2>1 DEF BillingAt
  <2>2. CASE q # p
    BY <1>0, <2>2 DEF QuietInv, BillingAt, Charged, Owes, Secluded, Private
  <2>3. QED  BY <2>1, <2>2
<1>3. ASSUME NEW q \in Pollers, Kind[t] = "suno"  PROVE SunoAt(q, t)'
  <2>1. CASE q = p
    BY <1>3, <2>1 DEF SunoAt
  <2>2. CASE q # p
    BY <1>0, <1>3, <2>2 DEF QuietInv, SunoAt, Secluded, Private
  <2>3. QED  BY <2>1, <2>2
<1>4. Charged(t)' <=> Charged(t)
  BY DEF Charged, Secluded
<1>5. Agreed(t)' <=> Agreed(t)
  BY <1>4 DEF Agreed, Secluded
<1>6. QED
  BY <1>0, <1>1, <1>2, <1>3, <1>4, <1>5 DEF QuietInv, Secluded, Private

\* Loop p holds t, the only one to bill it, and is done with it: the charge has
\* to agree with the status.
LEMMA DoneWith ==
    ASSUME QInv, NEW p \in Pollers, Secluded(p), NEW t \in Tasks,
           \A q \in Pollers \ {p} : ~InBilling(q, t),
           cur'[p] # t, Agreed(t)', req[t] = "stored",
           Kind[t] = "suno" => Pollers = {p} /\ t \notin work'[p]
    PROVE  QuietInv(t)'
<1>0. QuietInv(t)
  BY DEF QInv
<1>1. \A q \in Pollers : ~InBilling(q, t)'
  BY DEF Secluded, Private, InBilling
<1>2. req'[t] = "stored"
  BY DEF Secluded, Private
<1>3. \A q \in Pollers : BillingAt(q, t)'
  BY <1>1 DEF InBilling, BillingAt
<1>4. Kind[t] = "suno" => \A q \in Pollers : SunoAt(q, t)'
  BY DEF SunoAt
<1>5. QED  BY <1>1, <1>2, <1>3, <1>4 DEF QuietInv

\* Loop p, alone, goes on billing t.
LEMMA GoesOn ==
    ASSUME QInv, NEW p \in Pollers, Secluded(p), NEW t \in Tasks,
           \A q \in Pollers \ {p} : ~InBilling(q, t),
           InBilling(p, t)', BillingAt(p, t)', req[t] = "stored",
           Kind[t] = "suno" => Pollers = {p} /\ t \notin work'[p]
    PROVE  QuietInv(t)'
<1>1. \A q \in Pollers \ {p} : ~InBilling(q, t)'
  BY DEF Secluded, Private, InBilling
<1>2. req'[t] = "stored"
  BY DEF Secluded, Private
<1>3. \A q \in Pollers : BillingAt(q, t)'
  BY <1>1 DEF InBilling, BillingAt
<1>4. Kind[t] = "suno" => \A q \in Pollers : SunoAt(q, t)'
  BY DEF SunoAt, InBilling
<1>5. QED  BY <1>1, <1>2, <1>3, <1>4 DEF QuietInv

\* While the row of t is unfinished nobody bills it, except its only loop (suno),
\* and it is charged its quota.
LEMMA UnfinishedIsCharged ==
    ASSUME QInv, Undisturbed, NEW p \in Pollers, NEW t \in Tasks, ~InBilling(p, t),
           req[t] = "stored", status[t] \notin Terminal
    PROVE  Charged(t) /\ \A q \in Pollers : ~InBilling(q, t)
<1>0. QuietInv(t) /\ BillingInv(t) /\ \A q \in Pollers : PollerInv(q)
  BY DEF QInv, IInv
<1>1. ASSUME NEW q \in Pollers, InBilling(q, t)  PROVE FALSE
  <2>1. CASE Kind[t] = "suno"
    BY <1>1, <2>1 DEF Undisturbed
  <2>2. CASE Kind[t] = "video"
    <3>1. ~Pending(q, t)
      BY <1>0, <2>2 DEF BillingInv
    <3>2. ppc[q] # "save"
      BY <1>0, <1>1, <2>2 DEF PollerInv, InBilling
    <3>3. ppc[q] = "token" /\ cur[q] = t
      BY <1>1, <3>1, <3>2 DEF InBilling, Pending
    <3>4. Owes(q, t)
      BY <1>0, <3>3 DEF QuietInv, BillingAt
    <3>5. QED  BY <2>2, <3>4 DEF Owes, Terminal
  <2>3. QED  BY <2>1, <2>2 DEF Undisturbed
<1>2. Agreed(t)
  BY <1>0, <1>1 DEF QuietInv
<1>3. QED  BY <1>1, <1>2 DEF Agreed

\* Every step of loop p that touches no charge and holds no task afterwards that
\* it was billing: the lists, and a fetch that fails.
LEMMA QuietLists ==
    ASSUME QInv, NEW p \in Pollers, Secluded(p),
           \/ ListTimedOut(p) \/ ListUnfinished(p) \/ PassEnds(p)
           \/ \E t \in Tasks : FetchFails(p, t)
    PROVE  \A u \in Tasks : QuietInv(u)'
<1> USE ConstantsAssumption
<1>0. TypeOK /\ PollerInv(p) /\ \A u \in Tasks : QuietInv(u)
  BY DEF QInv, IInv
<1>1. cur[p] = NoTask /\ cur' = cur /\ UNCHANGED <<status, funds, tok>>
  BY <1>0 DEF PollerInv, ListTimedOut, ListUnfinished, PassEnds, FetchFails, dbVars
<1>2. \A u \in Tasks : Kind[u] = "suno" /\ u \in work'[p] => status[u] = mem'[p][u]
  BY <1>0 DEF QuietInv, SunoAt, TypeOK, ListTimedOut, ListUnfinished, PassEnds, FetchFails
<1>3. ASSUME NEW u \in Tasks  PROVE ~InBilling(p, u) /\ cur'[p] # u
  BY <1>1 DEF InBilling
<1>4. QED  BY <1>1, <1>2, <1>3, NotConcerned

\* A fetch that answers.
LEMMA QuietFetch ==
    ASSUME QInv, Undisturbed, NEW p \in Pollers, Secluded(p), NEW t \in Tasks, FetchTask(p, t)
    PROVE  \A u \in Tasks : QuietInv(u)'
<1> USE ConstantsAssumption
<1>0. TypeOK /\ PollerInv(p) /\ \A u \in Tasks : QuietInv(u)
  BY DEF QInv, IInv
<1>1. /\ cur[p] = NoTask /\ cur'[p] = t /\ ppc'[p] = "fetched" /\ phase'[p] = "poll"
      /\ t \in work[p] /\ work'[p] = work[p] \ {t} /\ mem' = mem
      /\ UNCHANGED <<status, funds, tok>>
  BY <1>0 DEF PollerInv, FetchTask, dbVars, TypeOK
<1>2. \A u \in Tasks : Kind[u] = "suno" /\ u \in work[p] => status[u] = mem[p][u]
  BY <1>0 DEF QuietInv, SunoAt
<1>3. ASSUME NEW u \in Tasks \ {t}  PROVE QuietInv(u)'
  <2>1. ~InBilling(p, u) /\ cur'[p] # u
    BY <1>1 DEF InBilling
  <2>2. Kind[u] = "suno" /\ u \in work'[p] => status[u] = mem'[p][u]
    BY <1>1, <1>2
  <2>3. QED  BY <1>1, <2>1, <2>2, NotConcerned
<1>4. QuietInv(t)'
  <2>1. \A q \in Pollers : InBilling(q, t)' <=> InBilling(q, t)
    BY <1>1 DEF Secluded, Private, InBilling
  <2>2. ASSUME NEW q \in Pollers  PROVE BillingAt(q, t)'
    <3>1. CASE q = p
      BY <1>1, <3>1 DEF BillingAt
    <3>2. CASE q # p
      BY <1>0, <1>1, <3>2 DEF QuietInv, BillingAt, Charged, Owes, Secluded, Private
    <3>3. QED  BY <3>1, <3>2
  <2>3. ASSUME Kind[t] = "suno"  PROVE \A q \in Pollers : SunoAt(q, t)'
    <3>1. Pollers = {p}
      BY <2>3 DEF Undisturbed
    <3>2. answer'[p] # "REASON"
      <4>1. answer'[p] \in Answers(t) /\ Answers(t) = {StatusOf[upstream[t]]}
        BY <1>0, <2>3 DEF FetchTask, Answers, TypeOK, Undisturbed
      <4>2. upstream[t] \in {"running", "success", "failure"}
        BY <1>0, <1>1 DEF QInv, IInv, RequestInv, PollerInv, TypeOK
      <4>3. StatusOf[upstream[t]] \in {"IN_PROGRESS", "SUCCESS", "FAILURE"}
        BY <4>2 DEF StatusOf
      <4>4. QED  BY <4>1, <4>3
    <3>3. QED  BY <1>1, <1>2, <2>3, <3>1, <3>2 DEF SunoAt
  <2>4. (Charged(t)' <=> Charged(t)) /\ (Agreed(t)' <=> Agreed(t))
    BY <1>1 DEF Charged, Agreed, Secluded
  <2>5. QED
    BY <1>0, <2>1, <2>2, <2>3, <2>4 DEF QuietInv, Secluded, Private
<1>5. QED  BY <1>3, <1>4

\* A step of loop p about t leaves every other task alone.
LEMMA QuietOthers ==
    ASSUME QInv, NEW p \in Pollers, Secluded(p), NEW t \in Tasks,
           cur[p] \in {t, NoTask}, cur'[p] \in {t, NoTask},
           \A u \in Tasks \ {t} : status'[u] = status[u] /\ funds'[u] = funds[u] /\ tok'[u] = tok[u],
           work'[p] \subseteq work[p], mem'[p] = mem[p]
    PROVE  \A u \in Tasks \ {t} : QuietInv(u)'
<1> SUFFICES ASSUME NEW u \in Tasks \ {t}  PROVE QuietInv(u)'
  OBVIOUS
<1>1. ~InBilling(p, u) /\ cur'[p] # u
  BY ConstantsAssumption DEF InBilling
<1>2. Kind[u] = "suno" /\ u \in work'[p] => status[u] = mem'[p][u]
  BY DEF QInv, QuietInv, SunoAt
<1>3. QED  BY <1>1, <1>2, NotConcerned

\* A timed out task is failed and, if it was charged, billed.
LEMMA QuietSweep ==
    ASSUME QInv, Undisturbed, NEW p \in Pollers, Secluded(p), NEW t \in Tasks,
           NEW out \in Outcomes, SweepTimedOutTask(p, t, out)
    PROVE  \A u \in Tasks : QuietInv(u)'
<1> USE ConstantsAssumption
<1>0. TypeOK /\ PollerInv(p) /\ QuietInv(t) /\ out = "ok"
  BY DEF QInv, IInv, Outcomes, Undisturbed
<1>1. /\ cur[p] = NoTask /\ phase'[p] = "sweep" /\ t \in work[p]
      /\ work'[p] = work[p] \ {t} /\ mem' = mem
      /\ mem[p][t] \notin Terminal /\ req[t] = "stored"
      /\ UpdateWithStatus(p, t, "FAILURE", out)
      /\ UNCHANGED <<funds, tok>>
  BY <1>0 DEF PollerInv, SweepTimedOutTask, TypeOK
<1>2. /\ \A u \in Tasks : u # t => status'[u] = status[u]
      /\ CasWins(p, t) => status[t] \notin Terminal /\ status'[t] = "FAILURE"
      /\ ~CasWins(p, t) => status' = status
  <2>1. "FAILURE" \in Statuses
    BY DEF Statuses, Terminal
  <2>2. ~CasWins(p, t) => status' = status
    BY <1>1 DEF UpdateWithStatus
  <2>3. QED  BY <1>0, <1>1, <2>1, <2>2, CasStep
<1>3. \/ CasWins(p, t) /\ Bill(p, t, -quota[t])
      \/ Continue(p) /\ (CasWins(p, t) => quota[t] = 0)
  BY <1>0 DEF SweepTimedOutTask
<1>4. cur'[p] \in {t, NoTask}
  BY <1>0, <1>3, ContinueFacts, BillFacts
<1>5. \A u \in Tasks \ {t} : QuietInv(u)'
  BY <1>1, <1>2, <1>4, QuietOthers
<1>6. ~InBilling(p, t)
  BY <1>1 DEF InBilling
<1>7. CASE ~CasWins(p, t)
  <2>1. Continue(p)
    BY <1>3, <1>7
  <2>2. cur'[p] # t
    BY <1>0, <2>1, ContinueFacts
  <2>3. QED  BY <1>1, <1>2, <1>5, <1>6, <1>7, <2>2, NotConcerned
<1>8. CASE CasWins(p, t)
  <2>1. Charged(t) /\ \A q \in Pollers : ~InBilling(q, t)
    BY <1>1, <1>2, <1>6, <1>8, UnfinishedIsCharged
  <2>2. Kind[t] = "suno" => Pollers = {p} /\ t \notin work'[p]
    BY <1>1 DEF Undisturbed
  <2>3. Charged(t)' /\ quota'[t] = quota[t]
    BY <1>1, <2>1 DEF Charged, Secluded
  <2>4. CASE Bill(p, t, -quota[t])
    <3>1. ppc'[p] = "funding" /\ cur'[p] = t /\ owed'[p] = -quota[t]
      BY <1>0, <2>4, BillFacts
    <3>2. InBilling(p, t)' /\ BillingAt(p, t)'
      BY <1>1, <1>2, <1>8, <2>3, <3>1 DEF InBilling, BillingAt, Owes
    <3>3. QuietInv(t)'
      BY <1>1, <2>1, <2>2, <3>2, GoesOn
    <3>4. QED  BY <1>5, <3>3
  <2>5. CASE Continue(p) /\ quota[t] = 0
    <3>1. cur'[p] # t
      BY <1>0, <2>5, ContinueFacts
    <3>2. Agreed(t)'
      BY <1>2, <1>8, <2>3, <2>5 DEF Agreed, Charged, Terminal
    <3>3. QuietInv(t)'
      BY <1>1, <2>1, <2>2, <3>1, <3>2, DoneWith
    <3>4. QED  BY <1>5, <3>3
  <2>6. QED  BY <1>3, <1>8, <2>4, <2>5
<1>9. QED  BY <1>7, <1>8

\* A video task is updated: its winner bills it, unless there is nothing to bill.
LEMMA QuietVideo ==
    ASSUME QInv, Undisturbed, NEW p \in Pollers, Secluded(p),
           NEW out \in Outcomes, UpdateVideoSingleTask(p, out)
    PROVE  \A u \in Tasks : QuietInv(u)'
<1> USE ConstantsAssumption
<1>0. TypeOK /\ PollerInv(p) /\ out = "ok" /\ ppc[p] = "fetched"
  BY DEF QInv, IInv, Outcomes, Undisturbed, UpdateVideoSingleTask
<1>1. PICK t \in Tasks : cur[p] = t /\ mem[p][t] \notin Terminal /\ req[t] = "stored"
  BY <1>0 DEF PollerInv, TypeOK
<1>2. Kind[t] = "video" /\ answer[p] \in Statuses
  BY <1>0, <1>1 DEF UpdateVideoSingleTask, Undisturbed, PollerInv
<1>3. /\ UpdateWithStatus(p, t, answer[p], out)
      /\ UNCHANGED <<funds, tok, work, mem>>
  BY <1>1 DEF UpdateVideoSingleTask
<1>4. /\ \A u \in Tasks : u # t => status'[u] = status[u]
      /\ CasWins(p, t) => status[t] \notin Terminal /\ status'[t] = answer[p]
      /\ ~CasWins(p, t) => status' = status
  <2>1. ~CasWins(p, t) => status' = status
    BY <1>3 DEF UpdateWithStatus
  <2>2. QED  BY <1>0, <1>1, <1>2, <1>3, <2>1, CasStep
<1>5. \/ /\ CasWins(p, t) /\ answer[p] = "SUCCESS"
         /\ ppc' = [ppc EXCEPT ![p] = "complete"] /\ cur' = cur
      \/ CasWins(p, t) /\ answer[p] = "FAILURE" /\ Bill(p, t, -quota[t])
      \/ /\ Continue(p)
         /\ CasWins(p, t) => answer[p] \notin Terminal \/ (answer[p] = "FAILURE" /\ quota[t] = 0)
  BY <1>0, <1>1 DEF UpdateVideoSingleTask
<1>6. cur'[p] \in {t, NoTask}
  BY <1>0, <1>1, <1>5, ContinueFacts, BillFacts
<1>7. \A u \in Tasks \ {t} : QuietInv(u)'
  BY <1>1, <1>3, <1>4, <1>6, QuietOthers
<1>8. ~InBilling(p, t)
  BY <1>0 DEF InBilling
<1>9. CASE ~CasWins(p, t)
  <2>1. cur'[p] # t
    BY <1>0, <1>5, <1>9, ContinueFacts
  <2>2. QED  BY <1>2, <1>3, <1>4, <1>7, <1>8, <1>9, <2>1, NotConcerned
<1>10. CASE CasWins(p, t)
  <2>1. Charged(t) /\ \A q \in Pollers : ~InBilling(q, t)
    BY <1>1, <1>4, <1>8, <1>10, UnfinishedIsCharged
  <2>3. Charged(t)' /\ quota'[t] = quota[t]
    BY <1>3, <2>1 DEF Charged, Secluded
  <2>4. CASE /\ answer[p] = "SUCCESS"
             /\ ppc' = [ppc EXCEPT ![p] = "complete"] /\ cur' = cur
    <3>1. ppc'[p] = "complete" /\ cur'[p] = t
      BY <1>0, <1>1, <2>4 DEF TypeOK
    <3>2. InBilling(p, t)' /\ BillingAt(p, t)'
      BY <1>2, <1>4, <1>10, <2>3, <2>4, <3>1 DEF InBilling, BillingAt
    <3>3. QuietInv(t)'
      BY <1>1, <1>2, <2>1, <3>2, GoesOn
    <3>4. QED  BY <1>7, <3>3
  <2>5. CASE answer[p] = "FAILURE" /\ Bill(p, t, -quota[t])
    <3>1. ppc'[p] = "funding" /\ cur'[p] = t /\ owed'[p] = -quota[t]
      BY <1>0, <2>5, BillFacts
    <3>2. InBilling(p, t)' /\ BillingAt(p, t)'
      BY <1>2, <1>4, <1>10, <2>3, <2>5, <3>1 DEF InBilling, BillingAt, Owes
    <3>3. QuietInv(t)'
      BY <1>1, <1>2, <2>1, <3>2, GoesOn
    <3>4. QED  BY <1>7, <3>3
  <2>6. CASE /\ Continue(p)
             /\ answer[p] \notin Terminal \/ (answer[p] = "FAILURE" /\ quota[t] = 0)
    <3>1. cur'[p] # t
      BY <1>0, <2>6, ContinueFacts
    <3>2. Agreed(t)'
      BY <1>4, <1>10, <2>3, <2>6 DEF Agreed, Charged, Terminal
    <3>3. QuietInv(t)'
      BY <1>1, <1>2, <2>1, <3>1, <3>2, DoneWith
    <3>4. QED  BY <1>7, <3>3
  <2>7. QED  BY <1>5, <1>10, <2>4, <2>5, <2>6
<1>11. QED  BY <1>9, <1>10

\* A loop that bills holds a stored task, alone.
LEMMA BillerFacts ==
    ASSUME QInv, Undisturbed, NEW p \in Pollers,
           ppc[p] \in {"complete", "funding", "token", "save"}
    PROVE  \E t \in Tasks :
              /\ cur[p] = t /\ InBilling(p, t) /\ req[t] = "stored"
              /\ \A q \in Pollers \ {p} : ~InBilling(q, t)
              /\ BillingAt(p, t)
              /\ Kind[t] = "suno" => Pollers = {p} /\ t \notin work[p]
              /\ quota[t] \in Nat /\ funds[t] \in Int /\ tok[t] \in Int /\ owed[p] \in Int
<1>1. TypeOK /\ PollerInv(p)
  BY DEF QInv, IInv
<1>2. PICK t \in Tasks : cur[p] = t /\ req[t] = "stored"
  BY <1>1 DEF PollerInv, TypeOK
<1>3. QuietInv(t)
  BY DEF QInv
<1>4. InBilling(p, t)
  BY <1>2 DEF InBilling
<1>5. \A q \in Pollers \ {p} : ~InBilling(q, t)
  BY <1>3, <1>4 DEF QuietInv
<1>6. Kind[t] = "suno" => Pollers = {p} /\ t \notin work[p]
  BY <1>2, <1>3 DEF QuietInv, SunoAt, Undisturbed
<1>7. quota[t] \in Nat /\ funds[t] \in Int /\ tok[t] \in Int /\ owed[p] \in Int
  BY <1>1 DEF TypeOK
<1>8. QED  BY <1>2, <1>3, <1>4, <1>5, <1>6, <1>7 DEF QuietInv

\* The completed task is billed for what it cost.
LEMMA QuietComplete ==
    ASSUME QInv, Undisturbed, NEW p \in Pollers, Secluded(p),
           NEW c \in Costs, SettleTaskBillingOnComplete(p, c)
    PROVE  \A u \in Tasks : QuietInv(u)'
<1> USE ConstantsAssumption
<1>0. TypeOK /\ ppc[p] = "complete"
  BY DEF QInv, IInv, SettleTaskBillingOnComplete
<1>1. PICK t \in Tasks :
              /\ cur[p] = t /\ InBilling(p, t) /\ req[t] = "stored"
              /\ \A q \in Pollers \ {p} : ~InBilling(q, t)
              /\ BillingAt(p, t)
              /\ Kind[t] = "suno" => Pollers = {p} /\ t \notin work[p]
              /\ quota[t] \in Nat /\ funds[t] \in Int /\ tok[t] \in Int /\ owed[p] \in Int
  BY <1>0, BillerFacts
<1>2. Kind[t] = "video" /\ status[t] = "SUCCESS" /\ Charged(t)
  BY <1>0, <1>1 DEF BillingAt
<1>3. UNCHANGED <<status, funds, tok, work, mem>>
  BY DEF SettleTaskBillingOnComplete, dbVars
<1>4. \/ Continue(p)
      \/ c # 0 /\ Bill(p, t, c - quota[t])
  BY <1>1 DEF SettleTaskBillingOnComplete
<1>5. cur'[p] \in {t, NoTask}
  BY <1>0, <1>4, ContinueFacts, BillFacts
<1>6. \A u \in Tasks \ {t} : QuietInv(u)'
  BY <1>1, <1>3, <1>5, QuietOthers
<1>7. Charged(t)' /\ quota'[t] = quota[t] /\ status'[t] = "SUCCESS"
  BY <1>2, <1>3 DEF Charged, Secluded
<1>8. CASE Continue(p)
  <2>1. cur'[p] # t
    BY <1>0, <1>8, ContinueFacts
  <2>2. Agreed(t)'
    BY <1>7 DEF Agreed, Charged, Terminal
  <2>3. QuietInv(t)'
    BY <1>1, <1>2, <2>1, <2>2, DoneWith
  <2>4. QED  BY <1>6, <2>3
<1>9. CASE c # 0 /\ Bill(p, t, c - quota[t])
  <2>1. ppc'[p] = "funding" /\ cur'[p] = t /\ owed'[p] = c - quota[t]
    BY <1>0, <1>9, BillFacts
  <2>2. owed'[p] + quota[t] = c
    BY <1>1, <2>1
  <2>3. InBilling(p, t)' /\ BillingAt(p, t)'
    BY <1>2, <1>7, <1>9, <2>1, <2>2 DEF InBilling, BillingAt, Owes
  <2>4. QuietInv(t)'
    BY <1>1, <1>2, <2>3, GoesOn
  <2>5. QED  BY <1>6, <2>4
<1>10. QED  BY <1>4, <1>8, <1>9

\* A suno task that failed is refunded first, any other is saved.
LEMMA QuietSuno ==
    ASSUME QInv, Undisturbed, NEW p \in Pollers, Secluded(p), UpdateSunoTask(p)
    PROVE  \A u \in Tasks : QuietInv(u)'
<1> USE ConstantsAssumption
<1>0. TypeOK /\ PollerInv(p) /\ ppc[p] = "fetched"
  BY DEF QInv, IInv, UpdateSunoTask
<1>1. PICK t \in Tasks : /\ cur[p] = t /\ mem[p][t] \notin Terminal /\ req[t] = "stored"
                         /\ Kind[t] = "suno"
  BY <1>0 DEF PollerInv, TypeOK, UpdateSunoTask
<1>2. QuietInv(t) /\ Pollers = {p}
  BY <1>1 DEF QInv, Undisturbed
<1>3. /\ status[t] \notin Terminal /\ phase[p] = "poll" /\ answer[p] # "REASON"
      /\ t \notin work[p]
  BY <1>0, <1>1, <1>2 DEF QuietInv, SunoAt
<1>4. UNCHANGED <<status, funds, tok, work, mem, phase>>
  BY DEF UpdateSunoTask, dbVars
<1>5. \/ Continue(p)
      \/ answer[p] = "FAILURE" /\ Bill(p, t, -quota[t])
      \/ /\ answer[p] = "FAILURE" => quota[t] = 0
         /\ ppc' = [ppc EXCEPT ![p] = "save"] /\ UNCHANGED <<cur, answer>>
  BY <1>1, <1>3 DEF UpdateSunoTask
<1>6. cur'[p] \in {t, NoTask}
  BY <1>0, <1>1, <1>5, ContinueFacts, BillFacts
<1>7. \A u \in Tasks \ {t} : QuietInv(u)'
  BY <1>1, <1>4, <1>6, QuietOthers
<1>8. ~InBilling(p, t)
  BY <1>0 DEF InBilling
<1>9. Charged(t) /\ \A q \in Pollers : ~InBilling(q, t)
  BY <1>1, <1>3, <1>8, UnfinishedIsCharged
<1>10. Charged(t)' /\ quota'[t] = quota[t] /\ status'[t] \notin Terminal
  BY <1>3, <1>4, <1>9 DEF Charged, Secluded
<1>11. CASE Continue(p)
  <2>1. cur'[p] # t
    BY <1>0, <1>11, ContinueFacts
  <2>2. Agreed(t)'
    BY <1>10 DEF Agreed, Terminal
  <2>3. QuietInv(t)'
    BY <1>1, <1>2, <1>3, <1>4, <1>9, <2>1, <2>2, DoneWith
  <2>4. QED  BY <1>7, <2>3
<1>12. CASE answer[p] = "FAILURE" /\ Bill(p, t, -quota[t])
  <2>1. ppc'[p] = "funding" /\ cur'[p] = t /\ owed'[p] = -quota[t] /\ answer'[p] = "FAILURE"
    BY <1>0, <1>12, BillFacts
  <2>2. InBilling(p, t)' /\ BillingAt(p, t)'
    BY <1>1, <1>3, <1>4, <1>10, <2>1 DEF InBilling, BillingAt, Owes
  <2>3. QuietInv(t)'
    BY <1>1, <1>2, <1>3, <1>4, <1>9, <2>2, GoesOn
  <2>4. QED  BY <1>7, <2>3
<1>13. CASE /\ answer[p] = "FAILURE" => quota[t] = 0
            /\ ppc' = [ppc EXCEPT ![p] = "save"] /\ UNCHANGED <<cur, answer>>
  <2>1. ppc'[p] = "save" /\ cur'[p] = t /\ answer'[p] = answer[p]
    BY <1>0, <1>1, <1>13 DEF TypeOK
  <2>2. answer[p] = "FAILURE" => funds'[t] = 0 /\ tok'[t] = 0
    BY <1>10, <1>13 DEF Charged
  <2>3. InBilling(p, t)' /\ BillingAt(p, t)'
    BY <1>3, <1>4, <1>10, <2>1, <2>2 DEF InBilling, BillingAt
  <2>4. QuietInv(t)'
    BY <1>1, <1>2, <1>3, <1>4, <1>9, <2>3, GoesOn
  <2>5. QED  BY <1>7, <2>4
<1>14. QED  BY <1>5, <1>11, <1>12, <1>13

\* The funding is adjusted by what is owed.
LEMMA QuietFunding ==
    ASSUME QInv, Undisturbed, NEW p \in Pollers, Secluded(p),
           NEW ok \in BOOLEAN, TaskAdjustFunding(p, ok)
    PROVE  \A u \in Tasks : QuietInv(u)'
<1> USE ConstantsAssumption
<1>0. TypeOK /\ ppc[p] = "funding" /\ ok
  BY DEF QInv, IInv, TaskAdjustFunding, Undisturbed
<1>1. PICK t \in Tasks :
              /\ cur[p] = t /\ InBilling(p, t) /\ req[t] = "stored"
              /\ \A q \in Pollers \ {p} : ~InBilling(q, t)
              /\ BillingAt(p, t)
              /\ Kind[t] = "suno" => Pollers = {p} /\ t \notin work[p]
              /\ quota[t] \in Nat /\ funds[t] \in Int /\ tok[t] \in Int /\ owed[p] \in Int
  BY <1>0, BillerFacts
<1>2. Charged(t) /\ Owes(p, t)
  BY <1>0, <1>1 DEF BillingAt
<1>3. /\ funds' = [funds EXCEPT ![t] = @ + owed[p]]
      /\ ppc' = [ppc EXCEPT ![p] = "token"]
      /\ UNCHANGED <<status, tok, work, mem, phase, cur, answer, owed>>
  BY <1>0, <1>1 DEF TaskAdjustFunding
<1>4. /\ ppc'[p] = "token" /\ cur'[p] = t /\ funds'[t] = quota[t] + owed[p]
      /\ tok'[t] = quota[t] /\ quota'[t] = quota[t]
      /\ \A u \in Tasks \ {t} : funds'[u] = funds[u]
  BY <1>0, <1>1, <1>2, <1>3 DEF TypeOK, Charged, Secluded
<1>5. \A u \in Tasks \ {t} : QuietInv(u)'
  BY <1>1, <1>3, <1>4, QuietOthers
<1>6. Owes(p, t)'
  BY <1>2, <1>3, <1>4 DEF Owes
<1>7. InBilling(p, t)' /\ BillingAt(p, t)'
  BY <1>3, <1>4, <1>6 DEF InBilling, BillingAt
<1>8. QuietInv(t)'
  BY <1>1, <1>3, <1>7, GoesOn
<1>9. QED  BY <1>5, <1>8

\* The token follows; the charge is now what the status says, or will say.
LEMMA QuietToken ==
    ASSUME QInv, Undisturbed, NEW p \in Pollers, Secluded(p),
           NEW ok \in BOOLEAN, TaskAdjustTokenQuota(p, ok)
    PROVE  \A u \in Tasks : QuietInv(u)'
<1> USE ConstantsAssumption
<1>0. TypeOK /\ ppc[p] = "token" /\ ok
  BY DEF QInv, IInv, TaskAdjustTokenQuota, Undisturbed
<1>1. PICK t \in Tasks :
              /\ cur[p] = t /\ InBilling(p, t) /\ req[t] = "stored"
              /\ \A q \in Pollers \ {p} : ~InBilling(q, t)
              /\ BillingAt(p, t)
              /\ Kind[t] = "suno" => Pollers = {p} /\ t \notin work[p]
              /\ quota[t] \in Nat /\ funds[t] \in Int /\ tok[t] \in Int /\ owed[p] \in Int
  BY <1>0, BillerFacts
<1>2. funds[t] = quota[t] + owed[p] /\ tok[t] = quota[t] /\ Owes(p, t)
  BY <1>0, <1>1 DEF BillingAt
<1>3. /\ tok' = [tok EXCEPT ![t] = @ + owed[p]]
      /\ UNCHANGED <<status, funds, work, mem, phase>> /\ Billed(p)
  BY <1>0, <1>1 DEF TaskAdjustTokenQuota
<1>4. /\ tok'[t] = quota[t] + owed[p] /\ funds'[t] = quota[t] + owed[p]
      /\ quota'[t] = quota[t]
      /\ \A u \in Tasks \ {t} : tok'[u] = tok[u]
  BY <1>0, <1>2, <1>3 DEF TypeOK, Secluded
<1>5. CASE Kind[t] = "suno" /\ phase[p] = "poll"
  <2>1. ppc'[p] = "save" /\ cur'[p] = t /\ answer'[p] = answer[p]
    BY <1>0, <1>1, <1>3, <1>5 DEF Billed, TypeOK
  <2>2. answer[p] = "FAILURE" /\ status[t] \notin Terminal /\ owed[p] = -quota[t]
    BY <1>2, <1>5 DEF Owes
  <2>3. funds'[t] = 0 /\ tok'[t] = 0
    BY <1>1, <1>4, <2>2
  <2>4. InBilling(p, t)' /\ BillingAt(p, t)'
    BY <1>3, <1>5, <2>1, <2>2, <2>3 DEF InBilling, BillingAt
  <2>5. QuietInv(t)'
    BY <1>1, <1>3, <2>4, GoesOn
  <2>6. \A u \in Tasks \ {t} : QuietInv(u)'
    BY <1>1, <1>3, <1>4, <2>1, QuietOthers
  <2>7. QED  BY <2>5, <2>6
<1>6. CASE ~(Kind[t] = "suno" /\ phase[p] = "poll")
  <2>1. Continue(p)
    BY <1>1, <1>3, <1>6 DEF Billed
  <2>2. cur'[p] = NoTask
    BY <1>0, <2>1, ContinueFacts
  <2>3. \/ status[t] = "FAILURE" /\ owed[p] = -quota[t]
        \/ status[t] = "SUCCESS" /\ owed[p] + quota[t] \in Costs \ {0}
    BY <1>2, <1>6 DEF Owes
  <2>4. Agreed(t)'
    <3>1. CASE status[t] = "FAILURE" /\ owed[p] = -quota[t]
      BY <1>1, <1>3, <1>4, <3>1 DEF Agreed, Terminal
    <3>2. CASE status[t] = "SUCCESS" /\ owed[p] + quota[t] \in Costs \ {0}
      <4>1. funds'[t] = owed[p] + quota[t] /\ tok'[t] = funds'[t]
        BY <1>1, <1>4
      <4>2. QED  BY <1>3, <3>2, <4>1 DEF Agreed, Terminal
    <3>3. QED  BY <2>3, <3>1, <3>2
  <2>5. QuietInv(t)'
    BY <1>1, <1>3, <2>2, <2>4, DoneWith
  <2>6. \A u \in Tasks \ {t} : QuietInv(u)'
    BY <1>1, <1>3, <1>4, <2>2, QuietOthers
  <2>7. QED  BY <2>5, <2>6
<1>7. QED  BY <1>5, <1>6

\* A suno task is saved after its bill.
LEMMA QuietSave ==
    ASSUME QInv, Undisturbed, NEW p \in Pollers, Secluded(p),
           NEW ok \in BOOLEAN, SaveSunoTask(p, ok)
    PROVE  \A u \in Tasks : QuietInv(u)'
<1> USE ConstantsAssumption
<1>0. TypeOK /\ ppc[p] = "save" /\ ok
  BY DEF QInv, IInv, SaveSunoTask, Undisturbed
<1>1. PICK t \in Tasks :
              /\ cur[p] = t /\ InBilling(p, t) /\ req[t] = "stored"
              /\ \A q \in Pollers \ {p} : ~InBilling(q, t)
              /\ BillingAt(p, t)
              /\ Kind[t] = "suno" => Pollers = {p} /\ t \notin work[p]
              /\ quota[t] \in Nat /\ funds[t] \in Int /\ tok[t] \in Int /\ owed[p] \in Int
  BY <1>0, BillerFacts
<1>2. /\ answer[p] # "REASON"
      /\ answer[p] = "FAILURE" => funds[t] = 0 /\ tok[t] = 0
      /\ answer[p] # "FAILURE" => Charged(t)
  BY <1>0, <1>1 DEF BillingAt
<1>3. /\ status' = [status EXCEPT ![t] = answer[p]]
      /\ UNCHANGED <<funds, tok, work, mem>> /\ Continue(p)
  BY <1>0, <1>1, <1>2 DEF SaveSunoTask, SetStatus
<1>4. status'[t] = answer[p] /\ \A u \in Tasks \ {t} : status'[u] = status[u]
  BY <1>0, <1>3 DEF TypeOK
<1>5. cur'[p] = NoTask
  BY <1>0, <1>3, ContinueFacts
<1>6. Agreed(t)'
  BY <1>2, <1>3, <1>4 DEF Agreed, Charged, Terminal, Secluded
<1>7. QuietInv(t)'
  BY <1>1, <1>3, <1>5, <1>6, DoneWith
<1>8. \A u \in Tasks \ {t} : QuietInv(u)'
  BY <1>1, <1>3, <1>4, <1>5, QuietOthers
<1>9. QED  BY <1>7, <1>8

\* A request charges its task before any loop can know of it.
LEMMA QuietRequest ==
    ASSUME QInv, Undisturbed, NEW t \in Tasks, RequestStep(t)
    PROVE  \A u \in Tasks : QuietInv(u)'
<1> USE ConstantsAssumption
<1>0. TypeOK /\ QuietInv(t) /\ req[t] # "stored"
  BY DEF QInv, IInv, RequestStep, PreConsumeFails, PreConsumeBilling, SubmitFails,
         SubmitAccepted, SettleBilling, InsertTask
<1>1. UNCHANGED <<ppc, cur, owed, phase, answer, work, mem>>
  BY DEF RequestStep, PreConsumeFails, PreConsumeBilling, SubmitFails, SubmitAccepted,
         SettleBilling, InsertTask, pollVars
<1>2. \A u \in Tasks \ {t} : /\ funds'[u] = funds[u] /\ tok'[u] = tok[u]
                             /\ quota'[u] = quota[u] /\ req'[u] = req[u]
                             /\ status'[u] = status[u]
  BY <1>0 DEF TypeOK, RequestStep, PreConsumeFails, PreConsumeBilling, SubmitFails,
              SubmitAccepted, SettleBilling, InsertTask, dbVars
<1>3. ASSUME NEW u \in Tasks \ {t}  PROVE QuietInv(u)'
  <2>1. QuietInv(u)
    BY DEF QInv
  <2>2. (Charged(u)' <=> Charged(u)) /\ (Agreed(u)' <=> Agreed(u))
    BY <1>2 DEF Charged, Agreed
  <2>3. \A p \in Pollers : InBilling(p, u)' <=> InBilling(p, u)
    BY <1>1 DEF InBilling
  <2>4. \A p \in Pollers : BillingAt(p, u)'
    BY <1>1, <1>2, <2>1, <2>2 DEF QuietInv, BillingAt, Owes
  <2>5. Kind[u] = "suno" => \A p \in Pollers : SunoAt(p, u)'
    BY <1>1, <1>2, <2>1 DEF QuietInv, SunoAt
  <2>6. QED  BY <1>2, <2>1, <2>2, <2>3, <2>4, <2>5 DEF QuietInv
<1>4. \A p \in Pollers : cur[p] # t /\ t \notin work[p]
  BY <1>0 DEF QInv, IInv, PollerInv
<1>5. \A p \in Pollers : ~InBilling(p, t)' /\ BillingAt(p, t)' /\ SunoAt(p, t)'
  BY <1>1, <1>4 DEF InBilling, BillingAt, SunoAt
<1>6. /\ req'[t] = "settled" => Charged(t)'
      /\ req'[t] = "stored" => Charged(t)' /\ status'[t] = "NOT_START"
  <2>1. CASE \E q \in Quotas : PreConsumeBilling(t, q)
    BY <1>0, <2>1 DEF TypeOK, PreConsumeBilling
  <2>2. CASE \E f, k \in BOOLEAN : SubmitFails(t, f, k)
    BY <1>0, <2>2 DEF TypeOK, SubmitFails
  <2>3. CASE \E q \in Quotas : SubmitAccepted(t, q)
    BY <1>0, <2>3 DEF TypeOK, SubmitAccepted
  <2>4. CASE \E f, k \in BOOLEAN : SettleBilling(t, f, k)
    BY <1>0, <2>4 DEF TypeOK, SettleBilling, Charged, Undisturbed
  <2>5. CASE \E ok \in BOOLEAN : InsertTask(t, ok)
    BY <1>0, <2>5 DEF TypeOK, InsertTask, Charged, QuietInv
  <2>6. CASE PreConsumeFails(t)
    BY <1>0, <2>6 DEF TypeOK, PreConsumeFails
  <2>7. QED  BY <2>1, <2>2, <2>3, <2>4, <2>5, <2>6 DEF RequestStep
<1>7. req'[t] = "stored" => Agreed(t)'
  BY <1>6 DEF Agreed, Terminal
<1>8. QuietInv(t)'
  BY <1>5, <1>6, <1>7 DEF QuietInv
<1>9. QED  BY <1>3, <1>8

\* Every step without failures keeps charges and statuses together.
LEMMA StepQuiet ==
    ASSUME QInv, Undisturbed, [Next]_vars
    PROVE  QInv'
<1>0. IInv /\ IInv' /\ TypeOK
  BY StepInv DEF QInv, IInv
<1>1. ASSUME UNCHANGED <<funds, tok, quota, req, status, pollVars>>
      PROVE  QInv'
  <2>1. UNCHANGED <<ppc, cur, owed, phase, answer, work, mem>>
    BY <1>1 DEF pollVars
  <2>2. ASSUME NEW t \in Tasks  PROVE QuietInv(t)'
    BY <1>1, <2>1 DEF QInv, QuietInv, Charged, Agreed, InBilling, BillingAt, Owes, SunoAt
  <2>3. QED  BY <1>0, <2>2 DEF QInv
<1>2. CASE UNCHANGED vars
  BY <1>1, <1>2 DEF vars, dbVars, reqVars
<1>3. ASSUME NEW t \in Tasks, RequestStep(t)  PROVE QInv'
  BY <1>0, <1>3, QuietRequest DEF QInv
<1>4. ASSUME NEW t \in Tasks,
             TimesOut(t) \/ \E how \in {"success", "failure"} : UpstreamEnds(t, how)
      PROVE  QInv'
  BY <1>1, <1>4 DEF TimesOut, UpstreamEnds, dbVars, reqVars
<1>5. exits = 0 /\ MaxExits = 0
  BY <1>0 DEF TypeOK, Undisturbed
<1>6. ASSUME (\E t \in Tasks : RequestExits(t)) \/ \E p \in Pollers : PollerExits(p)
      PROVE  FALSE
  BY <1>5, <1>6 DEF RequestExits, PollerExits
<1>7. ASSUME NEW p \in Pollers, PollerStep(p)  PROVE QInv'
  <2>1. Secluded(p)
    BY <1>0, <1>7, LoopFrame DEF Secluded
  <2>2. ASSUME NEW t \in Tasks, ChannelMissing(p, t)  PROVE FALSE
    BY <2>2 DEF ChannelMissing, Undisturbed
  <2>3. \A u \in Tasks : QuietInv(u)'
    BY <1>7, <2>1, <2>2, QuietLists, QuietFetch, QuietSweep, QuietVideo, QuietComplete,
       QuietSuno, QuietFunding, QuietToken, QuietSave DEF PollerStep
  <2>4. QED  BY <1>0, <2>3 DEF QInv
<1>8. ASSUME (\E t \in Tasks : ReadTask(t)) \/ RealtimeFetch \/ RealtimeFails \/ RealtimeSave
      PROVE  FALSE
  <2>1. \A t \in Tasks : Kind[t] # "live"
    BY DEF Undisturbed
  <2>2. rpc = "idle"
    BY <1>0, <2>1 DEF IInv, ReaderInv, TypeOK
  <2>3. QED
    BY <1>8, <2>1, <2>2 DEF ReadTask, RealtimeFetch, RealtimeFails, RealtimeSave
<1>9. QED
  BY <1>2, <1>3, <1>4, <1>6, <1>7, <1>8 DEF Next

\* Without failures and exits, once the billing of a terminal task is over its
\* charge is what its status says, for any number of video tasks and polling
\* processes, and for suno tasks that one process polls.
THEOREM ChargeFollowsStatus ==
    ASSUME Undisturbed
    PROVE  Spec => []ChargeMatchesStatus
<1>1. Init => QInv
  <2>1. ASSUME Init, NEW t \in Tasks  PROVE QuietInv(t)
    <3>1. \A p \in Pollers : cur[p] = NoTask /\ work[p] = {} /\ NoTask # t
      BY <2>1, ConstantsAssumption DEF Init
    <3>2. req[t] = "new"
      BY <2>1 DEF Init
    <3>3. QED  BY <3>1, <3>2 DEF QuietInv, InBilling, BillingAt, SunoAt
  <2>2. QED  BY <2>1, InitInv DEF QInv
<1>2. QInv /\ [Next]_vars => QInv'
  BY StepQuiet
<1>3. QInv => ChargeMatchesStatus
  <2> SUFFICES ASSUME QInv, NEW t \in Tasks, status[t] \in Terminal, ~Busy(t)
               PROVE  Agreed(t)
    BY DEF ChargeMatchesStatus, Agreed, Terminal
  <2>1. req[t] = "stored"
    BY DEF QInv, IInv, RequestInv, Terminal
  <2>2. \A p \in Pollers : ~InBilling(p, t)
    BY DEF Busy, InBilling
  <2>3. QED  BY <2>1, <2>2 DEF QInv, QuietInv
<1>4. QED  BY <1>1, <1>2, <1>3, PTL DEF Spec

=============================================================================
