----------------------------- MODULE TaskBilling -----------------------------
(***************************************************************************)
(* Asynchronous tasks (video and music generation) and what they cost.     *)
(* RelayTask charges a task when the upstream accepts it and stores it;    *)
(* the polling loop of service/task_polling.go later finds out how it      *)
(* ended, moves its row to a terminal status and refunds or adjusts the    *)
(* charge.  The status of the row decides who bills: UpdateWithStatus is a *)
(* compare-and-swap, and only its winner may touch the quota.  Three kinds *)
(* of task differ in who writes the row:                                   *)
(*   "video"   the polling loops only, by compare-and-swap;                *)
(*   "live"    also every user's fetch (Gemini and Vertex,                 *)
(*             relay/relay_task.go), by compare-and-swap but unbilled;     *)
(*   "suno"    the polling loop, by an unconditional save after the refund.*)
(* Several processes may poll (every node that is not a slave does), and   *)
(* any of them may exit between two steps.                                 *)
(***************************************************************************)
EXTENDS Integers

CONSTANTS
    Tasks,
    Kind,        \* the kind of each task
    Pollers,     \* the processes that run TaskPollingLoop
    Quotas,      \* what a task is estimated to cost, and is charged on submission
    Costs,       \* the actual quota on completion; 0: keep the charge
    NoTask,      \* no task
    MaxExits,    \* bound on the number of processes that exit
    MaxReads,    \* bound on the number of user fetches of live tasks
    Faults       \* which failures are explored, see FaultType

Kinds == {"video", "live", "suno"}

\* settle: the settlement on submission fails; database: a statement fails, or
\* commits unacknowledged; channel: a task's channel is gone; upstream: an
\* error body in place of a status.
FaultType == {"settle", "database", "channel", "upstream"}

ASSUME ConstantsAssumption ==
    /\ Kind \in [Tasks -> Kinds]
    /\ Quotas \subseteq Nat
    /\ Costs \subseteq Nat
    /\ NoTask \notin Tasks
    /\ MaxExits \in Nat
    /\ MaxReads \in Nat
    /\ Faults \subseteq FaultType

VARIABLES
    \* the database
    status,      \* tasks.status, "none" when there is no row
    complete,    \* tasks.progress is "100%"
    late,        \* tasks.submit_time is before the timeout's cutoff
    quota,       \* result.Quota, stored as tasks.quota
    funds,       \* what the wallet or subscription has been charged for the task
    tok,         \* what the token has been charged for the task
    billed,      \* history: funding adjustments made by the polling loops
    endings,     \* history: how often the row went from unfinished to terminal
    \* the upstream and the request that submits the task
    upstream,    \* "none", "running", "success", "failure"
    req,         \* control state of RelayTask
    \* the polling loops
    ppc,         \* control state
    phase,       \* "sweep" or "poll"
    work,        \* tasks left of the list read at the start of the phase
    mem,         \* mem[p][t]: status of task t when that list was read
    cur,         \* the task being handled
    answer,      \* the status to save for it
    owed,        \* the adjustment to make to its charge
    exits,       \* processes that exited so far
    \* one user's fetch of a live task
    rpc, rtask, rmem, ranswer,
    reads        \* fetches so far

dbVars == <<status, complete, late, quota, funds, tok, billed, endings>>
reqVars == <<upstream, req>>
pollVars == <<ppc, phase, work, mem, cur, answer, owed, exits>>
readVars == <<rpc, rtask, rmem, ranswer, reads>>
vars == <<dbVars, reqVars, pollVars, readVars>>

Terminal == {"SUCCESS", "FAILURE"}
Statuses == {"none", "NOT_START", "IN_PROGRESS"} \cup Terminal

NoList == [t \in Tasks |-> "none"]

TypeOK ==
    /\ status \in [Tasks -> Statuses]
    /\ complete \in [Tasks -> BOOLEAN]
    /\ late \in [Tasks -> BOOLEAN]
    /\ quota \in [Tasks -> Nat]
    /\ funds \in [Tasks -> Int]
    /\ tok \in [Tasks -> Int]
    /\ billed \in [Tasks -> Nat]
    /\ endings \in [Tasks -> Nat]
    /\ upstream \in [Tasks -> {"none", "running", "success", "failure"}]
    /\ req \in [Tasks -> {"new", "held", "accepted", "settled", "stored", "failed", "lost"}]
    /\ ppc \in [Pollers -> {"idle", "loop", "fetched", "complete", "funding",
                            "token", "save"}]
    /\ phase \in [Pollers -> {"sweep", "poll"}]
    /\ work \in [Pollers -> SUBSET Tasks]
    /\ mem \in [Pollers -> [Tasks -> Statuses]]
    /\ cur \in [Pollers -> Tasks \cup {NoTask}]
    /\ answer \in [Pollers -> Statuses \cup {"REASON"}]
    /\ owed \in [Pollers -> Int]
    /\ exits \in 0..MaxExits
    /\ rpc \in {"idle", "read", "fetched"}
    /\ rtask \in Tasks \cup {NoTask}
    /\ rmem \in Statuses
    /\ ranswer \in Statuses
    /\ reads \in 0..MaxReads

Init ==
    /\ status = [t \in Tasks |-> "none"]
    /\ complete = [t \in Tasks |-> FALSE]
    /\ late = [t \in Tasks |-> FALSE]
    /\ quota = [t \in Tasks |-> 0]
    /\ funds = [t \in Tasks |-> 0]
    /\ tok = [t \in Tasks |-> 0]
    /\ billed = [t \in Tasks |-> 0]
    /\ endings = [t \in Tasks |-> 0]
    /\ upstream = [t \in Tasks |-> "none"]
    /\ req = [t \in Tasks |-> "new"]
    /\ ppc = [p \in Pollers |-> "idle"]
    /\ phase = [p \in Pollers |-> "sweep"]
    /\ work = [p \in Pollers |-> {}]
    /\ mem = [p \in Pollers |-> NoList]
    /\ cur = [p \in Pollers |-> NoTask]
    /\ answer = [p \in Pollers |-> "none"]
    /\ owed = [p \in Pollers |-> 0]
    /\ exits = 0
    /\ rpc = "idle"
    /\ rtask = NoTask
    /\ rmem = "none"
    /\ ranswer = "none"
    /\ reads = 0

-----------------------------------------------------------------------------
(* RelayTask: reserve, submit, settle for result.Quota, store the task.     *)

\* RelayTaskSubmit reserves the estimate before it contacts the upstream.
PreConsumeBilling(t, q) ==
    /\ req[t] = "new"
    /\ req' = [req EXCEPT ![t] = "held"]
    /\ funds' = [funds EXCEPT ![t] = q]
    /\ tok' = [tok EXCEPT ![t] = q]
    /\ UNCHANGED <<status, complete, late, quota, billed, endings, upstream, pollVars, readVars>>

\* Validation, pricing or the reservation fails: nothing is charged.
PreConsumeFails(t) ==
    /\ req[t] = "new"
    /\ req' = [req EXCEPT ![t] = "failed"]
    /\ UNCHANGED <<dbVars, upstream, pollVars, readVars>>

\* No channel accepted the task: the deferred Refund gives the estimate back to
\* the funding and then to the token; a failure of either is logged.
SubmitFails(t, fundingOk, tokenOk) ==
    /\ req[t] = "held"
    /\ (~fundingOk \/ ~tokenOk) => "database" \in Faults
    /\ req' = [req EXCEPT ![t] = "failed"]
    /\ funds' = [funds EXCEPT ![t] = IF fundingOk THEN 0 ELSE @]
    /\ tok' = [tok EXCEPT ![t] = IF tokenOk THEN 0 ELSE @]
    /\ UNCHANGED <<status, complete, late, quota, billed, endings, upstream,
                   pollVars, readVars>>

\* The upstream accepts the task.  A retry on another channel, or the answer
\* itself, may have changed the price since the estimate was reserved.
SubmitAccepted(t, q) ==
    /\ req[t] = "held"
    /\ req' = [req EXCEPT ![t] = "accepted"]
    /\ upstream' = [upstream EXCEPT ![t] = "running"]
    /\ quota' = [quota EXCEPT ![t] = q]
    /\ UNCHANGED <<status, complete, late, funds, tok, billed, endings, pollVars, readVars>>

\* SettleBilling adjusts the charge to result.Quota.  A failure is logged and
\* nothing else: the request goes on, and result.Quota is what it stores.
SettleBilling(t, fundingOk, tokenOk) ==
    /\ req[t] = "accepted"
    /\ (~fundingOk \/ ~tokenOk) => "settle" \in Faults
    /\ ~fundingOk => ~tokenOk
    /\ req' = [req EXCEPT ![t] = "settled"]
    /\ funds' = [funds EXCEPT ![t] = IF fundingOk THEN quota[t] ELSE @]
    /\ tok' = [tok EXCEPT ![t] = IF tokenOk THEN quota[t] ELSE @]
    /\ UNCHANGED <<status, complete, late, quota, billed, endings, upstream, pollVars, readVars>>

\* A failed insert is logged too: the task is paid for and has no row.
InsertTask(t, ok) ==
    /\ req[t] = "settled"
    /\ ok \/ "database" \in Faults
    /\ req' = [req EXCEPT ![t] = IF ok THEN "stored" ELSE "lost"]
    /\ status' = [status EXCEPT ![t] = IF ok THEN "NOT_START" ELSE @]
    /\ UNCHANGED <<complete, late, quota, funds, tok, billed, endings, upstream,
                   pollVars, readVars>>

\* The process exits under the request.
RequestExits(t) ==
    /\ exits < MaxExits
    /\ req[t] \in {"held", "accepted", "settled"}
    /\ req' = [req EXCEPT ![t] = "lost"]
    /\ exits' = exits + 1
    /\ UNCHANGED <<dbVars, upstream, ppc, phase, work, mem, cur, answer, owed, readVars>>

\* The upstream finishes the task.
UpstreamEnds(t, how) ==
    /\ upstream[t] = "running"
    /\ upstream' = [upstream EXCEPT ![t] = how]
    /\ UNCHANGED <<dbVars, req, pollVars, readVars>>

\* TaskTimeoutMinutes pass.
TimesOut(t) ==
    /\ status[t] # "none"
    /\ ~late[t]
    /\ late' = [late EXCEPT ![t] = TRUE]
    /\ UNCHANGED <<status, complete, quota, funds, tok, billed, endings, reqVars,
                   pollVars, readVars>>

-----------------------------------------------------------------------------
(* TaskPollingLoop.                                                         *)

\* Mutant: tasks that have not started are not looked at.
UnfinishedStarted(t) == status[t] = "IN_PROGRESS" /\ ~complete[t]

\* The row is unfinished: neither terminal nor at 100%.
Unfinished(t) == status[t] \notin Terminal \cup {"none"} /\ ~complete[t]

\* The outcomes of a conditional update: done, done without the caller
\* learning of it, refused by the database.
Outcomes == {"ok"} \cup IF "database" \in Faults THEN {"unknown", "fail"} ELSE {}

\* Mutant: a save by primary key, as DB.Save would do it.
CasWinsAlways(p, t) == TRUE

\* The WHERE clause of Task.UpdateWithStatus(fromStatus).
CasWins(p, t) == status[t] = mem[p][t]

\* The row of t gets status new, and progress 100% if done.
SetStatus(t, new, done) ==
    /\ status' = [status EXCEPT ![t] = new]
    /\ complete' = [complete EXCEPT ![t] = done]
    /\ endings' = [endings EXCEPT ![t] =
          IF status[t] \notin Terminal /\ new \in Terminal THEN @ + 1 ELSE @]

\* Task.UpdateWithStatus moves the row of t to status new.
UpdateWithStatus(p, t, new, out) ==
    IF out # "fail" /\ CasWins(p, t)
    THEN SetStatus(t, new, new \in Terminal)
    ELSE UNCHANGED <<status, complete, endings>>

\* The loop goes on with the next task.
Continue(p) ==
    /\ ppc' = [ppc EXCEPT ![p] = "loop"]
    /\ cur' = [cur EXCEPT ![p] = NoTask]
    /\ answer' = [answer EXCEPT ![p] = "none"]
    /\ owed' = [owed EXCEPT ![p] = 0]

\* The loop goes on to bill task t: adjust its charge by delta.
Bill(p, t, delta) ==
    /\ ppc' = [ppc EXCEPT ![p] = "funding"]
    /\ cur' = [cur EXCEPT ![p] = t]
    /\ owed' = [owed EXCEPT ![p] = delta]
    /\ UNCHANGED answer

\* GetTimedOutUnfinishedTasks
ListTimedOut(p) ==
    /\ ppc[p] = "idle"
    /\ ppc' = [ppc EXCEPT ![p] = "loop"]
    /\ phase' = [phase EXCEPT ![p] = "sweep"]
    /\ work' = [work EXCEPT ![p] = {t \in Tasks : Unfinished(t) /\ late[t]}]
    /\ mem' = [mem EXCEPT ![p] = status]
    /\ UNCHANGED <<dbVars, reqVars, cur, answer, owed, exits, readVars>>

\* Mutant: the refund does not depend on winning the update.
SweepRefundsAnyway(p, t, out) ==
    /\ ppc[p] = "loop" /\ phase[p] = "sweep" /\ t \in work[p]
    /\ work' = [work EXCEPT ![p] = @ \ {t}]
    /\ UpdateWithStatus(p, t, "FAILURE", out)
    /\ IF quota[t] # 0 THEN Bill(p, t, -quota[t]) ELSE Continue(p)
    /\ UNCHANGED <<late, quota, funds, tok, billed, reqVars, phase, mem, exits,
                   readVars>>

\* Mutant: timed out tasks are all closed without a refund, like legacy ones.
SweepWithoutRefund(p, t, out) ==
    /\ ppc[p] = "loop" /\ phase[p] = "sweep" /\ t \in work[p]
    /\ work' = [work EXCEPT ![p] = @ \ {t}]
    /\ UpdateWithStatus(p, t, "FAILURE", out)
    /\ Continue(p)
    /\ UNCHANGED <<late, quota, funds, tok, billed, reqVars, phase, mem, exits,
                   readVars>>

\* One round of the loop of sweepTimedOutTasks.  (Rows older than
\* legacyTaskCutoff, which RelayTask no longer writes, are closed unrefunded.)
SweepTimedOutTask(p, t, out) ==
    /\ ppc[p] = "loop" /\ phase[p] = "sweep" /\ t \in work[p]
    /\ work' = [work EXCEPT ![p] = @ \ {t}]
    /\ UpdateWithStatus(p, t, "FAILURE", out)
    /\ IF out = "ok" /\ CasWins(p, t) /\ quota[t] # 0
       THEN Bill(p, t, -quota[t])
       ELSE Continue(p)
    /\ UNCHANGED <<late, quota, funds, tok, billed, reqVars, phase, mem, exits,
                   readVars>>

\* GetAllUnFinishSyncTasks, once the sweep is through.
ListUnfinished(p) ==
    /\ ppc[p] = "loop" /\ phase[p] = "sweep" /\ work[p] = {}
    /\ phase' = [phase EXCEPT ![p] = "poll"]
    /\ work' = [work EXCEPT ![p] = {t \in Tasks : Unfinished(t)}]
    /\ mem' = [mem EXCEPT ![p] = status]
    /\ UNCHANGED <<dbVars, reqVars, ppc, cur, answer, owed, exits, readVars>>

\* The pass is over; the loop sleeps.
PassEnds(p) ==
    /\ ppc[p] = "loop" /\ phase[p] = "poll" /\ work[p] = {}
    /\ ppc' = [ppc EXCEPT ![p] = "idle"]
    /\ mem' = [mem EXCEPT ![p] = NoList]
    /\ UNCHANGED <<dbVars, reqVars, phase, work, cur, answer, owed, exits, readVars>>

\* CacheGetChannel fails: TaskBulkUpdateByID, unconditionally and unbilled.
ChannelMissing(p, t) ==
    /\ "channel" \in Faults
    /\ ppc[p] = "loop" /\ phase[p] = "poll" /\ t \in work[p]
    /\ work' = [work EXCEPT ![p] = @ \ {t}]
    /\ SetStatus(t, "FAILURE", TRUE)
    /\ UNCHANGED <<late, quota, funds, tok, billed, reqVars, ppc, phase, mem, cur,
                   answer, owed, exits, readVars>>

StatusOf == [running |-> "IN_PROGRESS", success |-> "SUCCESS", failure |-> "FAILURE"]

\* Mutant: statuses the switch does not know are stored.
AnswersUnchecked(t) == {StatusOf[upstream[t]], "UNKNOWN"}

\* What the upstream answers about t: its state, an error body, which counts as
\* failure, or (suno) a fail_reason without a status.
Answers(t) ==
    {StatusOf[upstream[t]]} \cup
        IF "upstream" \notin Faults THEN {}
        ELSE IF Kind[t] = "suno" THEN {"REASON"} ELSE {"FAILURE"}

\* adaptor.FetchTask returns.  The row may change before its result is used.
FetchTask(p, t) ==
    /\ ppc[p] = "loop" /\ phase[p] = "poll" /\ t \in work[p]
    /\ work' = [work EXCEPT ![p] = @ \ {t}]
    /\ \E a \in Answers(t) : answer' = [answer EXCEPT ![p] = a]
    /\ cur' = [cur EXCEPT ![p] = t]
    /\ ppc' = [ppc EXCEPT ![p] = "fetched"]
    /\ UNCHANGED <<dbVars, reqVars, phase, mem, owed, exits, readVars>>

\* The fetch fails, is rate limited or cannot be parsed: left for the next pass.
FetchFails(p, t) ==
    /\ ppc[p] = "loop" /\ phase[p] = "poll" /\ t \in work[p]
    /\ work' = [work EXCEPT ![p] = @ \ {t}]
    /\ UNCHANGED <<dbVars, reqVars, ppc, phase, mem, cur, answer, owed, exits, readVars>>

\* The rest of updateVideoSingleTask: only the winner of a terminal transition
\* goes on to billing.
UpdateVideoSingleTask(p, out) ==
    LET t == cur[p] IN
    /\ ppc[p] = "fetched"
    /\ Kind[t] # "suno"
    /\ UpdateWithStatus(p, t, answer[p], out)
    /\ LET won == out = "ok" /\ CasWins(p, t) IN
       \/ /\ won /\ answer[p] = "SUCCESS"
          /\ ppc' = [ppc EXCEPT ![p] = "complete"]
          /\ UNCHANGED <<cur, answer, owed>>
       \/ /\ won /\ answer[p] = "FAILURE" /\ quota[t] # 0
          /\ Bill(p, t, -quota[t])
       \/ /\ ~won \/ answer[p] \notin Terminal \/ (answer[p] = "FAILURE" /\ quota[t] = 0)
          /\ Continue(p)
    /\ UNCHANGED <<late, quota, funds, tok, billed, reqVars, phase, work, mem, exits,
                   readVars>>

\* Mutant: the actual quota is charged on top of the estimate.
SettleChargesInFull(p, c) ==
    LET t == cur[p] IN
    /\ ppc[p] = "complete"
    /\ IF c = 0 THEN Continue(p) ELSE Bill(p, t, c)
    /\ UNCHANGED <<dbVars, reqVars, phase, work, mem, exits, readVars>>

\* settleTaskBillingOnComplete and RecalculateTaskQuota up to the adjustment;
\* c is what the adaptor or the token count says the task cost.  The new quota
\* is set on the task in memory; its row keeps the one it was stored with.
SettleTaskBillingOnComplete(p, c) ==
    LET t == cur[p] IN
    /\ ppc[p] = "complete"
    /\ IF c = 0 \/ c = quota[t] THEN Continue(p) ELSE Bill(p, t, c - quota[t])
    /\ UNCHANGED <<dbVars, reqVars, phase, work, mem, exits, readVars>>

\* One item of updateSunoTasks: a failed task is refunded before it is saved.
\* taskNeedsUpdate skips it if nothing changed; times and data may have changed
\* where the status has not.
UpdateSunoTask(p) ==
    LET t == cur[p]
        failed == answer[p] \in {"FAILURE", "REASON"}
    IN
    /\ ppc[p] = "fetched"
    /\ Kind[t] = "suno"
    /\ \/ answer[p] = mem[p][t] /\ Continue(p)
       \/ failed /\ quota[t] # 0 /\ Bill(p, t, -quota[t])
       \/ /\ ~failed \/ quota[t] = 0
          /\ ppc' = [ppc EXCEPT ![p] = "save"]
          /\ UNCHANGED <<cur, answer, owed>>
    /\ UNCHANGED <<dbVars, reqVars, phase, work, mem, exits, readVars>>

\* What follows the billing: updateSunoTasks still has to save the task.
Billed(p) ==
    IF Kind[cur[p]] = "suno" /\ phase[p] = "poll"
    THEN ppc' = [ppc EXCEPT ![p] = "save"] /\ UNCHANGED <<cur, answer, owed>>
    ELSE Continue(p)

\* taskAdjustFunding: on failure the token is left alone.
TaskAdjustFunding(p, ok) ==
    LET t == cur[p] IN
    /\ ppc[p] = "funding"
    /\ ok \/ "database" \in Faults
    /\ IF ok
       THEN /\ funds' = [funds EXCEPT ![t] = @ + owed[p]]
            /\ billed' = [billed EXCEPT ![t] = @ + 1]
            /\ ppc' = [ppc EXCEPT ![p] = "token"]
            /\ UNCHANGED <<cur, answer, owed>>
       ELSE /\ Billed(p)
            /\ UNCHANGED <<funds, billed>>
    /\ UNCHANGED <<status, complete, endings, late, quota, tok, reqVars, phase, work, mem, exits,
                   readVars>>

\* taskAdjustTokenQuota: a failure is logged.
TaskAdjustTokenQuota(p, ok) ==
    LET t == cur[p] IN
    /\ ppc[p] = "token"
    /\ ok \/ "database" \in Faults
    /\ tok' = [tok EXCEPT ![t] = IF ok THEN @ + owed[p] ELSE @]
    /\ Billed(p)
    /\ UNCHANGED <<status, complete, endings, late, quota, funds, billed, reqVars,
                   phase, work, mem, exits, readVars>>

\* Task.Update: the whole row, whatever it has become; a failure is logged.
SaveSunoTask(p, ok) ==
    LET t == cur[p] IN
    /\ ppc[p] = "save"
    /\ ok \/ "database" \in Faults
    /\ IF ok
       THEN SetStatus(t, IF answer[p] = "REASON" THEN mem[p][t] ELSE answer[p],
                      answer[p] \in Terminal \cup {"REASON"})
       ELSE UNCHANGED <<status, complete, endings>>
    /\ Continue(p)
    /\ UNCHANGED <<late, quota, funds, tok, billed, reqVars, phase, work, mem, exits,
                   readVars>>

\* The process of poller p exits; its successor starts with an empty memory.
PollerExits(p) ==
    /\ exits < MaxExits
    /\ ppc[p] # "idle"
    /\ exits' = exits + 1
    /\ ppc' = [ppc EXCEPT ![p] = "idle"]
    /\ cur' = [cur EXCEPT ![p] = NoTask]
    /\ answer' = [answer EXCEPT ![p] = "none"]
    /\ owed' = [owed EXCEPT ![p] = 0]
    /\ work' = [work EXCEPT ![p] = {}]
    /\ mem' = [mem EXCEPT ![p] = NoList]
    /\ UNCHANGED <<dbVars, reqVars, phase, readVars>>

-----------------------------------------------------------------------------
(* videoFetchByIDRespBodyBuilder and tryRealtimeFetch: a user asks for a    *)
(* live task, whatever its status.                                          *)

ReadTask(t) ==
    /\ rpc = "idle"
    /\ reads < MaxReads
    /\ reads' = reads + 1
    /\ Kind[t] = "live"
    /\ status[t] # "none"
    /\ rpc' = "read" /\ rtask' = t /\ rmem' = status[t]
    /\ UNCHANGED <<dbVars, reqVars, pollVars, ranswer>>

RealtimeFetch ==
    /\ rpc = "read"
    /\ rpc' = "fetched"
    /\ ranswer' = StatusOf[upstream[rtask]]
    /\ UNCHANGED <<dbVars, reqVars, pollVars, rtask, rmem, reads>>

\* The fetch fails or cannot be parsed, or the error of the update is ignored.
RealtimeFails ==
    /\ rpc \in {"read", "fetched"}
    /\ rpc' = "idle" /\ rtask' = NoTask /\ rmem' = "none" /\ ranswer' = "none"
    /\ UNCHANGED <<dbVars, reqVars, pollVars, reads>>

\* The row is updated if it still has the status read; nothing is billed.
RealtimeSave ==
    /\ rpc = "fetched"
    /\ IF status[rtask] = rmem
       THEN SetStatus(rtask, ranswer, ranswer \in Terminal)
       ELSE UNCHANGED <<status, complete, endings>>
    /\ rpc' = "idle" /\ rtask' = NoTask /\ rmem' = "none" /\ ranswer' = "none"
    /\ UNCHANGED <<reads, late, quota, funds, tok, billed, reqVars, pollVars>>

-----------------------------------------------------------------------------

RequestStep(t) ==
    \/ \E q \in Quotas : PreConsumeBilling(t, q)
    \/ PreConsumeFails(t)
    \/ \E f, k \in BOOLEAN : SubmitFails(t, f, k)
    \/ \E q \in Quotas : SubmitAccepted(t, q)
    \/ \E f, k \in BOOLEAN : SettleBilling(t, f, k)
    \/ \E ok \in BOOLEAN : InsertTask(t, ok)

PollerStep(p) ==
    \/ ListTimedOut(p)
    \/ \E t \in Tasks, out \in Outcomes : SweepTimedOutTask(p, t, out)
    \/ ListUnfinished(p)
    \/ PassEnds(p)
    \/ \E t \in Tasks : ChannelMissing(p, t) \/ FetchTask(p, t) \/ FetchFails(p, t)
    \/ \E out \in Outcomes : UpdateVideoSingleTask(p, out)
    \/ \E c \in Costs : SettleTaskBillingOnComplete(p, c)
    \/ UpdateSunoTask(p)
    \/ \E ok \in BOOLEAN :
          TaskAdjustFunding(p, ok) \/ TaskAdjustTokenQuota(p, ok) \/ SaveSunoTask(p, ok)

Next ==
    \/ \E t \in Tasks : RequestStep(t) \/ RequestExits(t) \/ TimesOut(t)
    \/ \E t \in Tasks, how \in {"success", "failure"} : UpstreamEnds(t, how)
    \/ \E p \in Pollers : PollerStep(p) \/ PollerExits(p)
    \/ \E t \in Tasks : ReadTask(t)
    \/ RealtimeFetch
    \/ RealtimeFails
    \/ RealtimeSave

Spec == Init /\ [][Next]_vars

\* The loops of the processes that poll never stop, requests run to their end,
\* and time passes; the upstream need not answer.
FairSpec ==
    /\ Spec
    /\ \A p \in Pollers : WF_vars(PollerStep(p))
    /\ \A t \in Tasks : WF_vars(RequestStep(t)) /\ WF_vars(TimesOut(t))

-----------------------------------------------------------------------------
(* Properties.                                                              *)

Busy(t) == \E p \in Pollers : cur[p] = t

\* Whoever polls, however many do, and wherever they are interrupted: a video
\* task is billed by the winner of one terminal transition, so its charge is
\* refunded or adjusted at most once ("no double refund").
BilledAtMostOnce == \A t \in Tasks : Kind[t] = "video" => billed[t] <= 1

\* With users' fetches writing the row as well, a task is still billed at most
\* once for each time its row becomes terminal: a fetch and a polling loop that
\* both hold the answer do not both count as its winner.
BilledOncePerEnding ==
    \A t \in Tasks : Kind[t] # "suno" => billed[t] <= endings[t]

\* A terminal status is never left for an unfinished one: a late answer, a
\* stale list or a restarted process does not bring a task back to be billed
\* again.
TerminalIsFinal ==
    [][\A t \in Tasks :
          Kind[t] = "video" /\ status[t] \in Terminal => status'[t] \in Terminal]_vars

\* A refund gives back what was charged and no more.
NeverOverRefunded == \A t \in Tasks : funds[t] >= 0 /\ tok[t] >= 0

\* Once the billing of a terminal task is over, its charge is what its status
\* says: a failed task is free, a finished one costs its quota or the cost its
\* completion reported; wallet and token agree.
ChargeMatchesStatus ==
    \A t \in Tasks :
        /\ status[t] = "FAILURE" /\ ~Busy(t) => funds[t] = 0 /\ tok[t] = 0
        /\ status[t] = "SUCCESS" /\ ~Busy(t) =>
              funds[t] = tok[t] /\ funds[t] \in {quota[t]} \cup (Costs \ {0})

\* A stored task reaches a terminal status, even if its upstream never answers
\* and processes exit: the sweep takes what polling leaves.
EveryTaskEnds == \A t \in Tasks : req[t] = "stored" ~> status[t] \in Terminal

\* A task that fails has its charge given back.
FailureIsRefunded ==
    \A t \in Tasks : status[t] = "FAILURE" ~> funds[t] = 0

=============================================================================
