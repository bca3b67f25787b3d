----------------------------- MODULE OptionForms -----------------------------
(***************************************************************************)
(* The settings pages.  A tab (components/settings/*.jsx) reads all        *)
(* options with one GET and hands them to its forms; a form keeps its      *)
(* inputs and a baseline, sends one PUT per option that differs from the   *)
(* baseline, all at once, and asks the tab to read the options again,      *)
(* which resets every form of the tab.  The forms differ in what they      *)
(* send, in whether they look at the answers and in when they move their   *)
(* baseline; each page is a record of those choices.                       *)
(***************************************************************************)
EXTENDS Naturals, FiniteSets

CONSTANTS Forms,      \* forms of the tab
          Pages,      \* the pages a form of the tab may be
          Faults,     \* subset of {"refuse", "reject"}
          MaxSaves,   \* bound on submits of a form
          Unread, None

\* The inputs each page renders: text; a number kept as a number ("num") or as a string
\* ("str"); a switch; a JSON text; a secret, which the server stores and never shows.
GeneralForm == {"text", "str", "switch"}
MonitoringForm == {"num", "str", "switch", "json"}
LogForm == {"switch"}
CreditLimitForm == {"str", "switch"}
DrawingForm == {"switch"}
SensitiveWordsForm == {"text", "switch"}
CheckinForm == {"num", "switch"}
DataDashboardForm == {"str", "switch"}
RequestRateLimitForm == {"str", "switch", "json"}
GrokModelForm == {"num", "switch"}
ClaudeModelForm == {"num", "switch", "json"}
GeminiModelForm == {"num", "switch", "json"}
GlobalModelForm == {"str", "switch", "json"}
PerformanceForm == {"text", "num", "switch"}
ModelDeploymentForm == {"text", "switch"}
ModelRatioForm == {"switch", "json"}
GeneralPaymentForm == {"text"}
PaymentGatewayForm == {"text", "secret", "num", "json"}
PaymentGatewayStripeForm == {"text", "secret", "num", "switch"}

\* fields: the kinds of its inputs, gated: disabled while its switch is off, sends: what
\* differs from the baseline or whatever is filled in, checks: looks at each answer's success,
\* parses: reads numbers as numbers, validates: JSON is checked before sending, rebase: the
\* baseline moves with a save, warns: says so when there is nothing to send.
Plain(fields, gated) ==
  [fields |-> fields, gated |-> gated, sends |-> "changed", checks |-> FALSE, parses |-> FALSE,
   validates |-> FALSE, rebase |-> FALSE, warns |-> TRUE]

SettingsGeneral == Plain(GeneralForm, {})
SettingsMonitoring == [Plain(MonitoringForm, {}) EXCEPT !.validates = TRUE]
SettingsLog == Plain(LogForm, {})
SettingsCreditLimit == Plain(CreditLimitForm, {})
SettingsDrawing == Plain(DrawingForm, {})
SettingsSensitiveWords == Plain(SensitiveWordsForm, {})
SettingsCheckin == Plain(CheckinForm, {"num"})
SettingsDataDashboard == Plain(DataDashboardForm, {})
SettingsRequestRateLimit == [Plain(RequestRateLimitForm, {}) EXCEPT !.checks = TRUE]
SettingGrokModel == [Plain(GrokModelForm, {"num"}) EXCEPT !.validates = TRUE]
SettingClaudeModel == Plain(ClaudeModelForm, {})
SettingGeminiModel == [Plain(GeminiModelForm, {}) EXCEPT !.validates = TRUE]
SettingGlobalModel == Plain(GlobalModelForm, {"str"})
SettingsPerformance == [Plain(PerformanceForm, {"num"}) EXCEPT !.parses = TRUE]
SettingModelDeployment == [Plain(ModelDeploymentForm, {"text"}) EXCEPT !.rebase = TRUE]
ModelRatioSettings == [Plain(ModelRatioForm, {}) EXCEPT !.checks = TRUE, !.validates = TRUE]

\* The payment gateways send every field that is filled in; no warning when nothing is.
Gateway(fields) ==
  [Plain(fields, {}) EXCEPT !.sends = "filled", !.checks = TRUE, !.parses = TRUE, !.warns = FALSE]
SettingsGeneralPayment == Gateway(GeneralPaymentForm)
SettingsPaymentGateway == [Gateway(PaymentGatewayForm) EXCEPT !.validates = TRUE, !.rebase = TRUE]
SettingsPaymentGatewayStripe == [Gateway(PaymentGatewayStripeForm) EXCEPT !.rebase = TRUE]

OptionPages ==
  {SettingsGeneral, SettingsMonitoring, SettingsLog, SettingsCreditLimit, SettingsDrawing,
   SettingsSensitiveWords, SettingsCheckin, SettingsDataDashboard, SettingsRequestRateLimit,
   SettingGrokModel, SettingClaudeModel, SettingGeminiModel, SettingGlobalModel,
   SettingsPerformance, SettingModelDeployment, ModelRatioSettings, SettingsGeneralPayment,
   SettingsPaymentGateway, SettingsPaymentGatewayStripe}

-----------------------------------------------------------------------------
VARIABLES page,     \* form -> its page
          server,   \* form -> field -> stored value
          inputs, row, \* form -> field -> [n, as]: value shown and baseline
          saving,   \* form -> number of the batch it waits for, 0 if none
          puts,     \* [form, batch, field, n, at]
          get,      \* None, or the options in flight to the tab
          toast,    \* form -> last word to the user
          claimed,  \* history: form -> what the last batch said to be saved stored
          saves,    \* form -> submits so far
          joined    \* history: a refresh joined a GET already in flight

vars == <<page, server, inputs, row, saving, puts, get, toast, claimed, saves, joined>>

Fields(f) == page[f].fields
Values(k) == IF k = "json" THEN 0..2 ELSE 0..1   \* 0 off or what passes for empty, 2 malformed

\* How a stored option appears in a form, and what an edit leaves there.
Shown(f, k, n) == CASE k = "secret" -> [n |-> 0, as |-> "string"]
                    [] k = "switch" -> [n |-> n, as |-> "boolean"]
                    [] k = "num" /\ page[f].parses -> [n |-> n, as |-> "number"]
                    [] OTHER -> [n |-> n, as |-> "string"]

\* Mutant: the number field hands on the next value.
EditedNext(f, k, n) == IF k = "num" THEN [n |-> n + 1, as |-> "number"] ELSE [Shown(f, k, n) EXCEPT !.n = n]

Edited(f, k, n) == IF k = "num" THEN [n |-> n, as |-> "number"] ELSE [Shown(f, k, n) EXCEPT !.n = n]

Spinning(f) == saving[f] # 0 \/ get # None

Edit(f, k, n) ==
  /\ ~Spinning(f)
  /\ k \in page[f].gated => inputs[f]["switch"].n = 1
  /\ inputs' = [inputs EXCEPT ![f][k] = Edited(f, k, n)]
  /\ inputs' # inputs
  /\ toast' = [toast EXCEPT ![f] = "none"]
  /\ UNCHANGED <<page, server, row, saving, puts, get, claimed, saves, joined>>

-----------------------------------------------------------------------------
\* compareObjects
compareObjects(f) == {k \in Fields(f) : inputs[f][k] # row[f][k]}

\* The options a submit sends.
Queue(f) ==
  LET filled == {k \in Fields(f) : inputs[f][k].n # 0}
      changed == compareObjects(f)
  IN IF page[f].sends = "changed" THEN changed \ ({"secret"} \ filled)
     ELSE (filled \ {"switch"}) \cup (changed \cap {"switch"})

Malformed(f, Q) == page[f].validates /\ "json" \in Q /\ inputs[f]["json"].n = 2

Put(f, k) == [form |-> f, batch |-> saves[f] + 1, field |-> k, n |-> inputs[f][k].n, at |-> "sent"]

onSubmit(f) ==
  /\ ~Spinning(f) /\ saves[f] < MaxSaves
  /\ LET Q == Queue(f)
     IN \/ /\ Q = {} /\ page[f].warns
           /\ toast' = [toast EXCEPT ![f] = "nothing"]
           /\ UNCHANGED <<saving, puts, saves, claimed>>
        \/ /\ Malformed(f, Q)
           /\ toast' = [toast EXCEPT ![f] = "check"]
           /\ UNCHANGED <<saving, puts, saves, claimed>>
        \/ /\ ~Malformed(f, Q) /\ (Q = {} => ~page[f].warns)
           /\ puts' = puts \cup {Put(f, k) : k \in Q}
           /\ saving' = [saving EXCEPT ![f] = saves[f] + 1]
           /\ saves' = [saves EXCEPT ![f] = @ + 1]
           /\ claimed' = [claimed EXCEPT ![f] = [k \in Q |-> inputs[f][k].n]]
           /\ toast' = [toast EXCEPT ![f] = "none"]
  /\ UNCHANGED <<page, server, inputs, row, get, joined>>

\* The server stores the option, or refuses it with success: false; a request may reject
\* with or without having been stored.
PutAnswers(p, at) ==
  /\ p.at = "sent"
  /\ at = "done" \/ (at = "refused" /\ "refuse" \in Faults) \/ (at = "rejected" /\ "reject" \in Faults)
  /\ puts' = (puts \ {p}) \cup {[p EXCEPT !.at = at]}
  /\ \/ at # "refused" /\ server' = [server EXCEPT ![p.form][p.field] = p.n]
     \/ at # "done" /\ UNCHANGED server
  /\ UNCHANGED <<page, inputs, row, saving, get, toast, claimed, saves, joined>>

Batch(f) == {p \in puts : p.form = f /\ p.batch = saving[f]}
Refused(f) == \E p \in Batch(f) : p.at = "refused"

\* onRefresh: API.get shares the answer of an equal GET in flight.
onRefresh == /\ get' = IF get = None THEN Unread ELSE get
             /\ joined' = (get # None)

\* Whether the page tells the user that it has saved.
SaysSaved(f) == page[f].checks => ~Refused(f)

BatchResolves(f) ==
  /\ saving[f] # 0 /\ \A p \in Batch(f) : p.at \in {"done", "refused"}
  /\ puts' = puts \ Batch(f)
  /\ saving' = [saving EXCEPT ![f] = 0]
  /\ IF SaysSaved(f)
     THEN /\ toast' = [toast EXCEPT ![f] = "saved"]
          /\ row' = IF page[f].rebase THEN [row EXCEPT ![f] = inputs[f]] ELSE row
          /\ onRefresh
     ELSE /\ toast' = [toast EXCEPT ![f] = "failed"]
          /\ UNCHANGED <<row, get, joined>>
  /\ UNCHANGED <<page, server, inputs, claimed, saves>>

\* Mutant: the form forgets the batch only when all of it has answered.
KeepsWaiting(f) ==
  /\ saving[f] # 0 /\ \E p \in Batch(f) : p.at = "rejected"
  /\ toast' = [toast EXCEPT ![f] = "failed"]
  /\ UNCHANGED <<page, server, inputs, row, saving, puts, get, claimed, saves, joined>>

\* Promise.all rejects with the first rejection; the other requests go on.
BatchRejects(f) ==
  /\ saving[f] # 0 /\ \E p \in Batch(f) : p.at = "rejected"
  /\ puts' = {p \in puts : p.form = f /\ p.batch = saving[f] => p.at = "sent"}
  /\ saving' = [saving EXCEPT ![f] = 0]
  /\ toast' = [toast EXCEPT ![f] = "failed"]
  /\ UNCHANGED <<page, server, inputs, row, get, claimed, saves, joined>>

\* A request of a batch nobody waits for any more.
PutForgotten(p) ==
  /\ p.at # "sent" /\ p.batch # saving[p.form]
  /\ puts' = puts \ {p}
  /\ UNCHANGED <<page, server, inputs, row, saving, get, toast, claimed, saves, joined>>

GetReads ==
  /\ get = Unread
  /\ get' = server
  /\ UNCHANGED <<page, server, inputs, row, saving, puts, toast, claimed, saves, joined>>

\* Mutant: the effect resets the inputs and keeps the baseline.
ArrivesInputsOnly ==
  /\ get \notin {None, Unread}
  /\ LET v == [f \in Forms |-> [k \in Fields(f) |-> Shown(f, k, get[f][k])]]
     IN inputs' = v
  /\ get' = None
  /\ UNCHANGED <<page, server, row, saving, puts, toast, claimed, saves, joined>>

\* getOptions, then the effect of every form.
GetArrives ==
  /\ get \notin {None, Unread}
  /\ LET v == [f \in Forms |-> [k \in Fields(f) |-> Shown(f, k, get[f][k])]]
     IN inputs' = v /\ row' = v
  /\ get' = None
  /\ UNCHANGED <<page, server, saving, puts, toast, claimed, saves, joined>>

-----------------------------------------------------------------------------
Init ==
  /\ page \in [Forms -> Pages]
  /\ server = [f \in Forms |-> [k \in Fields(f) |-> 0]]
  /\ inputs = [f \in Forms |-> [k \in Fields(f) |-> Shown(f, k, 0)]]
  /\ row = inputs
  /\ saving = [f \in Forms |-> 0] 
  /\ puts = {} /\ get = None
  /\ toast = [f \in Forms |-> "none"] /\ claimed = [f \in Forms |-> <<>>]
  /\ saves = [f \in Forms |-> 0] /\ joined = FALSE

Next ==
  \/ \E f \in Forms : \/ \E k \in Fields(f) : \E n \in Values(k) : Edit(f, k, n)
                      \/ onSubmit(f) \/ BatchResolves(f) \/ BatchRejects(f)
  \/ \E p \in puts : PutForgotten(p) \/ \E at \in {"done", "refused", "rejected"} : PutAnswers(p, at)
  \/ GetReads \/ GetArrives

Spec == Init /\ [][Next]_vars

-----------------------------------------------------------------------------
TypeOK ==
  /\ page \in [Forms -> Pages] /\ saves \in [Forms -> 0..MaxSaves]
  /\ \A f \in Forms : \A k \in Fields(f) : /\ server[f][k] \in Values(k)
                                           /\ inputs[f][k].n \in Values(k)
  /\ \A p \in puts : p.batch \in 1..saves[p.form]
  /\ \A f \in Forms : toast[f] \in {"none", "nothing", "check", "saved", "failed"}

Idle == puts = {} /\ get = None /\ \A f \in Forms : saving[f] = 0

\* When nothing is under way the baseline of every form is what the server
\* stores, whichever forms were saved together, unless one of the refreshes
\* was given the answer of an older one (onSubmit, onRefresh, API.get).
BaselineIsStored ==
  (Idle /\ ~joined) => \A f \in Forms : \A k \in Fields(f) \ {"secret"} : row[f][k].n = server[f][k]

\* A page that finds nothing to save shows what the server stores.
NothingMeansStored ==
  \A f \in Forms : (toast[f] = "nothing" /\ ~joined) =>
    \A k \in Fields(f) \ {"secret"} : inputs[f][k].n = server[f][k]

\* A page that says it has saved has stored what it sent: "保存成功", "更新成功".
SavedIsStored ==
  \A f \in Forms : toast[f] = "saved" => \A k \in DOMAIN claimed[f] : server[f][k] = claimed[f][k]

=============================================================================
