---------------------------- MODULE EditDialogs ----------------------------
(* The dialogs of the console's tables that create and edit one item: users,  *)
(* redemption codes, models, vendors, tokens, prefill groups, subscription    *)
(* plans, deployments and the channels of a tag. A dialog is a record of what *)
(* its code does differently; the handlers they share are the actions. What   *)
(* a form does to a field depends on the field's kind alone, so the state     *)
(* holds one value for each kind of field.                                    *)
EXTENDS Integers, FiniteSets

CONSTANTS Items,      \* the rows of the table
          Dialogs,    \* the dialogs to check
          Rate,       \* <<p, q>>: units of the shown currency to the dollar
          Faults,     \* subset of {"refused", "load", "save", "lost", "refresh"}
          Unhurried,  \* TRUE: a dialog is opened when all before it has ended
          MaxSaves,   \* bound on the number of submissions
          MaxTyped,   \* bound on the kinds of field changed in one form
          None        \* no item: the dialog creates one

VARIABLES d,          \* the dialog
          visible,    \* its visible property
          item,       \* the id of its editing... property
          form,       \* the values in the form, by kind of field
          typed,      \* the kinds of field the user has changed
          loading,    \* useState(loading)
          gets,       \* ids of the loads under way
          puts,       \* submissions under way
          timers,     \* closings whose setTimeout has not fired
          adjust,     \* the quota adjustment of EditUserModal
          purpose,    \* what the user opened the dialog for
          rows,       \* the items as the table shows them
          refreshing, \* the table reloads
          stored,     \* the items on the server
          made,       \* number of items created
          saves       \* number of submissions

vars == <<d, visible, item, form, typed, loading, gets, puts, timers, adjust, purpose, rows,
          refreshing, stored, made, saves>>

-----------------------------------------------------------------------------
\* Kinds of fields. plain: loaded, shown and sent as it is. flag: a status sent
\* as on or off. time: 0 in the store, empty in the form. cents, micros: an
\* amount of money with two or six decimals for a quota. shown: displayed and
\* never sent. secret: never loaded; left empty it is not changed. overlay:
\* empty when opened; left empty it is not changed. fixed: always the same.

UserFields == [username |-> "plain", password |-> "secret", display_name |-> "plain",
               remark |-> "plain"]

UserPermissions == [group |-> "plain", quota_amount |-> "shown", quota |-> "shown"]

NewUserFields == [username |-> "plain", display_name |-> "plain", password |-> "secret",
                  remark |-> "plain"]

RedemptionFields == [name |-> "plain", expired_time |-> "time"]

RedemptionQuota == [amount |-> "micros"]

ModelFields ==
  [model_name |-> "plain", name_rule |-> "plain", icon |-> "plain", description |-> "plain",
   tags |-> "plain"]

ModelEndpoints ==
  [vendor_id |-> "plain", endpoints |-> "plain", sync_official |-> "flag", status |-> "flag"]

VendorFields == [name |-> "plain", description |-> "plain", icon |-> "plain", status |-> "flag"]

TokenFields == [name |-> "plain", enabled |-> "flag"]

PrefillFields == [name |-> "plain", type |-> "plain", description |-> "plain", items |-> "plain"]

PlanFields ==
  [title |-> "plain", subtitle |-> "plain", price_amount |-> "plain", total_amount |-> "cents",
   upgrade_group |-> "plain", currency |-> "fixed", sort_order |-> "plain",
   max_purchase_per_user |-> "plain", enabled |-> "flag"]

PlanPeriods ==
  [duration_unit |-> "plain", custom_seconds |-> "plain", duration_value |-> "plain",
   quota_reset_period |-> "plain"]

PlanPayments == [stripe_price_id |-> "plain", creem_product_id |-> "plain"]

DeploymentFields == [deployment_name |-> "plain"]

TagFields == [new_tag |-> "plain"]

TagModels == [models |-> "plain", model_mapping |-> "overlay"]

TagOverrides == [param_override |-> "overlay", header_override |-> "overlay"]

TagGroups == [groups |-> "overlay"]

KindsIn(fields) == {fields[f] : f \in DOMAIN fields}

\* Dialogs. load: get, the form is filled from a request for the item; row, from
\* the row of the table. on: what the loading effect depends on. clears: when the
\* id is unset after closing. idle: without an id it still loads something.
\* creates: without an id it creates. spin: the form is covered while loading.
\* caught: the requests whose rejection ends the spinner. resets: when a
\* submission empties the form.
EditUser ==
  [load |-> "get", on |-> {"id"}, clears |-> "now", idle |-> TRUE, creates |-> FALSE,
   spin |-> TRUE, caught |-> {}, resets |-> "never", kinds |-> KindsIn(UserFields) \cup KindsIn(UserPermissions)]

AddUser ==
  [load |-> "none", on |-> {}, clears |-> "now", idle |-> FALSE, creates |-> TRUE,
   spin |-> TRUE, caught |-> {}, resets |-> "success", kinds |-> KindsIn(NewUserFields)]

EditRedemption ==
  [load |-> "get", on |-> {"id"}, clears |-> "later", idle |-> FALSE, creates |-> TRUE,
   spin |-> TRUE, caught |-> {}, resets |-> "success",
   kinds |-> KindsIn(RedemptionFields) \cup KindsIn(RedemptionQuota)]

EditModel ==
  [load |-> "get", on |-> {"visible", "id"}, clears |-> "later", idle |-> FALSE,
   creates |-> TRUE, spin |-> TRUE, caught |-> {"load", "save"}, resets |-> "always",
   kinds |-> KindsIn(ModelFields) \cup KindsIn(ModelEndpoints)]

EditVendor ==
  [load |-> "get", on |-> {"visible", "id"}, clears |-> "now", idle |-> FALSE,
   creates |-> TRUE, spin |-> FALSE, caught |-> {"load", "save"}, resets |-> "never",
   kinds |-> KindsIn(VendorFields)]

EditToken ==
  [load |-> "get", on |-> {"visible", "id"}, clears |-> "later", idle |-> FALSE,
   creates |-> TRUE, spin |-> TRUE, caught |-> {"save"}, resets |-> "success",
   kinds |-> KindsIn(TokenFields)]

EditPrefillGroup ==
  [load |-> "row", on |-> {}, clears |-> "later", idle |-> FALSE, creates |-> TRUE,
   spin |-> TRUE, caught |-> {"save"}, resets |-> "never", kinds |-> KindsIn(PrefillFields)]

AddEditSubscription ==
  [load |-> "row", on |-> {}, clears |-> "now", idle |-> FALSE, creates |-> TRUE,
   spin |-> TRUE, caught |-> {"save"}, resets |-> "never",
   kinds |-> UNION {KindsIn(PlanFields), KindsIn(PlanPeriods), KindsIn(PlanPayments)}]

EditDeployment ==
  [load |-> "row", on |-> {}, clears |-> "later", idle |-> FALSE, creates |-> FALSE,
   spin |-> TRUE, caught |-> {"save"}, resets |-> "never", kinds |-> KindsIn(DeploymentFields)]

EditTag ==
  [load |-> "get", on |-> {"visible", "id"}, clears |-> "never", idle |-> TRUE,
   creates |-> FALSE, spin |-> TRUE, caught |-> {"load", "save"}, resets |-> "never",
   kinds |-> UNION {KindsIn(TagFields), KindsIn(TagModels), KindsIn(TagOverrides),
                    KindsIn(TagGroups)}]

AllDialogs == {EditUser, AddUser, EditRedemption, EditModel, EditVendor, EditToken,
               EditPrefillGroup, AddEditSubscription, EditDeployment, EditTag}

-----------------------------------------------------------------------------
Blank == <<>>

\* The nearest integer to a / b.
Round(a, b) == (2 * a + b) \div (2 * b)

\* Number(quotaToDisplayAmount(quota).toFixed(n)) in units of the last decimal:
\* there are 2 micros, or 1 / 5000 cents, to a quota.
Decimals(kind) == IF kind = "cents" THEN <<1, 5000>> ELSE <<2, 1>>
quotaToDisplayAmount(kind, quota) ==
  Round(quota * Decimals(kind)[1] * Rate[1], Decimals(kind)[2] * Rate[2])

displayAmountToQuota(kind, amount) ==
  Round(amount * Decimals(kind)[2] * Rate[2], Decimals(kind)[1] * Rate[1])

\* What a field shows of a stored value, and what is stored when the field is sent.
Loaded(kind, v) ==
  CASE kind \in {"cents", "micros"} -> quotaToDisplayAmount(kind, v)
    [] kind \in {"secret", "overlay"} -> Blank
    [] kind = "time" -> IF v = <<0>> THEN Blank ELSE v
    [] kind = "flag" -> v = "on"
    [] OTHER -> v

\* A value of the field that nobody has entered.
InitValue(kind) ==
  CASE kind \in {"cents", "micros"} -> 1 [] kind = "flag" -> TRUE [] OTHER -> Blank

Sent(kind, v, old) ==
  CASE kind \in {"cents", "micros"} -> displayAmountToQuota(kind, v)
    [] kind \in {"secret", "overlay"} -> IF v = Blank THEN old ELSE v
    [] kind = "time" -> IF v = Blank THEN <<0>> ELSE v
    [] kind = "flag" -> IF v THEN "on" ELSE "off"
    [] kind \in {"shown", "fixed"} -> old
    [] OTHER -> v

\* What the user may enter in a field of item i.
Entered(kind, i) ==
  CASE kind \in {"cents", "micros"} -> {7}
    [] kind = "flag" -> {FALSE}
    [] kind = "time" -> {Blank, <<2>>}
    [] kind \in {"shown", "fixed"} -> {}
    [] OTHER -> {<<i, 1>>}

\* What item i may hold when the page is opened, in one of three variants.
\* Quotas have been entered in the currency that is shown.
ValueOf(kind, i, n) ==
  CASE kind = "cents" -> displayAmountToQuota(kind, n)
    [] kind = "micros" -> n + 1
    [] kind = "flag" -> <<"off", "on", IF d = EditToken THEN "expired" ELSE "on">>[n + 1]
    [] kind = "time" -> <<n>>
    [] OTHER -> <<i, 0>>

Fresh == [k \in d.kinds |-> InitValue(k)]
FormOf(v) == [k \in d.kinds |-> Loaded(k, v[k])]

-----------------------------------------------------------------------------
Init ==
  /\ d \in Dialogs
  /\ visible = FALSE /\ item = None /\ form = Fresh /\ typed = {} /\ loading = FALSE
  /\ gets = {} /\ puts = {} /\ timers = 0 /\ adjust = "no" /\ purpose = None
  /\ \E n \in 0..2 : stored = [i \in Items |-> [k \in d.kinds |-> ValueOf(k, i, n)]]
  /\ rows = stored /\ refreshing = FALSE /\ made = 0 /\ saves = 0

\* All that was started before has ended.
Quiet == gets = {} /\ puts = {} /\ timers = 0 /\ adjust = "no"

\* A row's edit button: the table is not covered by its spinner.
OpenEdit(i) ==
  /\ ~visible /\ ~refreshing /\ d.load # "none"
  /\ Unhurried => Quiet
  /\ visible' = TRUE /\ item' = i /\ purpose' = i /\ typed' = {}
  /\ form' = IF d.load = "row" THEN FormOf(rows[i]) ELSE Fresh
  /\ IF d.load = "get" /\ ("visible" \in d.on \/ item # i)
     THEN loading' = TRUE /\ gets' = gets \cup {i}
     ELSE UNCHANGED <<loading, gets>>
  /\ UNCHANGED <<d, puts, timers, adjust, rows, refreshing, stored, made, saves>>

\* The button that creates an item.
OpenCreate ==
  /\ ~visible /\ d.creates
  /\ Unhurried => Quiet
  /\ visible' = TRUE /\ item' = None /\ purpose' = None /\ typed' = {} /\ form' = Fresh
  /\ UNCHANGED <<d, loading, gets, puts, timers, adjust, rows, refreshing, stored, made, saves>>

\* handleClose of the table: the id is unset at once, after 500 ms or never;
\* where the effect runs without an item, it loads once more.
Closes ==
  /\ visible' = FALSE /\ typed' = {} /\ form' = Fresh
  /\ item' = IF d.clears = "now" THEN None ELSE item
  /\ timers' = IF d.clears = "later" THEN timers + 1 ELSE timers
  /\ gets' = IF d.idle THEN gets \cup {item'} ELSE gets

Cancel ==
  /\ visible
  /\ timers < 2
  /\ Closes
  /\ loading' = (loading \/ d.idle)
  /\ UNCHANGED <<d, puts, adjust, purpose, rows, refreshing, stored, made, saves>>

\* setTimeout of handleClose: a form that depends on the id is emptied.
TimerFires ==
  /\ timers > 0
  /\ timers' = timers - 1
  /\ item' = None
  /\ IF visible /\ item # None /\ d.load = "get"
     THEN form' = Fresh /\ typed' = {}
     ELSE UNCHANGED <<form, typed>>
  /\ UNCHANGED <<d, visible, loading, gets, puts, adjust, purpose, rows, refreshing, stored, made, saves>>

\* The answer to a load fills the form that is mounted now. Without an id the
\* user's own account is loaded, which no item of the table stands for.
LoadAnswers(i) ==
  /\ i \in gets
  /\ gets' = gets \ {i} /\ loading' = FALSE
  /\ IF visible /\ i # None THEN form' = FormOf(stored[i]) /\ typed' = {} ELSE UNCHANGED <<form, typed>>
  /\ UNCHANGED <<d, visible, item, puts, timers, adjust, purpose, rows, refreshing, stored, made, saves>>

LoadRejects(i) ==
  /\ "load" \in Faults /\ i \in gets
  /\ gets' = gets \ {i}
  /\ loading' = IF "load" \in d.caught THEN FALSE ELSE loading
  /\ UNCHANGED <<d, visible, item, form, typed, puts, timers, adjust, purpose, rows, refreshing,
                 stored, made, saves>>

\* The user changes a field; a spinner covers the form.
Type(k, v) ==
  /\ visible /\ (d.spin => ~loading)
  /\ k \in d.kinds /\ v \in Entered(k, item)
  /\ Cardinality(typed \cup {k}) <= MaxTyped
  /\ form' = [form EXCEPT ![k] = v] /\ typed' = typed \cup {k}
  /\ UNCHANGED <<d, visible, item, loading, gets, puts, timers, adjust, purpose, rows, refreshing,
                 stored, made, saves>>

\* submit, up to the request: what is sent and to which id is read now.
Submit ==
  /\ visible /\ ~loading /\ saves < MaxSaves
  /\ item # None \/ d.creates
  /\ loading' = TRUE /\ saves' = saves + 1
  /\ puts' = puts \cup {[id |-> item, form |-> form, typed |-> typed, meant |-> purpose, n |-> saves]}
  /\ UNCHANGED <<d, visible, item, form, typed, gets, timers, adjust, purpose, rows, refreshing,
                 stored, made>>

\* The server's update or insertion.
Applies(p) ==
  IF p.id = None THEN made' = made + 1 /\ UNCHANGED stored
  ELSE /\ stored' = [stored EXCEPT ![p.id] = [k \in d.kinds |-> Sent(k, p.form[k], @[k])]]
       /\ UNCHANGED made

\* submit, after the request: the table reloads and the dialog closes.
SaveAnswers(p) ==
  /\ p \in puts /\ timers < 2
  /\ puts' = puts \ {p}
  /\ Applies(p)
  /\ Closes
  /\ loading' = d.idle /\ refreshing' = TRUE
  /\ UNCHANGED <<d, adjust, purpose, rows, saves>>

\* Refused, the dialog stays; setValues(getInitValues()) of EditModelModal runs all the same.
SaveRefused(p) ==
  /\ "refused" \in Faults /\ p \in puts
  /\ puts' = puts \ {p} /\ loading' = FALSE
  /\ IF d.resets = "always" THEN form' = Fresh /\ typed' = {} ELSE UNCHANGED <<form, typed>>
  /\ UNCHANGED <<d, visible, item, gets, timers, adjust, purpose, rows, refreshing, stored, made, saves>>

\* The request fails, or is served and its answer is lost.
SaveRejects(p) ==
  /\ p \in puts
  /\ puts' = puts \ {p}
  /\ \/ "save" \in Faults /\ UNCHANGED <<stored, made>>
     \/ "lost" \in Faults /\ Applies(p)
  /\ loading' = IF "save" \in d.caught THEN FALSE ELSE loading
  /\ IF d.resets = "always" THEN form' = Fresh /\ typed' = {} ELSE UNCHANGED <<form, typed>>
  /\ UNCHANGED <<d, visible, item, gets, timers, adjust, purpose, rows, refreshing, saves>>

\* refresh of the table.
Refreshed ==
  /\ refreshing /\ refreshing' = FALSE
  /\ rows' = stored \/ ("refresh" \in Faults /\ UNCHANGED rows)
  /\ UNCHANGED <<d, visible, item, form, typed, loading, gets, puts, timers, adjust, purpose, stored,
                 made, saves>>

\* adjustQuota of EditUserModal: a request of its own, then the user is loaded
\* again into the whole form.
Adjust ==
  /\ d = EditUser /\ visible /\ ~loading /\ adjust = "no" /\ item # None
  /\ adjust' = item
  /\ UNCHANGED <<d, visible, item, form, typed, loading, gets, puts, timers, purpose, rows, refreshing,
                 stored, made, saves>>

Adjusted ==
  /\ adjust # "no" /\ adjust' = "no"
  /\ stored' = [stored EXCEPT ![adjust]["shown"] = <<adjust, 1>>]
  /\ form' = IF visible THEN FormOf(stored'[adjust]) ELSE form
  /\ typed' = {} /\ refreshing' = TRUE
  /\ UNCHANGED <<d, visible, item, loading, gets, puts, timers, purpose, rows, made, saves>>

Next ==
  \/ \E i \in Items : OpenEdit(i)
  \/ \E i \in Items \cup {None} : LoadAnswers(i)
  \/ \E i \in Items \cup {None} : LoadRejects(i)
  \/ OpenCreate \/ Cancel \/ TimerFires \/ Submit \/ Refreshed \/ Adjust \/ Adjusted
  \/ \E k \in d.kinds : \E v \in Entered(k, item) : Type(k, v)
  \/ \E p \in puts : SaveAnswers(p)
  \/ \E p \in puts : SaveRefused(p)
  \/ \E p \in puts : SaveRejects(p)

Spec == Init /\ [][Next]_vars

-----------------------------------------------------------------------------
TypeOK ==
  /\ d \in AllDialogs /\ visible \in BOOLEAN /\ loading \in BOOLEAN /\ refreshing \in BOOLEAN
  /\ item \in Items \cup {None} /\ purpose \in Items \cup {None} /\ adjust \in Items \cup {"no"}
  /\ DOMAIN form = d.kinds /\ typed \subseteq d.kinds /\ gets \subseteq Items \cup {None}
  /\ timers \in 0..2 /\ made \in 0..MaxSaves /\ saves \in 0..MaxSaves
  /\ DOMAIN stored = Items /\ DOMAIN rows = Items

\* In an open dialog that does not load, every field the user has not changed
\* shows what the server holds of the dialog's own item.
FormIsItems ==
  visible /\ ~loading /\ adjust = "no" =>
    \A k \in d.kinds \ typed :
      form[k] = IF purpose = None THEN InitValue(k) ELSE Loaded(k, stored[purpose][k])

\* A step of the server changes an item only by a submission of that item's
\* dialog, or a quota adjustment, and only the fields the user changed there (but an
\* expired token is saved as disabled); it creates an item only for a dialog that
\* was opened to create one.
WritesWhatWasMeant ==
  /\ \A i \in Items, k \in d.kinds :
       stored'[i][k] # stored[i][k] =>
         \/ \E p \in puts \ puts' : p.meant = i /\ k \in p.typed
         \/ adjust = i /\ k = "shown"
         \/ k = "flag" /\ stored[i][k] = "expired"
  /\ made' # made => \E p \in puts \ puts' : p.meant = None

\* What the user has typed is not replaced while the dialog stays open, except
\* by a quota adjustment, which loads the user anew, by the answer to a load in
\* the one dialog that can be typed into while it loads, and by EditModelModal,
\* which empties its form after a refusal.
TypedIsKept ==
  visible /\ visible' /\ adjust = adjust' /\ (d.spin \/ gets = gets') /\ d.resets # "always" =>
    typed \subseteq typed'

\* The spinner of a dialog whose requests are guarded turns only while one of
\* them is under way.
SpinnerEnds == loading => gets # {} \/ puts # {} \/ ~({"load", "save"} \subseteq d.caught)

=============================================================================
