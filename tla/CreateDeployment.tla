-------------------------- MODULE CreateDeployment --------------------------
(* The dialog that creates a container deployment (web/src/components/table/  *)
(* model-deployments/modals/CreateDeploymentModal.jsx): hardware, locations,  *)
(* replicas and hours are chosen, each choice asks for the available places   *)
(* or for a new estimate of the price, and the form is sent.                  *)
(*                                                                            *)
(* The dialog keeps its choices twice: as React state, which the estimate is  *)
(* made from, and as values of the Semi form, which are sent.  Effects keep   *)
(* the two together; they run to their end before the next click or answer.   *)
(* The number of GPUs is the maximum of the hardware and is not kept.         *)
EXTENDS Integers, Sequences, SequencesExt, FiniteSets

CONSTANTS Hardware,
          Avail,      \* hardware -> location -> replicas the server has
          Counts,     \* replicas and hours typed; 0 is a cleared field
          Vars,       \* variables, arguments and secrets typed into the lists
          Uses,       \* subset of {"price", "image"}: what the user changes
          Faults,     \* subset of {"refused"}
          InOrder,    \* TRUE: estimates arrive in the order they were asked for
          MaxOpens, MaxChanges,
          None

VARIABLES visible,
          known,          \* the hardware types have been loaded
          hardwareCalls,  \* loads of the hardware types under way
          sel,            \* the choices as state: [hw, locs, reps, hours, cur]
          form,           \* the values of the form: [hw, locs, reps, hours, image, port]
          locations,      \* location -> available, or None
          loadingReplicas, replicaRequestId,
          replicaCalls,   \* {[id, hw]}
          price,          \* None, or the choices the shown estimate is for
          priceCalls,     \* the choices estimates were asked for, oldest first
          imageMode,
          lists,          \* what the four lists hold
          custom,         \* the custom image's settings while the built-in one is chosen
          sending,        \* None, or the request under way
          left,           \* history: the custom settings when they were left last
          opens, changes

priceVars == <<sel, locations, loadingReplicas, replicaRequestId, replicaCalls, price, priceCalls>>
imageVars == <<imageMode, lists, custom, left>>
vars == <<visible, known, hardwareCalls, priceVars, form, imageVars, sending, opens, changes>>

-----------------------------------------------------------------------------
Nothing == [hw |-> None, locs |-> {}, reps |-> 1, hours |-> 1, cur |-> "usdc"]

BUILTIN_IMAGE == "ollama/ollama:latest"
DEFAULT_TRAFFIC_PORT == 11434

formDefaults == [hw |-> None, locs |-> {}, reps |-> 1, hours |-> 1,
                 image |-> BUILTIN_IMAGE, port |-> DEFAULT_TRAFFIC_PORT]

\* The row "auto" holds the generated OLLAMA_API_KEY that the dialog shows.
NoLists == [env |-> {}, secret |-> {"auto"}, entrypoint |-> {}, args |-> {}]
NoCustom == [env |-> {}, secret |-> {}, image |-> "", port |-> DEFAULT_TRAFFIC_PORT]

Ready(s) == s.hw # None /\ s.locs # {} /\ s.reps > 0 /\ s.hours > 0

\* The sum over the chosen locations, as the number of their replicas.
maxAvailableReplicas(s, ls) ==
  IF ls = None THEN 0 ELSE Cardinality(UNION {{l} \X (1..ls[l]) : l \in s.locs})

\* The effects that follow a choice: locations that are not available are
\* given up, and replicas beyond what the locations have.
Offered(s, ls) ==
  [s EXCEPT !.locs = IF s.hw = None \/ ls = None THEN {} ELSE {l \in @ : ls[l] > 0}]

Clamped(s, ls) ==
  LET max == maxAvailableReplicas(s, ls)
  IN IF max > 0 /\ s.reps > max THEN [s EXCEPT !.reps = max] ELSE s

\* The choices as they are rendered one after the other.
Renders(s, ls) == <<sel, s, Offered(s, ls), Clamped(Offered(s, ls), ls)>>

\* What the form holds after the renderings rs.
Written(rs) ==
  [form EXCEPT !.hw = rs[4].hw, !.locs = rs[4].locs, !.reps = rs[4].reps, !.hours = rs[4].hours]

\* The choices s are made while the available places are ls.  Every rendering
\* with new choices asks for an estimate, or takes the old one away.
Commit(s, ls) ==
  LET rs == Renders(s, ls)
      new(i) == rs[i] # rs[i - 1]
      asked(i) == IF new(i) /\ Ready(rs[i]) THEN <<rs[i]>> ELSE <<>>
  IN /\ sel' = rs[4]
     /\ form' = Written(rs)
     /\ locations' = ls
     /\ priceCalls' = priceCalls \o asked(2) \o asked(3) \o asked(4)
     /\ price' = IF \E i \in 2..4 : new(i) /\ ~Ready(rs[i]) THEN None ELSE price

Init ==
  /\ visible = FALSE /\ known = FALSE /\ hardwareCalls = 0
  /\ sel = Nothing /\ form = formDefaults
  /\ locations = None /\ loadingReplicas = FALSE
  /\ replicaRequestId = 0 /\ replicaCalls = {}
  /\ price = None /\ priceCalls = <<>>
  /\ imageMode = "builtin" /\ lists = NoLists /\ custom = NoCustom /\ left = NoCustom
  /\ sending = None
  /\ opens = 0 /\ changes = 0

\* Date.now() as the number of a request: no two choices share a millisecond.
Now == 1 + opens + changes

\* The dialog is shown again.  Its effects first run with the choices of the
\* last time, and ask for places and an estimate; then everything is reset, and
\* only the answer about the places is disowned.
open ==
  /\ ~visible /\ opens < MaxOpens
  /\ visible' = TRUE /\ opens' = opens + 1
  /\ hardwareCalls' = hardwareCalls + 1
  /\ replicaCalls' = IF sel.hw = None THEN replicaCalls
                     ELSE replicaCalls \cup {[id |-> Now, hw |-> sel.hw]}
  /\ priceCalls' = IF Ready(sel) THEN Append(priceCalls, sel) ELSE priceCalls
  /\ sel' = Nothing /\ form' = formDefaults
  /\ price' = None /\ locations' = None
  /\ loadingReplicas' = FALSE /\ replicaRequestId' = 0
  /\ imageMode' = "builtin" /\ lists' = NoLists /\ custom' = NoCustom /\ left' = NoCustom
  /\ UNCHANGED <<known, sending, changes>>

\* Cancelling keeps the choices until the dialog is shown again.
onCancel ==
  /\ visible /\ (InOrder => sending = None)
  /\ visible' = FALSE
  /\ UNCHANGED <<known, hardwareCalls, priceVars, form, imageVars, sending, opens, changes>>

loadHardwareTypes(ok) ==
  /\ hardwareCalls > 0 /\ (ok \/ "refused" \in Faults)
  /\ hardwareCalls' = hardwareCalls - 1
  /\ known' = (known \/ ok)
  /\ UNCHANGED <<visible, priceVars, form, imageVars, sending, opens, changes>>

Change(use) ==
  /\ visible /\ use \in Uses
  /\ changes < MaxChanges /\ changes' = changes + 1
  /\ UNCHANGED <<visible, known, hardwareCalls, sending, opens>>

\* Choosing hardware gives up the locations and asks for those it has.
selectHardware(h) ==
  /\ known /\ h # sel.hw
  /\ Change("price")
  /\ Commit([sel EXCEPT !.hw = h, !.locs = {}], None)
  /\ replicaCalls' = replicaCalls \cup {[id |-> Now, hw |-> h]}
  /\ replicaRequestId' = Now /\ loadingReplicas' = TRUE
  /\ UNCHANGED imageVars

Chosen(s) ==
  /\ s # sel
  /\ Change("price")
  /\ Commit(s, locations)
  /\ UNCHANGED <<loadingReplicas, replicaRequestId, replicaCalls, imageVars>>

selectLocations ==
  /\ sel.hw # None /\ ~loadingReplicas /\ locations # None
  /\ \E l \in DOMAIN locations :
       /\ locations[l] > 0
       /\ Chosen([sel EXCEPT !.locs = IF l \in @ THEN @ \ {l} ELSE @ \cup {l}])

setReplicaCount ==
  LET max == maxAvailableReplicas(sel, locations)
  IN \E n \in Counts : (max > 0 => n <= max) /\ Chosen([sel EXCEPT !.reps = n])

setDurationHours == \E n \in Counts : Chosen([sel EXCEPT !.hours = n])

handleCurrencyChange == \E c \in {"usdc", "iocoin"} : Chosen([sel EXCEPT !.cur = c])

\* Mutant: every answer about the places is taken.
TakesAny(c) == TRUE

\* Only the answer to the last request counts.
IsCurrent(c) == c.id = replicaRequestId

loadAvailableReplicas(c, ok) ==
  /\ ok \/ "refused" \in Faults
  /\ replicaCalls' = replicaCalls \ {c}
  /\ IF IsCurrent(c) /\ ok /\ visible
     THEN Commit(sel, Avail[c.hw])
     ELSE /\ locations' = IF IsCurrent(c) /\ ok THEN Avail[c.hw] ELSE locations
          /\ UNCHANGED <<sel, form, price, priceCalls>>
  /\ loadingReplicas' = (loadingReplicas /\ ~IsCurrent(c))
  /\ UNCHANGED <<visible, known, hardwareCalls, replicaRequestId, imageVars, sending, opens, changes>>

\* Whatever estimate arrives is shown.
calculatePrice(i, ok) ==
  /\ InOrder => i = 1
  /\ ok \/ "refused" \in Faults
  /\ price' = IF ok THEN priceCalls[i] ELSE None
  /\ priceCalls' = RemoveAt(priceCalls, i)
  /\ UNCHANGED <<visible, known, hardwareCalls, sel, locations, loadingReplicas, replicaRequestId,
                 replicaCalls, form, imageVars, sending, opens, changes>>

-----------------------------------------------------------------------------
(* The image and the lists of the advanced settings.                         *)

setImageMode ==
  /\ Change("image")
  /\ \/ /\ imageMode = "custom" /\ imageMode' = "builtin"
        /\ custom' = [env |-> lists.env, secret |-> lists.secret,
                      image |-> IF form.image = "" THEN custom.image ELSE form.image,
                      port |-> form.port]
        /\ left' = [custom' EXCEPT !.image = form.image]
        /\ lists' = [lists EXCEPT !.env = {}, !.secret = {"auto"}]
        /\ form' = [form EXCEPT !.image = BUILTIN_IMAGE, !.port = DEFAULT_TRAFFIC_PORT]
     \/ /\ imageMode = "builtin" /\ imageMode' = "custom"
        /\ lists' = [lists EXCEPT !.env = custom.env, !.secret = custom.secret]
        /\ form' = [form EXCEPT !.image = custom.image,
                                !.port = IF custom.port = 0 THEN @ ELSE custom.port]
        /\ UNCHANGED <<custom, left>>
  /\ UNCHANGED priceVars

TypedImages == {"", "image"}

\* The image and the port can be typed for a custom image only.
typeImage ==
  /\ Change("image") /\ imageMode = "custom"
  /\ \/ \E x \in TypedImages : /\ form' = [form EXCEPT !.image = x]
                              /\ custom' = [custom EXCEPT !.image = x]
     \/ \E n \in {0, 8080} : form' = [form EXCEPT !.port = n] /\ UNCHANGED custom
  /\ UNCHANGED <<imageMode, lists, left, priceVars>>

\* The row of the generated key can be neither changed nor removed.
Editable(x) == ~(imageMode = "builtin" /\ x = "auto")

\* A row is added and filled in, or removed.  The name of the generated key is
\* not typed into another row.
editList ==
  /\ Change("image")
  /\ \E k \in DOMAIN lists : \E x \in Vars \cup lists[k] :
       /\ Editable(x)
       /\ lists' = [lists EXCEPT ![k] = IF x \in @ THEN @ \ {x} ELSE @ \cup {x}]
  /\ UNCHANGED <<imageMode, custom, left, form, priceVars>>

-----------------------------------------------------------------------------
(* Sending.                                                                  *)

\* The form's rules: everything is filled in.
handleSubmit ==
  /\ visible /\ sending = None
  /\ Ready(form) /\ form.image # ""
  /\ sending' =
       [hw |-> form.hw, locs |-> form.locs, reps |-> form.reps, hours |-> form.hours,
        image |-> IF imageMode = "builtin" THEN BUILTIN_IMAGE ELSE form.image,
        port |-> IF form.port = 0 /\ imageMode = "builtin" THEN DEFAULT_TRAFFIC_PORT ELSE form.port,
        secret |-> IF imageMode = "builtin" THEN lists.secret \cup {"auto"} ELSE lists.secret,
        rest |-> [k \in DOMAIN lists \ {"secret"} |-> lists[k]]]
  /\ UNCHANGED <<visible, known, hardwareCalls, priceVars, form, imageVars, opens, changes>>

\* A success closes the dialog that is open when it arrives.
Answered(ok) ==
  /\ sending # None /\ (ok \/ "refused" \in Faults)
  /\ sending' = None
  /\ visible' = (visible /\ ~ok)
  /\ UNCHANGED <<known, hardwareCalls, priceVars, form, imageVars, opens, changes>>

Next ==
  \/ open \/ onCancel
  \/ \E ok \in BOOLEAN : loadHardwareTypes(ok) \/ Answered(ok)
  \/ \E h \in Hardware : selectHardware(h)
  \/ selectLocations \/ setReplicaCount \/ setDurationHours \/ handleCurrencyChange
  \/ \E c \in replicaCalls, ok \in BOOLEAN : loadAvailableReplicas(c, ok)
  \/ \E i \in DOMAIN priceCalls, ok \in BOOLEAN : calculatePrice(i, ok)
  \/ setImageMode \/ typeImage \/ editList
  \/ handleSubmit

Spec == Init /\ [][Next]_vars

-----------------------------------------------------------------------------
(* Properties.                                                               *)

TypeOK ==
  /\ {visible, known, loadingReplicas} \subseteq BOOLEAN
  /\ sel.hw \in Hardware \cup {None} /\ form.hw \in Hardware \cup {None}
  /\ locations = None \/ locations \in {Avail[h] : h \in Hardware}
  /\ \A c \in replicaCalls : c.hw \in Hardware
  /\ \A i \in DOMAIN priceCalls : Ready(priceCalls[i])
  /\ imageMode \in {"builtin", "custom"}
  /\ \A k \in DOMAIN lists : lists[k] \subseteq Vars \cup {"auto"}

\* The places offered are those of the hardware that is chosen, in whatever
\* order the answers come, across closing and opening; and places that are said
\* to be loading have their request, so the field is not disabled for good.
PlacesAreHardwares ==
  /\ locations # None => sel.hw # None /\ locations = Avail[sel.hw]
  /\ loadingReplicas => \E c \in replicaCalls : IsCurrent(c)

\* With estimates in order, the price under a complete set of choices is theirs
\* once nothing is under way.  (After an opening the price of the last time may
\* stand above an empty form, see priceCalls' in open.)
PriceIsForChoices ==
  visible /\ priceCalls = <<>> /\ price # None /\ Ready(sel) => price = sel

\* A request asks for the choices that the estimate is made for and for no more
\* replicas than its locations have; the built-in image gets the generated key
\* that the dialog shows, a custom one never does.
SendsWhatIsPriced ==
  sending = None /\ sending' # None =>
    /\ \A k \in {"hw", "locs", "reps", "hours"} : sending'[k] = sel[k]
    /\ sending'.reps <= maxAvailableReplicas(sel, Avail[sel.hw])
    /\ imageMode = "builtin" <=> "auto" \in sending'.secret

\* Choosing the built-in image and then a custom one again brings back what had
\* been entered for it, but for a cleared port, which comes back as the default.
CustomIsKept ==
  imageMode = "builtin" /\ imageMode' = "custom" =>
    /\ lists'.env = left.env /\ lists'.secret = left.secret
    /\ form'.image = left.image
    /\ form'.port = left.port \/ left.port = 0
=============================================================================
