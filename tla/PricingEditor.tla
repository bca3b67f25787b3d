---------------------------- MODULE PricingEditor ----------------------------
(* The price editor of the ratio settings (web/src/pages/Setting/Ratio/      *)
(* hooks/useModelPricingEditorState.js and components/ModelPricingEditor.jsx)*)
(* with the options it saves.  The server keeps ratios, the editor shows     *)
(* prices; saving turns every model of the list back into ratios and puts    *)
(* each of the eight options with a request of its own.                      *)
(*                                                                           *)
(* Prices and ratios are exact rationals <<numerator, denominator>>: the     *)
(* twelve digits the code keeps are not told apart from them.  A field holds *)
(* a number or nothing; a lone point is not typed.  Search, the filter on    *)
(* conflicts and the pages of the list only hide rows.  The spinner of the   *)
(* settings page covers the editor while the options are read again.         *)
EXTENDS Integers, Sequences, SequencesExt, FiniteSetsExt, TLC

CONSTANTS
  Names,      \* the models, numbers that stand for their names' order
  Candidates, \* the enabled models, listed by the editor of unset models
  Unset,      \* whether this is the editor of unset models (filterMode)
  Locked,     \* [Names -> ratio or None]: completion ratios the server fixes
  Starts,     \* the options at first: functions from Names to Pattern's domain
  Typed,      \* the prices that are typed
  Edited,     \* the fields that are typed into
  Uses,       \* a subset of {"type", "switch", "mode", "batch", "list"}
  Faults,     \* a subset of {"refused"}
  MaxEdits, MaxSaves,
  None

Optional == {"completionPrice", "cachePrice", "createCachePrice",
             "imagePrice", "audioInputPrice", "audioOutputPrice"}
Fields == Optional \cup {"fixedPrice", "inputPrice"}

RatioOf == [completionPrice  |-> "CompletionRatio",
            cachePrice       |-> "CacheRatio",
            createCachePrice |-> "CreateCacheRatio",
            imagePrice       |-> "ImageRatio",
            audioInputPrice  |-> "AudioRatio",
            audioOutputPrice |-> "AudioCompletionRatio"]
Ratios == {"ModelRatio"} \cup {RatioOf[f] : f \in Optional}
Keys == Ratios \cup {"ModelPrice"}

VARIABLES
  server,   \* the options of the server: [Keys -> [Names -> number or None]]
  options,  \* the options the page read last
  list,     \* the names of the editor's models, in the order of the list
  models,   \* [Names -> model]; those out of the list are NoModel
  toggles,  \* [Names -> the optional fields that are switched on]
  visible,  \* initialVisibleModelNames
  selected, \* the model being edited, or None
  checked,  \* the models that are ticked
  save,     \* the save under way
  touched,  \* history: the models changed since the options were read
  edits, saves

vars == <<server, options, list, models, toggles, visible, selected, checked,
          save, touched, edits, saves>>
form == <<options, list, models, toggles, visible, selected, checked, touched,
          edits>>

-----------------------------------------------------------------------------
(* Numbers, and the options a run starts with.                               *)

Num(n, d) == LET g == Max({k \in 1 .. d : n % k = 0 /\ d % k = 0})
             IN <<n \div g, d \div g>>
Zero == <<0, 1>>

\* A product or quotient of fields; one that is not a finite number is empty.
Times(a, b) ==
  IF None \in {a, b} THEN None ELSE Num(a[1] * b[1], a[2] * b[2])
Over(a, b) ==
  IF None \in {a, b} \/ b = Zero THEN None ELSE Num(a[1] * b[2], a[2] * b[1])

Pattern ==
  [none  |-> <<>>,
   fixed |-> ("ModelPrice" :> <<1, 1>>),
   token |-> ("ModelRatio" :> <<1, 1>> @@ "CompletionRatio" :> <<3, 1>>
              @@ "CacheRatio" :> <<1, 2>>),
   audio |-> ("ModelRatio" :> <<1, 2>> @@ "AudioRatio" :> <<2, 1>>
              @@ "AudioCompletionRatio" :> <<3, 1>>),
   free  |-> ("ModelRatio" :> Zero @@ "CompletionRatio" :> <<3, 1>>),
   both  |-> ("ModelPrice" :> <<1, 1>> @@ "ModelRatio" :> <<1, 1>>
              @@ "ImageRatio" :> <<2, 1>>),
   loose |-> ("CompletionRatio" :> <<3, 1>> @@ "CreateCacheRatio" :> <<5, 4>>),
   stray |-> ("ModelRatio" :> <<1, 1>> @@ "AudioCompletionRatio" :> Zero)]

OptionsOf(start) ==
  [k \in Keys |-> [m \in Names |->
     IF k \in DOMAIN Pattern[start[m]] THEN Pattern[start[m]][k] ELSE None]]

Named(o) == {m \in Names : \E k \in Keys : o[k][m] # None}

-----------------------------------------------------------------------------
(* A model of the editor.                                                    *)

NoModel == [mode   |-> "per-token", prices |-> [f \in Fields |-> None],
            raw    |-> [k \in Ratios |-> None], locked |-> None,
            conflict |-> FALSE]

\* The server describes the completion ratio of every model an option names.
completionRatioMeta(m, o) == IF m \in Named(o) THEN Locked[m] ELSE None

buildModelState(m, o) ==
  LET raw    == [k \in Ratios |-> o[k][m]]
      input  == Times(raw["ModelRatio"], <<2, 1>>)
      locked == completionRatioMeta(m, o)
      audio  == Times(input, raw["AudioRatio"])
      price(f) ==
        CASE f = "fixedPrice" -> o["ModelPrice"][m]
          [] f = "inputPrice" -> input
          [] f = "completionPrice" /\ locked # None -> Times(input, locked)
          [] f = "audioOutputPrice" -> Times(audio, raw[RatioOf[f]])
          [] OTHER -> Times(input, raw[RatioOf[f]])
  IN [mode     |-> IF o["ModelPrice"][m] # None THEN "per-request"
                                                ELSE "per-token",
      prices   |-> [f \in Fields |-> price(f)],
      raw      |-> raw,
      locked   |-> locked,
      conflict |-> /\ o["ModelPrice"][m] # None
                   /\ \E k \in Ratios : raw[k] # None]

buildOptionalFieldToggles(mo) ==
  {f \in Optional : \/ mo.prices[f] # None
                    \/ f = "completionPrice" /\ mo.locked # None}

isBasePricingUnset(mo) == {mo.prices["fixedPrice"], mo.prices["inputPrice"]} = {None}

\* serializeModel throws an error, and with it the save of every model.
Throws(mo) ==
  /\ mo.mode = "per-token"
  /\ \/ /\ mo.prices["inputPrice"] = None
        /\ \E f \in Optional : mo.prices[f] # None
     \/ /\ mo.prices["inputPrice"] # None
        /\ mo.prices["audioOutputPrice"] # None
        /\ mo.prices["audioInputPrice"] \in {None, Zero}

PerRequest(mo) == [k \in Keys |-> IF k = "ModelPrice"
                                  THEN mo.prices["fixedPrice"] ELSE None]

\* Mutant: every price is divided by the input's.
OverInput(mo, k) ==
  LET f == CHOOSE f \in Optional : RatioOf[f] = k
  IN Over(mo.prices[f], mo.prices["inputPrice"])

Quotient(mo, k) ==
  LET f    == CHOOSE f \in Optional : RatioOf[f] = k
      base == IF f = "audioOutputPrice" THEN "audioInputPrice" ELSE "inputPrice"
  IN Over(mo.prices[f], mo.prices[base])

serializeModel(mo) ==
  IF mo.mode = "per-request" THEN PerRequest(mo)
  ELSE [k \in Keys |->
    CASE k = "ModelPrice" -> None
      [] k # "ModelPrice" /\ mo.prices["inputPrice"] = None -> mo.raw[k]
      [] k = "ModelRatio" /\ mo.prices["inputPrice"] # None ->
           Over(mo.prices["inputPrice"], <<2, 1>>)
      [] k = "CompletionRatio" /\ mo.prices["inputPrice"] # None
           /\ mo.locked # None -> mo.raw[k]
      [] OTHER -> Quotient(mo, k)]

\* The ratios the preview lists; a key without a row is written empty.
buildPreviewRows(mo) ==
  LET p == mo.prices
      rows == [CompletionRatio |-> IF mo.locked # None THEN mo.locked
                 ELSE Over(p["completionPrice"], p["inputPrice"]),
               CacheRatio       |-> Over(p["cachePrice"], p["inputPrice"]),
               CreateCacheRatio |-> Over(p["createCachePrice"], p["inputPrice"]),
               ImageRatio       |-> Over(p["imagePrice"], p["inputPrice"]),
               AudioRatio       |-> Over(p["audioInputPrice"], p["inputPrice"]),
               AudioCompletionRatio |->
                 Over(p["audioOutputPrice"], p["audioInputPrice"])]
  IN IF mo.mode = "per-request" THEN PerRequest(mo)
     ELSE [k \in Keys |->
       IF k = "ModelPrice" THEN None
       ELSE IF p["inputPrice"] = None THEN mo.raw[k]
       ELSE IF k = "ModelRatio" THEN Over(p["inputPrice"], <<2, 1>>)
       ELSE rows[k]]

\* A new base price fills the optional prices that are empty from the ratios
\* the model was loaded with; a completion price the server fixes follows it.
fillDerivedPricesFromBase(mo) ==
  LET base == mo.prices["inputPrice"]
      ratio(f) == IF f = "audioOutputPrice"
                  THEN Times(mo.raw["AudioRatio"], mo.raw[RatioOf[f]])
                  ELSE mo.raw[RatioOf[f]]
      filled(f) ==
        IF f = "completionPrice" /\ mo.locked # None THEN Times(base, mo.locked)
        ELSE IF mo.prices[f] = None /\ ratio(f) # None THEN Times(base, ratio(f))
        ELSE mo.prices[f]
  IN IF base = None THEN mo
     ELSE [mo EXCEPT !.prices = [f \in Fields |->
             IF f \in Optional THEN filled(f) ELSE mo.prices[f]]]

-----------------------------------------------------------------------------
(* The list and its selection.                                               *)

Listed(l) == {l[i] : i \in DOMAIN l}

VisibleOf(l, v) == IF Unset THEN SelectSeq(l, LAMBDA m : m \in v) ELSE l

\* The effects that follow every change of the list.
Reselect(l, v, sel) ==
  LET seen == VisibleOf(l, v)
  IN IF sel \in Listed(seen) THEN sel
     ELSE IF seen = <<>> THEN None ELSE seen[1]

\* The effect on the options: everything is built anew.
Load(o) ==
  LET names == Candidates \cup Named(o)
      l     == SetToSortSeq(names, <)
      built == [m \in Names |-> IF m \in names THEN buildModelState(m, o)
                                               ELSE NoModel]
      v     == IF Unset THEN {m \in names : isBasePricingUnset(built[m])}
                        ELSE names
  IN [list |-> l, models |-> built, visible |-> v,
      toggles |-> [m \in Names |-> IF m \in names
                    THEN buildOptionalFieldToggles(built[m]) ELSE {}]]

Idle == [phase |-> "idle", puts |-> {}, value |-> [k \in Keys |-> None],
         failed |-> FALSE]

Init ==
  /\ server \in {OptionsOf(s) : s \in Starts}
  /\ options = server
  /\ list = Load(server).list
  /\ models = Load(server).models
  /\ toggles = Load(server).toggles
  /\ visible = Load(server).visible
  /\ selected = Reselect(list, visible, None)
  /\ checked = {}
  /\ save = Idle
  /\ touched = {}
  /\ edits = 0 /\ saves = 0

\* The page is not covered while the options are put, only while it reads them.
Edit(use) ==
  /\ use \in Uses
  /\ save.phase # "refreshing"
  /\ edits < MaxEdits /\ edits' = edits + 1
  /\ UNCHANGED <<server, options, save, saves>>

\* The input of an optional price is shown while its switch is on; it takes
\* text once the price it is computed from has a value.
MayType(mo, on, f) ==
  CASE f = "fixedPrice" -> mo.mode = "per-request"
    [] f = "inputPrice" -> mo.mode = "per-token"
    [] OTHER ->
       /\ mo.mode = "per-token" /\ f \in on
       /\ IF f = "audioOutputPrice" THEN mo.prices["audioInputPrice"] # None
                                    ELSE mo.prices["inputPrice"] # None
       /\ f = "completionPrice" => mo.locked = None

handleNumericFieldChange(f, v) ==
  /\ Edit("type")
  /\ selected # None
  /\ MayType(models[selected], toggles[selected], f)
  /\ v # models[selected].prices[f]
  /\ LET typed == [models[selected] EXCEPT !.prices[f] = v]
     IN models' = [models EXCEPT ![selected] =
          IF f = "inputPrice" THEN fillDerivedPricesFromBase(typed) ELSE typed]
  /\ touched' = touched \cup {selected}
  /\ UNCHANGED <<list, toggles, visible, selected, checked>>

MaySwitch(mo, on, f) ==
  /\ mo.mode = "per-token"
  /\ f = "completionPrice" => mo.locked = None
  /\ f = "audioOutputPrice" => "audioInputPrice" \in on

handleOptionalFieldToggle(f) ==
  LET off == IF f = "audioInputPrice" THEN {f, "audioOutputPrice"} ELSE {f}
  IN /\ Edit("switch")
     /\ selected # None
     /\ MaySwitch(models[selected], toggles[selected], f)
     /\ IF f \in toggles[selected]
        THEN /\ toggles' = [toggles EXCEPT ![selected] = @ \ off]
             /\ models' = [models EXCEPT ![selected].prices =
                  [g \in Fields |-> IF g \in off THEN None
                                    ELSE models[selected].prices[g]]]
        ELSE /\ toggles' = [toggles EXCEPT ![selected] = @ \cup {f}]
             /\ UNCHANGED models
     /\ touched' = touched \cup {selected}
     /\ UNCHANGED <<list, visible, selected, checked>>

handleBillingModeChange(mode) ==
  /\ Edit("mode")
  /\ selected # None /\ models[selected].mode # mode
  /\ models' = [models EXCEPT ![selected].mode = mode]
  /\ touched' = touched \cup {selected}
  /\ UNCHANGED <<list, toggles, visible, selected, checked>>

\* Clicking a row, and ticking one.
setSelectedModelName(m) ==
  /\ save.phase # "refreshing"
  /\ m \in Listed(VisibleOf(list, visible)) \ {selected}
  /\ selected' = m
  /\ UNCHANGED <<server, options, list, models, toggles, visible, checked,
                 save, touched, edits, saves>>

setSelectedModelNames(m) ==
  /\ "batch" \in Uses /\ save.phase # "refreshing"
  /\ m \in Listed(VisibleOf(list, visible)) \ checked
  /\ checked' = checked \cup {m}
  /\ UNCHANGED <<server, options, list, models, toggles, visible, selected,
                 save, touched, edits, saves>>

\* The editor of unset models adds and deletes none.
addModel(m) ==
  /\ Edit("list") /\ ~Unset
  /\ m \notin Listed(list)
  /\ list' = <<m>> \o list
  /\ models' = [models EXCEPT ![m] = NoModel]
  /\ toggles' = [toggles EXCEPT ![m] = buildOptionalFieldToggles(NoModel)]
  /\ selected' = m
  /\ touched' = touched \cup {m}
  /\ UNCHANGED <<visible, checked>>

deleteModel(m) ==
  /\ Edit("list") /\ ~Unset
  /\ m \in Listed(list)
  /\ list' = SelectSeq(list, LAMBDA n : n # m)
  /\ models' = [models EXCEPT ![m] = NoModel]
  /\ toggles' = [toggles EXCEPT ![m] = {}]
  /\ checked' = checked \ {m}
  /\ selected' = Reselect(list', visible, selected)
  /\ touched' = touched \cup {m}
  /\ UNCHANGED visible

\* The prices of the model being edited, as they become another model's.
CopyTo(from, mo) ==
  LET copy == [mo EXCEPT !.mode = from.mode, !.prices = from.prices]
  IN IF copy.mode = "per-token" /\ mo.locked # None
        /\ copy.prices["inputPrice"] # None
     THEN [copy EXCEPT !.prices["completionPrice"] =
             Times(copy.prices["inputPrice"], mo.locked)]
     ELSE copy

applySelectedModelPricing ==
  LET from == models[selected]
      on   == toggles[selected]
      kept == IF "audioInputPrice" \in on THEN on ELSE on \ {"audioOutputPrice"}
  IN /\ Edit("batch")
     /\ selected # None /\ checked # {}
     /\ models' = [m \in Names |-> IF m \in checked THEN CopyTo(from, models[m])
                                                    ELSE models[m]]
     /\ toggles' = [m \in Names |->
          IF m \notin checked THEN toggles[m]
          ELSE IF models[m].locked # None THEN kept \cup {"completionPrice"}
          ELSE kept]
     /\ touched' = touched \cup checked
     /\ UNCHANGED <<list, visible, selected, checked>>

-----------------------------------------------------------------------------
(* Saving.                                                                   *)

Payload ==
  [k \in Keys |-> [m \in Names |->
     IF m \in Listed(list) THEN serializeModel(models[m])[k] ELSE None]]

\* Eight requests are sent together.  Those that put what the server has
\* already are told apart from one another by nothing and travel as one.
handleSubmit ==
  /\ save.phase = "idle" /\ saves < MaxSaves
  /\ saves' = saves + 1
  /\ IF \E m \in Listed(list) : Throws(models[m]) THEN UNCHANGED save
     ELSE save' = [phase |-> "saving", value |-> Payload, failed |-> FALSE,
                   puts |-> {"ModelPrice"} \cup
                            {k \in Keys : Payload[k] # server[k]}]
  /\ UNCHANGED <<server, form>>

\* The server replaces the whole of one option, or refuses.
UpdateOption(k, ok) ==
  /\ save.phase = "saving" /\ k \in save.puts
  /\ ~ok => "refused" \in Faults
  /\ server' = IF ok THEN [server EXCEPT ![k] = save.value[k]] ELSE server
  /\ save' = [save EXCEPT !.puts = @ \ {k}, !.failed = @ \/ ~ok]
  /\ UNCHANGED <<form, saves>>

\* Every request was answered: success is told and the options are read, or
\* an error is told and the editor keeps what it shows.
Settled ==
  /\ save.phase = "saving" /\ save.puts = {}
  /\ save' = IF save.failed THEN Idle ELSE [save EXCEPT !.phase = "refreshing"]
  /\ UNCHANGED <<server, form, saves>>

refresh ==
  /\ save.phase = "refreshing"
  /\ options' = server
  /\ list' = Load(server).list
  /\ models' = Load(server).models
  /\ toggles' = Load(server).toggles
  /\ visible' = Load(server).visible
  /\ selected' = Reselect(list', visible', selected)
  /\ checked' = checked \cap Listed(VisibleOf(list', visible'))
  /\ touched' = {}
  /\ save' = Idle
  /\ UNCHANGED <<server, edits, saves>>

\* The options cannot be read: the error is told, the editor stays as it is.
refreshFails ==
  /\ save.phase = "refreshing" /\ "refused" \in Faults
  /\ save' = Idle
  /\ UNCHANGED <<server, form, saves>>

Next ==
  \/ \E f \in Edited, v \in Typed \cup {None} : handleNumericFieldChange(f, v)
  \/ \E f \in Optional : handleOptionalFieldToggle(f)
  \/ \E mode \in {"per-token", "per-request"} : handleBillingModeChange(mode)
  \/ \E m \in Names : \/ setSelectedModelName(m) \/ setSelectedModelNames(m)
                      \/ addModel(m) \/ deleteModel(m)
  \/ applySelectedModelPricing
  \/ handleSubmit
  \/ \E k \in Keys, ok \in BOOLEAN : UpdateOption(k, ok)
  \/ Settled \/ refresh \/ refreshFails

Spec == Init /\ [][Next]_vars

-----------------------------------------------------------------------------
(* Properties.                                                               *)

Number(x) == x # None => x[1] \in Nat /\ x[2] \in Nat \ {0}

TypeOK ==
  /\ \A k \in Keys, m \in Names : Number(server[k][m]) /\ Number(options[k][m])
  /\ \A m \in Names, f \in Fields : Number(models[m].prices[f])
  /\ \A m \in Names : toggles[m] \subseteq Optional
  /\ Listed(list) \subseteq Names
  /\ selected \in Names \cup {None} /\ checked \subseteq Names
  /\ save.phase \in {"idle", "saving", "refreshing"} /\ save.puts \subseteq Keys

\* What a request is charged: the relay takes the fixed price when there is
\* one, multiplies the ratios otherwise, and counts a missing audio ratio as
\* one.  Other missing ratios have the server's defaults, here None.
Billed(o, m) ==
  LET r == o["ModelRatio"][m]
      audio(k) == IF o[k][m] = None THEN <<1, 1>> ELSE o[k][m]
      price(f) ==
        CASE f = "completionPrice" /\ Locked[m] # None -> Times(r, Locked[m])
          [] f = "audioInputPrice" -> Times(r, audio("AudioRatio"))
          [] f = "audioOutputPrice" ->
               Times(Times(r, audio("AudioRatio")), audio("AudioCompletionRatio"))
          [] OTHER -> Times(r, o[RatioOf[f]][m])
  IN IF o["ModelPrice"][m] # None THEN <<"fixed", o["ModelPrice"][m]>>
     ELSE IF r = Zero THEN <<"free">>
     ELSE <<"token", r, [f \in Optional |-> price(f)]>>

\* A save that the admin starts for one model's sake converts all of them to
\* prices and back: the models that were not touched are charged as before,
\* at any moment of the save and whichever of its requests fail.
UntouchedKeepTheirPrice ==
  \A m \in Names \ touched : Billed(server, m) = Billed(options, m)

\* The preview under the fields lists the ratios saving writes for the model;
\* of a completion ratio the server fixes it shows the server's.
PreviewIsSaved ==
  selected # None /\ ~Throws(models[selected]) =>
    \A k \in Keys :
      \/ buildPreviewRows(models[selected])[k] = serializeModel(models[selected])[k]
      \/ k = "CompletionRatio" /\ models[selected].locked # None

\* When a save is announced, each of the options is what the editor showed
\* when it was started.
AnnouncedIsSaved ==
  save.phase = "refreshing" => server = save.value
=============================================================================
