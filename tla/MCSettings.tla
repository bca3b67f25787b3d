----------------------------- MODULE MCSettings -----------------------------
\* The settings of the console.  A behaviour is one scenario: one page, or two parts of a tab,
\* edited and saved up to twice under one assumption on faults.  The prices of two models, in
\* whatever shape an older version or an administrator may have left them, the groups, and the
\* rules of channel affinity.
EXTENDS Naturals, Sequences, FiniteSets, TLC

CONSTANTS None, Unread

VARIABLES scenario,
          page, server, inputs, row, saving, puts, get, toast, claimed, saves, joined,  \* OptionForms
          card, systemServer, origin, form, systemInputs, systemSaves, count, systemToast,
          systemClaimed, overlap, lag,  \* SystemSettings
          listPage, listServer, opts, list, flag, sel, dialog, listSaving, tab, listGet, edits,
          listSaves, edited, during, listJoined,  \* ListEditors
          priceServer, options, priceList, models, toggles, visible, selected, checked, save,
          touched, priceEdits, priceSaves,  \* PricingEditor
          syncServer, syncOptions, syncDialog, chosen, fetching, covered, differences,
          resolutions, confirm, syncSave, fetches, picks,  \* RatioSync
          stored, inForce, groupInputs, inputsRow, editMode, rows, items, rules, specials,
          status, groupEdits, groupSaves,  \* GroupSettings
          ruleStored, ruleInForce, ruleInputs, ruleInputsRow, ruleEditMode, ruleRules, modal,
          ruleConfirm, clean, ruleStatus, ruleEdits, ruleSaves  \* AffinityRules

optionVars == <<page, server, inputs, row, saving, puts, get, toast, claimed, saves, joined>>
systemVars == <<card, systemServer, origin, form, systemInputs, systemSaves, count, systemToast,
      systemClaimed, overlap, lag>>
listVars == <<listPage, listServer, opts, list, flag, sel, dialog, listSaving, tab, listGet,
      edits, listSaves, edited, during, listJoined>>
priceVars == <<priceServer, options, priceList, models, toggles, visible, selected, checked,
      save, touched, priceEdits, priceSaves>>
syncVars == <<syncServer, syncOptions, syncDialog, chosen, fetching, covered, differences,
      resolutions, confirm, syncSave, fetches, picks>>
groupVars == <<stored, inForce, groupInputs, inputsRow, editMode, rows, items, rules, specials,
      status, groupEdits, groupSaves>>
ruleVars == <<ruleStored, ruleInForce, ruleInputs, ruleInputsRow, ruleEditMode, ruleRules,
      modal, ruleConfirm, clean, ruleStatus, ruleEdits, ruleSaves>>
vars == <<scenario, optionVars, systemVars, listVars, priceVars, syncVars, groupVars, ruleVars>>

\* Prices of two channels and our own: a model that is billed by ratio here and by price there, one
\* the other way round, a value both agree on.
Table(ours) == [t \in {"model_ratio", "completion_ratio", "cache_ratio", "model_price"} |->
                  [m \in {1, 2} |-> IF <<t, m>> \in DOMAIN ours THEN ours[<<t, m>>] ELSE None]]
Ours == Table(<<"model_ratio", 1>> :> "1" @@ <<"cache_ratio", 1>> :> "1" @@ <<"model_price", 2>> :> "2")
Theirs ==
  [c \in {"u", "w"} |->
    IF c = "u" THEN Table(<<"model_price", 1>> :> "3" @@ <<"model_ratio", 2>> :> "4" @@ <<"completion_ratio", 2>> :> "4")
    ELSE Table(<<"model_ratio", 1>> :> "5" @@ <<"cache_ratio", 1>> :> "1" @@ <<"cache_ratio", 2>> :> "1"
               @@ <<"model_price", 2>> :> "6")]

AnyForm == INSTANCE OptionForms WITH Forms <- {"f1"}, Pages <- {}, Faults <- {}, MaxSaves <- 2
\* The fields of a page are saved independently of each other, so a form is given one or two
\* of its page's fields (with the switch that gates them); two forms side by side one each.
SomePages == UNION {{[p EXCEPT !.fields = F, !.gated = @ \cap F] :
     F \in {G \in SUBSET p.fields : Cardinality(G) \in 1..2 /\ (p.gated \cap G # {} => "switch" \in G)}} :
     p \in AnyForm!OptionPages}
SmallPages == {p \in SomePages : p.fields \subseteq {"text", "num"} /\ Cardinality(p.fields) = 1}
Tab == INSTANCE OptionForms WITH Forms <- {"f1", "f2"}, Pages <- SmallPages, Faults <- {},
    MaxSaves <- 2
Page == INSTANCE OptionForms WITH Forms <- {"f1"}, Pages <- SomePages, Faults <- {}, MaxSaves <- 2
Refused == INSTANCE OptionForms WITH Forms <- {"f1"}, Pages <- {p \in SomePages : p.checks},
    Faults <- {"refuse"}, MaxSaves <- 2
AnyCard == INSTANCE SystemSettings WITH Cards <- {"c1"}, Kinds <- {}, Faults <- {}, MaxSaves <- 2,
    server <- systemServer, inputs <- systemInputs, saves <- systemSaves, toast <- systemToast,
    claimed <- systemClaimed
AllCards == AnyCard!SystemCards \cup AnyCard!OtherCards
TwoCards == INSTANCE SystemSettings WITH Cards <- {"c1", "c2"}, Kinds <- {AnyCard!submitSMTP,
    AnyCard!submitServerAddress, AnyCard!handleCheckboxChange}, Faults <- {}, MaxSaves <- 2,
    server <- systemServer, inputs <- systemInputs, saves <- systemSaves, toast <- systemToast,
    claimed <- systemClaimed
OneCard == INSTANCE SystemSettings WITH Cards <- {"c1"}, Kinds <- AllCards, Faults <- {"refuse",
    "reject"}, MaxSaves <- 2, server <- systemServer, inputs <- systemInputs,
    saves <- systemSaves, toast <- systemToast, claimed <- systemClaimed
AnyList == INSTANCE ListEditors WITH Kinds <- {}, Legacy <- FALSE, Faults <- {}, MaxEdits <- 0,
    MaxSaves <- 0, MaxItems <- 3, page <- listPage, server <- listServer, saving <- listSaving,
    get <- listGet, saves <- listSaves, joined <- listJoined
\* The questions and the monitor groups differ from the announcements in their inputs only.
KeyedPages == {AnyList!SettingsAnnouncements, AnyList!SettingsAPIInfo,
               AnyList!SettingsPaymentGatewayCreem, AnyList!SettingsChats}
NumberingPages == {AnyList!SettingsAnnouncements, AnyList!SettingsUptimeKuma, AnyList!SettingsFAQ}
AllPages == KeyedPages \cup NumberingPages \cup {AnyList!SettingsPaymentGatewayWaffo}
Lists == INSTANCE ListEditors WITH Kinds <- AllPages, Legacy <- FALSE, Faults <- {},
    MaxEdits <- 2, MaxSaves <- 2, MaxItems <- 3, page <- listPage, server <- listServer,
    saving <- listSaving, get <- listGet, saves <- listSaves, joined <- listJoined
Keyed == INSTANCE ListEditors WITH Kinds <- KeyedPages, Legacy <- FALSE, Faults <- {"refuse",
    "reject"}, MaxEdits <- 3, MaxSaves <- 1, MaxItems <- 3, page <- listPage,
    server <- listServer, saving <- listSaving, get <- listGet, saves <- listSaves,
    joined <- listJoined
OldLists == INSTANCE ListEditors WITH Kinds <- NumberingPages, Legacy <- TRUE, Faults <- {},
    MaxEdits <- 2, MaxSaves <- 1, MaxItems <- 3, page <- listPage, server <- listServer,
    saving <- listSaving, get <- listGet, saves <- listSaves, joined <- listJoined
AnyPrice == INSTANCE PricingEditor WITH Names <- {1, 2}, Candidates <- {}, Unset <- FALSE,
    Locked <- <<None, None>>, Starts <- {}, Typed <- {<<1, 1>>, <<4, 1>>},
    Edited <- {"fixedPrice", "inputPrice", "completionPrice", "audioOutputPrice"}, Uses <- {},
    Faults <- {"refused"}, MaxEdits <- 2, MaxSaves <- 0, server <- priceServer, list <- priceList,
    edits <- priceEdits, saves <- priceSaves
\* Every shape of a stored price but one that no model can be billed by, an output ratio of audio
\* without an input ratio, which the editor drops.
Shapes == DOMAIN AnyPrice!Pattern \ {"stray"}
Prices == INSTANCE PricingEditor WITH Names <- {1, 2}, Candidates <- {}, Unset <- FALSE,
    Locked <- << <<3, 1>>, None>>, Starts <- {<<p, "token">> : p \in Shapes}, Typed <- {<<1, 1>>,
    <<4, 1>>}, Edited <- {"fixedPrice", "inputPrice", "completionPrice", "audioOutputPrice"},
    Uses <- {"type", "switch", "mode"}, Faults <- {"refused"}, MaxEdits <- 2, MaxSaves <- 1,
    server <- priceServer, list <- priceList, edits <- priceEdits, saves <- priceSaves
PricesBatch == INSTANCE PricingEditor WITH Names <- {1, 2}, Candidates <- {}, Unset <- FALSE,
    Locked <- <<None, <<3, 1>> >>, Starts <- {<<"token", "audio">>}, Typed <- {<<1, 1>>, <<4,
    1>>}, Edited <- {"fixedPrice", "inputPrice", "completionPrice", "audioOutputPrice"},
    Uses <- {"type", "mode", "batch", "list"}, Faults <- {"refused"}, MaxEdits <- 2,
    MaxSaves <- 1, server <- priceServer, list <- priceList, edits <- priceEdits,
    saves <- priceSaves
PricesUnset == INSTANCE PricingEditor WITH Names <- {1, 2}, Candidates <- {1, 2}, Unset <- TRUE,
    Locked <- <<None, None>>, Starts <- {<<"none", "loose">>}, Typed <- {<<1, 1>>, <<4, 1>>},
    Edited <- {"fixedPrice", "inputPrice", "completionPrice", "audioOutputPrice"},
    Uses <- {"type", "mode", "batch", "switch"}, Faults <- {"refused"}, MaxEdits <- 2,
    MaxSaves <- 2, server <- priceServer, list <- priceList, edits <- priceEdits,
    saves <- priceSaves
Sync == INSTANCE RatioSync WITH Models <- {1, 2}, Channels <- {"u", "w"}, Local <- Ours,
    Upstream <- Theirs, Faults <- {"refused", "error"}, MaxFetches <- 2, MaxPicks <- 1,
    server <- syncServer, options <- syncOptions, dialog <- syncDialog, save <- syncSave
SyncPicks == INSTANCE RatioSync WITH Models <- {1, 2}, Channels <- {"u", "w"}, Local <- Ours,
    Upstream <- Theirs, Faults <- {"refused"}, MaxFetches <- 1, MaxPicks <- 2,
    server <- syncServer, options <- syncOptions, dialog <- syncDialog, save <- syncSave
AnyGroup == INSTANCE GroupSettings WITH Groups <- {"default", "vip", "svip"}, Ratios <- {0, 2},
    Texts <- {}, Starts <- {}, Editors <- {"table", "auto", "rules", "special"},
    Faults <- {"lost"}, MaxRows <- 4, MaxEdits <- 0, MaxSaves <- 2, inputs <- groupInputs,
    edits <- groupEdits, saves <- groupSaves
GroupPage == INSTANCE GroupSettings WITH Groups <- {"default", "vip", "svip"}, Ratios <- {0, 2},
    Texts <- AnyGroup!Retyped, Starts <- AnyGroup!Examples, Editors <- {"table", "auto", "rules",
    "special"}, Faults <- {"lost"}, MaxRows <- 4, MaxEdits <- 2, MaxSaves <- 2,
    inputs <- groupInputs, edits <- groupEdits, saves <- groupSaves
AnyRules == INSTANCE AffinityRules WITH Bases <- {"r", "codex"}, Typed <- {}, Starts <- {},
    Faults <- {}, MaxEdits <- 0, MaxSaves <- 2, stored <- ruleStored, inForce <- ruleInForce,
    inputs <- ruleInputs, inputsRow <- ruleInputsRow, editMode <- ruleEditMode,
    rules <- ruleRules, confirm <- ruleConfirm, status <- ruleStatus, edits <- ruleEdits,
    saves <- ruleSaves
Affinity == INSTANCE AffinityRules WITH Bases <- {"r", "codex"}, Typed <- AnyRules!SomeTexts,
    Starts <- AnyRules!Examples, Faults <- {}, MaxEdits <- 4, MaxSaves <- 2, stored <- ruleStored,
    inForce <- ruleInForce, inputs <- ruleInputs, inputsRow <- ruleInputsRow,
    editMode <- ruleEditMode, rules <- ruleRules, confirm <- ruleConfirm, status <- ruleStatus,
    edits <- ruleEdits, saves <- ruleSaves
AffinityLost == INSTANCE AffinityRules WITH Bases <- {"r", "codex"}, Typed <- AnyRules!SomeTexts,
    Starts <- AnyRules!Examples, Faults <- {"lost"}, MaxEdits <- 3, MaxSaves <- 2,
    stored <- ruleStored, inForce <- ruleInForce, inputs <- ruleInputs,
    inputsRow <- ruleInputsRow, editMode <- ruleEditMode, rules <- ruleRules,
    confirm <- ruleConfirm, status <- ruleStatus, edits <- ruleEdits, saves <- ruleSaves

\* In a scenario of one component the others are absent and stay so.
NoOption == page = None /\ server = None /\ inputs = None /\ row = None /\ saving = None
      /\ puts = None /\ get = None /\ toast = None /\ claimed = None /\ saves = None
      /\ joined = None
NoSystem == card = None /\ systemServer = None /\ origin = None /\ form = None
      /\ systemInputs = None /\ systemSaves = None /\ count = None /\ systemToast = None
      /\ systemClaimed = None /\ overlap = None /\ lag = None
NoList == listPage = None /\ listServer = None /\ opts = None /\ list = None /\ flag = None
      /\ sel = None /\ dialog = None /\ listSaving = None /\ tab = None /\ listGet = None
      /\ edits = None /\ listSaves = None /\ edited = None /\ during = None /\ listJoined = None
NoPrice == priceServer = None /\ options = None /\ priceList = None /\ models = None
      /\ toggles = None /\ visible = None /\ selected = None /\ checked = None /\ save = None
      /\ touched = None /\ priceEdits = None /\ priceSaves = None
NoSync == syncServer = None /\ syncOptions = None /\ syncDialog = None /\ chosen = None
      /\ fetching = None /\ covered = None /\ differences = None /\ resolutions = None
      /\ confirm = None /\ syncSave = None /\ fetches = None /\ picks = None
NoGroup == stored = None /\ inForce = None /\ groupInputs = None /\ inputsRow = None
      /\ editMode = None /\ rows = None /\ items = None /\ rules = None /\ specials = None
      /\ status = None /\ groupEdits = None /\ groupSaves = None
NoRule == ruleStored = None /\ ruleInForce = None /\ ruleInputs = None /\ ruleInputsRow = None
      /\ ruleEditMode = None /\ ruleRules = None /\ modal = None /\ ruleConfirm = None
      /\ clean = None /\ ruleStatus = None /\ ruleEdits = None /\ ruleSaves = None

Init ==
  \/ scenario = "tab" /\ Tab!Init /\ NoSystem /\ NoList /\ NoPrice /\ NoSync /\ NoGroup /\ NoRule
  \/ scenario = "page" /\ Page!Init /\ NoSystem /\ NoList /\ NoPrice /\ NoSync /\ NoGroup /\ NoRule
  \/ scenario = "refused" /\ Refused!Init /\ NoSystem /\ NoList /\ NoPrice /\ NoSync /\ NoGroup /\ NoRule
  \/ scenario = "cards" /\ TwoCards!Init /\ NoOption /\ NoList /\ NoPrice /\ NoSync /\ NoGroup /\ NoRule
  \/ scenario = "card" /\ OneCard!Init /\ NoOption /\ NoList /\ NoPrice /\ NoSync /\ NoGroup /\ NoRule
  \/ scenario = "lists" /\ Lists!Init /\ NoOption /\ NoSystem /\ NoPrice /\ NoSync /\ NoGroup /\ NoRule
  \/ scenario = "keyed" /\ Keyed!Init /\ NoOption /\ NoSystem /\ NoPrice /\ NoSync /\ NoGroup /\ NoRule
  \/ scenario = "legacy" /\ OldLists!Init /\ NoOption /\ NoSystem /\ NoPrice /\ NoSync /\ NoGroup /\ NoRule
  \/ scenario = "prices" /\ Prices!Init /\ NoOption /\ NoSystem /\ NoList /\ NoSync /\ NoGroup /\ NoRule
  \/ scenario = "prices_batch" /\ PricesBatch!Init /\ NoOption /\ NoSystem /\ NoList /\ NoSync /\ NoGroup /\ NoRule
  \/ scenario = "prices_unset" /\ PricesUnset!Init /\ NoOption /\ NoSystem /\ NoList /\ NoSync /\ NoGroup /\ NoRule
  \/ scenario = "sync" /\ Sync!Init /\ NoOption /\ NoSystem /\ NoList /\ NoPrice /\ NoGroup /\ NoRule
  \/ scenario = "sync_picks" /\ SyncPicks!Init /\ NoOption /\ NoSystem /\ NoList /\ NoPrice /\ NoGroup /\ NoRule
  \/ scenario = "groups" /\ GroupPage!Init /\ NoOption /\ NoSystem /\ NoList /\ NoPrice /\ NoSync /\ NoRule
  \/ scenario = "affinity" /\ Affinity!Init /\ NoOption /\ NoSystem /\ NoList /\ NoPrice /\ NoSync /\ NoGroup
  \/ scenario = "affinity_lost" /\ AffinityLost!Init /\ NoOption /\ NoSystem /\ NoList /\ NoPrice /\ NoSync /\ NoGroup

Next ==
  \/ scenario = "tab" /\ Tab!Next /\ UNCHANGED <<scenario, systemVars, listVars, priceVars, syncVars, groupVars, ruleVars>>
  \/ scenario = "page" /\ Page!Next /\ UNCHANGED <<scenario, systemVars, listVars, priceVars, syncVars, groupVars, ruleVars>>
  \/ scenario = "refused" /\ Refused!Next /\ UNCHANGED <<scenario, systemVars, listVars, priceVars, syncVars, groupVars, ruleVars>>
  \/ scenario = "cards" /\ TwoCards!Next /\ UNCHANGED <<scenario, optionVars, listVars, priceVars, syncVars, groupVars, ruleVars>>
  \/ scenario = "card" /\ OneCard!Next /\ UNCHANGED <<scenario, optionVars, listVars, priceVars, syncVars, groupVars, ruleVars>>
  \/ scenario = "lists" /\ Lists!Next /\ UNCHANGED <<scenario, optionVars, systemVars, priceVars, syncVars, groupVars, ruleVars>>
  \/ scenario = "keyed" /\ Keyed!Next /\ UNCHANGED <<scenario, optionVars, systemVars, priceVars, syncVars, groupVars, ruleVars>>
  \/ scenario = "legacy" /\ OldLists!Next /\ UNCHANGED <<scenario, optionVars, systemVars, priceVars, syncVars, groupVars, ruleVars>>
  \/ scenario = "prices" /\ Prices!Next /\ UNCHANGED <<scenario, optionVars, systemVars, listVars, syncVars, groupVars, ruleVars>>
  \/ scenario = "prices_batch" /\ PricesBatch!Next /\ UNCHANGED <<scenario, optionVars, systemVars, listVars, syncVars, groupVars, ruleVars>>
  \/ scenario = "prices_unset" /\ PricesUnset!Next /\ UNCHANGED <<scenario, optionVars, systemVars, listVars, syncVars, groupVars, ruleVars>>
  \/ scenario = "sync" /\ Sync!Next /\ UNCHANGED <<scenario, optionVars, systemVars, listVars, priceVars, groupVars, ruleVars>>
  \/ scenario = "sync_picks" /\ SyncPicks!Next /\ UNCHANGED <<scenario, optionVars, systemVars, listVars, priceVars, groupVars, ruleVars>>
  \/ scenario = "groups" /\ GroupPage!Next /\ UNCHANGED <<scenario, optionVars, systemVars, listVars, priceVars, syncVars, ruleVars>>
  \/ scenario = "affinity" /\ Affinity!Next /\ UNCHANGED <<scenario, optionVars, systemVars, listVars, priceVars, syncVars, groupVars>>
  \/ scenario = "affinity_lost" /\ AffinityLost!Next /\ UNCHANGED <<scenario, optionVars, systemVars, listVars, priceVars, syncVars, groupVars>>

Spec == Init /\ [][Next]_vars

-----------------------------------------------------------------------------
\* Every variable of the scenario's component keeps its type.
TypeOK ==
  /\ scenario = "tab" => Tab!TypeOK
  /\ scenario = "cards" => TwoCards!TypeOK
  /\ scenario = "lists" => Lists!TypeOK
  /\ scenario = "prices" => Prices!TypeOK
  /\ scenario = "sync" => Sync!TypeOK
  /\ scenario = "groups" => GroupPage!TypeOK
  /\ scenario = "affinity" => Affinity!TypeOK

\* What a page says of the stored options is true.  Reported as saved is stored as reported: by
\* the pages that read the answers, though options are refused, and by the cards of
\* SystemSetting, which send what the screen showed when the button was pressed.  The baseline a
\* form compares with is stored, whichever forms of the tab were saved together, so finding
\* nothing to save means all is stored.  A list without changes is the stored one, and one with
\* changes leaves the save button enabled.  (Exceptions: a refresh given the answer of an older
\* one, and changes made during a save.)  Prices, synchronised ratios, groups and affinity
\* rules that are announced as saved are the ones in force, but for the emptied special groups
\* and the rules that are no array, which GroupSettings and AffinityRules name.
SavedIsStored ==
  /\ scenario = "refused" => Refused!SavedIsStored
  /\ scenario = "cards" => TwoCards!SavedIsStored /\ TwoCards!SendsWhatIsShown
  /\ scenario = "card" => OneCard!SendsWhatIsShown
  /\ scenario = "tab" => Tab!BaselineIsStored
  /\ scenario = "page" => Page!NothingMeansStored
  /\ scenario = "lists" => Lists!ShownIsStored /\ Lists!UnsavedIsFlagged
  /\ scenario = "prices" => Prices!AnnouncedIsSaved
  /\ scenario = "prices_batch" => PricesBatch!AnnouncedIsSaved
  /\ scenario = "prices_unset" => PricesUnset!AnnouncedIsSaved
  /\ scenario \in {"sync", "sync_picks"} => Sync!AnnouncedIsApplied
  /\ scenario = "groups" => GroupPage!AnnouncedIsInForce
  /\ scenario = "affinity" => Affinity!AnnouncedIsInForce

\* The price editor reads ratios as prices and writes prices as ratios: a model nobody touched
\* costs after a save what it cost before, in whatever shape its price was stored, and the
\* preview is what a save writes.  Ratios can be taken only from what the last comparison offers,
\* and the editors of groups and of affinity rules show what the form would save.
EditorsAreFaithful ==
  /\ scenario = "prices" => Prices!UntouchedKeepTheirPrice /\ Prices!PreviewIsSaved
  /\ scenario = "prices_batch" => PricesBatch!UntouchedKeepTheirPrice /\ PricesBatch!PreviewIsSaved
  /\ scenario = "prices_unset" => PricesUnset!UntouchedKeepTheirPrice /\ PricesUnset!PreviewIsSaved
  /\ scenario \in {"sync", "sync_picks"} => Sync!ChoicesAreOffered
  /\ scenario = "groups" => GroupPage!EditorsShowInputs
  /\ scenario = "affinity" => Affinity!TableShowsText
  /\ scenario = "affinity_lost" => AffinityLost!TableShowsText

\* No two items of a list are found by the same key, whatever was added, removed, stored and
\* read again, also in a list stored by a version that kept no ids.
KeysAreUnique ==
  /\ scenario = "keyed" => Keyed!KeysAreUnique
  /\ scenario = "legacy" => OldLists!KeysAreUnique
  /\ scenario = "affinity" => Affinity!KeysAreUnique
  /\ scenario = "affinity_lost" => AffinityLost!KeysAreUnique

\* A save touches what it is for: a stored secret is never replaced by an empty one, a dialog
\* changes or removes the item it was opened for, though the list under it was read again, and a
\* save of another part of the tab leaves the unsaved list of a flagged page alone; a model's
\* billing changes between price and ratio only after a confirmation, a row of the group table
\* changes the ratio of its own group only, and the dialog of an affinity rule changes that rule.
SaveTouchesItsOwn ==
  [][/\ scenario = "cards" => TwoCards!SecretsAreNotErased
     /\ scenario = "keyed" => Keyed!DialogTouchesItsItem
     /\ scenario = "lists" => Lists!TabKeepsEdits
     /\ scenario \in {"sync", "sync_picks"} => Sync!ChangeOfBillingIsConfirmed
     /\ scenario = "groups" => GroupPage!EditTouchesItsGroup
     /\ scenario = "affinity" => Affinity!DialogTouchesItsRule]_vars

=============================================================================
