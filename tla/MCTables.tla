------------------------------ MODULE MCTables ------------------------------
\* The tables of the console and the dialogs they open.  A behaviour is one scenario: one
\* component under one assumption on the order of answers, on faults and on what is clicked.  Two
\* pages, two sizes and one keyword: a search, a click on the pager, a change of size and its
\* effect can overlap in every order.  Two items per dialog: one can be opened while requests for
\* the other are under way.
EXTENDS Naturals, Sequences, FiniteSets, TLC

CONSTANTS None, Unread

VARIABLES scenario,
          table, form, mode, query, active, size, rows, reqs, asks, loading, searching, timer,
          op, want, joined,  \* TableList
          view, browser, saved, page, compact, stored, events, last, own, clicks,  \* TableColumns
          channelView, gets, waits, counter, channelLoading, channelSearching, shown, ops, db,
          channelAsks, done, need, spoiled, shared, stuck,  \* ChannelList
          testShown, isBatchTesting, stop, testing, results, loops, tests, singles, finished,  \* ModelTest
          d, visible, item, editForm, typed, editLoading, editGets, puts, timers, adjust,
          purpose, editRows, refreshing, editStored, made, saves,  \* EditDialogs
          chanVisible, chan, inputs, formUrl, base, batch, merge, manual, keyMode, isMulti,
          files, panel, expanded, chanLoading, chanGets, chanPuts, ask, touched, keyed,
          chanStored, chanMade, opens, changes, chanSaves,  \* ChannelEditor
          v, viewVisible, viewItem, viewQuery, viewShown, viewLoading, viewGets, viewOps,
          server, hours, price, costLoading, costId, costs, pulls, aborting, source, pulling,
          viewOpens, ngets, nops,  \* ItemViews
          deployVisible, known, hardwareCalls, sel, deployForm, locations, loadingReplicas,
          replicaRequestId, replicaCalls, deployPrice, priceCalls, imageMode, lists, custom,
          sending, left, deployOpens, deployChanges,  \* CreateDeployment
          value, overVisible, editMode, visualMode, legacyValue, operations, jsonText,
          jsonError, selected, dragged, over, localId, edits, overOpens  \* ParamOverride

listVars == <<table, form, mode, query, active, size, rows, reqs, asks, loading, searching,
      timer, op, want, joined>>
columnsVars == <<view, browser, saved, page, compact, stored, events, last, own, clicks>>
channelVars == <<channelView, gets, waits, counter, channelLoading, channelSearching, shown,
      ops, db, channelAsks, done, need, spoiled, shared, stuck>>
testVars == <<testShown, isBatchTesting, stop, testing, results, loops, tests, singles, finished>>
editVars == <<d, visible, item, editForm, typed, editLoading, editGets, puts, timers, adjust,
      purpose, editRows, refreshing, editStored, made, saves>>
chanVars == <<chanVisible, chan, inputs, formUrl, base, batch, merge, manual, keyMode, isMulti,
      files, panel, expanded, chanLoading, chanGets, chanPuts, ask, touched, keyed, chanStored,
      chanMade, opens, changes, chanSaves>>
viewVars == <<v, viewVisible, viewItem, viewQuery, viewShown, viewLoading, viewGets, viewOps,
      server, hours, price, costLoading, costId, costs, pulls, aborting, source, pulling,
      viewOpens, ngets, nops>>
deployVars == <<deployVisible, known, hardwareCalls, sel, deployForm, locations,
      loadingReplicas, replicaRequestId, replicaCalls, deployPrice, priceCalls, imageMode,
      lists, custom, sending, left, deployOpens, deployChanges>>
overVars == <<value, overVisible, editMode, visualMode, legacyValue, operations, jsonText,
      jsonError, selected, dragged, over, localId, edits, overOpens>>
vars == <<scenario, listVars, columnsVars, channelVars, testVars, editVars, chanVars, viewVars, deployVars, overVars>>

\* The columns the user switches: one for everybody, three for administrators, one that must stay.
Switched == {"channel", "username", "retry", "submit_result", "status", "type", "actions"}

\* The places of two kinds of hardware, one of them without a replica.
Places == "h1" :> ("x" :> 2 @@ "y" :> 1) @@ "h2" :> ("x" :> 0 @@ "y" :> 3)

AnyTable == INSTANCE TableList WITH Tables <- {}, InOrder <- TRUE, Faults <- {}, Calm <- TRUE,
    Operations <- FALSE, MaxAsks <- 0, Pages <- {1, 2}, Sizes <- {10, 20}
Pager == INSTANCE TableList WITH Tables <- AnyTable!AnswerPaged, InOrder <- FALSE, Faults <- {},
    Calm <- FALSE, Operations <- FALSE, MaxAsks <- 4, Pages <- {1, 2}, Sizes <- {10, 20}
Clicks == INSTANCE TableList WITH Tables <- AnyTable!AllTables, InOrder <- TRUE, Faults <- {},
    Calm <- TRUE, Operations <- FALSE, MaxAsks <- 4, Pages <- {1, 2}, Sizes <- {10, 20}
Status == INSTANCE TableList WITH Tables <- {[AnyTable!useModelsData EXCEPT !.ops = {"prev"}]},
    InOrder <- TRUE, Faults <- {}, Calm <- TRUE, Operations <- TRUE, MaxAsks <- 4, Pages <- {1,
    2}, Sizes <- {10, 20}
Shown == INSTANCE TableList WITH Tables <- AnyTable!Faithful, InOrder <- TRUE, Faults <- {},
    Calm <- FALSE, Operations <- FALSE, MaxAsks <- 4, Pages <- {1, 2}, Sizes <- {10, 20}
Spinner == INSTANCE TableList WITH Tables <- AnyTable!Guarded, InOrder <- FALSE,
    Faults <- {"refuse", "reject"}, Calm <- FALSE, Operations <- TRUE, MaxAsks <- 3, Pages <- {1,
    2}, Sizes <- {10, 20}
AnyColumns == INSTANCE TableColumns WITH Views <- {}, Tabs <- {}, Clicked <- {},
    Relogins <- FALSE, MaxClicks <- 0
TwoTabs == INSTANCE TableColumns WITH Views <- AnyColumns!AllViews \ {AnyColumns!useTaskLogsData},
    Tabs <- {"t1", "t2"}, Clicked <- Switched, Relogins <- FALSE, MaxClicks <- 4
Relogin == INSTANCE TableColumns WITH Views <- AnyColumns!AllViews, Tabs <- {"t1"},
    Clicked <- Switched, Relogins <- TRUE, MaxClicks <- 5
ChannelPage == INSTANCE ChannelList WITH Pages <- 2, Sels <- {"s1", "s2"}, MaxAsks <- 3,
    MaxOps <- 1, view <- channelView, loading <- channelLoading, searching <- channelSearching,
    asks <- channelAsks
Tests == INSTANCE ModelTest WITH Channels <- {"c1", "c2"}, Count <- 3, Limit <- 2, MaxLoops <- 2,
    MaxSingles <- 1, shown <- testShown
AnyEdit == INSTANCE EditDialogs WITH Items <- {}, Dialogs <- {}, Rate <- <<1, 1>>, Faults <- {},
    Unhurried <- TRUE, MaxSaves <- 0, MaxTyped <- 0, form <- editForm, loading <- editLoading,
    gets <- editGets, rows <- editRows, stored <- editStored
Edits == INSTANCE EditDialogs WITH Items <- {"A", "B"}, Dialogs <- AnyEdit!AllDialogs \
    {AnyEdit!EditModel}, Rate <- <<73, 10>>, Faults <- {"refused"}, Unhurried <- TRUE,
    MaxSaves <- 2, MaxTyped <- 1, form <- editForm, loading <- editLoading, gets <- editGets,
    rows <- editRows, stored <- editStored
EditsModel == INSTANCE EditDialogs WITH Items <- {"A", "B"}, Dialogs <- {AnyEdit!EditModel},
    Rate <- <<1, 1>>, Faults <- {}, Unhurried <- TRUE, MaxSaves <- 2, MaxTyped <- 2,
    form <- editForm, loading <- editLoading, gets <- editGets, rows <- editRows,
    stored <- editStored
EditsHurried == INSTANCE EditDialogs WITH Items <- {"A", "B"},
    Dialogs <- {AnyEdit!AddEditSubscription, AnyEdit!AddUser, AnyEdit!EditDeployment},
    Rate <- <<1, 1>>, Faults <- {"refused", "save"}, Unhurried <- FALSE, MaxSaves <- 2,
    MaxTyped <- 1, form <- editForm, loading <- editLoading, gets <- editGets, rows <- editRows,
    stored <- editStored
EditsFaulty == INSTANCE EditDialogs WITH Items <- {"A"}, Dialogs <- AnyEdit!AllDialogs,
    Rate <- <<1, 1>>, Faults <- {"refused", "load", "save", "lost", "refresh"},
    Unhurried <- FALSE, MaxSaves <- 1, MaxTyped <- 1, form <- editForm, loading <- editLoading,
    gets <- editGets, rows <- editRows, stored <- editStored
EditChannel == INSTANCE ChannelEditor WITH Chans <- {"A"}, Types <- {"openai", "ark"},
    Uses <- {"fields", "type"}, Configs <- {{"tag", "check_enabled", "auto_sync",
    "last_detected"}}, MaxOpens <- 1, MaxChanges <- 2, MaxSaves <- 1, Unhurried <- TRUE,
    visible <- chanVisible, loading <- chanLoading, gets <- chanGets, puts <- chanPuts,
    stored <- chanStored, made <- chanMade, saves <- chanSaves
EditType == INSTANCE ChannelEditor WITH Chans <- {"A"}, Types <- {"openai", "vertex", "ark"},
    Uses <- {"type", "panel"}, Configs <- {{}, {"tag", "check_enabled", "auto_sync",
    "last_detected"}}, MaxOpens <- 1, MaxChanges <- 3, MaxSaves <- 1, Unhurried <- TRUE,
    visible <- chanVisible, loading <- chanLoading, gets <- chanGets, puts <- chanPuts,
    stored <- chanStored, made <- chanMade, saves <- chanSaves
EditKeys == INSTANCE ChannelEditor WITH Chans <- {"A"}, Types <- {"openai", "vertex"},
    Uses <- {"keys", "files", "create", "type"}, Configs <- {{}}, MaxOpens <- 1, MaxChanges <- 3,
    MaxSaves <- 1, Unhurried <- TRUE, visible <- chanVisible, loading <- chanLoading,
    gets <- chanGets, puts <- chanPuts, stored <- chanStored, made <- chanMade, saves <- chanSaves
AnyView == INSTANCE ItemViews WITH Items <- {"A", "B"}, Views <- {}, NumRows <- 1, Faults <- {},
    Unhurried <- TRUE, MaxOpens <- 2, MaxGets <- 0, MaxOps <- 2, visible <- viewVisible,
    item <- viewItem, query <- viewQuery, shown <- viewShown, loading <- viewLoading,
    gets <- viewGets, ops <- viewOps, opens <- viewOpens
OpenViews == INSTANCE ItemViews WITH Items <- {"A", "B"}, Views <- AnyView!AllViews, NumRows <- 3,
    Faults <- {}, Unhurried <- TRUE, MaxOpens <- 2, MaxGets <- 5, MaxOps <- 2,
    visible <- viewVisible, item <- viewItem, query <- viewQuery, shown <- viewShown,
    loading <- viewLoading, gets <- viewGets, ops <- viewOps, opens <- viewOpens
ViewsPulling == INSTANCE ItemViews WITH Items <- {"A", "B"}, Views <- {AnyView!OllamaModels},
    NumRows <- 2, Faults <- {"load", "op"}, Unhurried <- FALSE, MaxOpens <- 2, MaxGets <- 3,
    MaxOps <- 2, visible <- viewVisible, item <- viewItem, query <- viewQuery, shown <- viewShown,
    loading <- viewLoading, gets <- viewGets, ops <- viewOps, opens <- viewOpens
ViewsUsage == INSTANCE ItemViews WITH Items <- {"A", "B"}, Views <- {AnyView!CodexUsage,
    AnyView!AffinityUsage}, NumRows <- 3, Faults <- {}, Unhurried <- FALSE, MaxOpens <- 2,
    MaxGets <- 5, MaxOps <- 2, visible <- viewVisible, item <- viewItem, query <- viewQuery,
    shown <- viewShown, loading <- viewLoading, gets <- viewGets, ops <- viewOps,
    opens <- viewOpens
ViewsExtend == INSTANCE ItemViews WITH Items <- {"A", "B"}, Views <- {AnyView!ExtendDuration},
    NumRows <- 2, Faults <- {"op", "price"}, Unhurried <- FALSE, MaxOpens <- 2, MaxGets <- 4,
    MaxOps <- 2, visible <- viewVisible, item <- viewItem, query <- viewQuery, shown <- viewShown,
    loading <- viewLoading, gets <- viewGets, ops <- viewOps, opens <- viewOpens
Deploys == INSTANCE CreateDeployment WITH Hardware <- {"h1", "h2"}, Avail <- Places, Counts <- {0,
    1, 3}, Vars <- {"v"}, Uses <- {"price"}, Faults <- {"refused"}, InOrder <- TRUE,
    MaxOpens <- 2, MaxChanges <- 4, visible <- deployVisible, form <- deployForm,
    price <- deployPrice, opens <- deployOpens, changes <- deployChanges
DeploysHurried == INSTANCE CreateDeployment WITH Hardware <- {"h1", "h2"}, Avail <- Places,
    Counts <- {0, 1, 3}, Vars <- {"v"}, Uses <- {"price"}, Faults <- {"refused"},
    InOrder <- FALSE, MaxOpens <- 2, MaxChanges <- 3, visible <- deployVisible,
    form <- deployForm, price <- deployPrice, opens <- deployOpens, changes <- deployChanges
DeploysImage == INSTANCE CreateDeployment WITH Hardware <- {"h1"}, Avail <- Places, Counts <- {1},
    Vars <- {"v"}, Uses <- {"price", "image"}, Faults <- {"refused"}, InOrder <- TRUE,
    MaxOpens <- 1, MaxChanges <- 5, visible <- deployVisible, form <- deployForm,
    price <- deployPrice, opens <- deployOpens, changes <- deployChanges
AnyOverride == INSTANCE ParamOverride WITH Stored <- {}, Modes <- {}, Typed <- {},
    Statuses <- {401}, MaxEdits <- 0, MaxRules <- 3, MaxOpens <- 1, MaxIds <- 4,
    visible <- overVisible, opens <- overOpens
Overrides == INSTANCE ParamOverride WITH Stored <- AnyOverride!Samples,
    Modes <- AnyOverride!AllModes, Typed <- {AnyOverride!Plain("a")}, Statuses <- {401},
    MaxEdits <- 2, MaxRules <- 3, MaxOpens <- 1, MaxIds <- 4, visible <- overVisible,
    opens <- overOpens
OverridesRules == INSTANCE ParamOverride WITH Stored <- {AnyOverride!Nothing,
    AnyOverride!Override({}, AnyOverride!OperationTemplate)}, Modes <- {"copy_header",
    "return_error"}, Typed <- {AnyOverride!Plain("a")}, Statuses <- {401}, MaxEdits <- 3,
    MaxRules <- 3, MaxOpens <- 1, MaxIds <- 4, visible <- overVisible, opens <- overOpens

\* In a scenario of one component the others are absent and stay so.
NoList == table = None /\ form = None /\ mode = None /\ query = None /\ active = None
      /\ size = None /\ rows = None /\ reqs = None /\ asks = None /\ loading = None
      /\ searching = None /\ timer = None /\ op = None /\ want = None /\ joined = None
NoColumns == view = None /\ browser = None /\ saved = None /\ page = None /\ compact = None
      /\ stored = None /\ events = None /\ last = None /\ own = None /\ clicks = None
NoChannel == channelView = None /\ gets = None /\ waits = None /\ counter = None
      /\ channelLoading = None /\ channelSearching = None /\ shown = None /\ ops = None
      /\ db = None /\ channelAsks = None /\ done = None /\ need = None /\ spoiled = None
      /\ shared = None /\ stuck = None
NoTest == testShown = None /\ isBatchTesting = None /\ stop = None /\ testing = None
      /\ results = None /\ loops = None /\ tests = None /\ singles = None /\ finished = None
NoEdit == d = None /\ visible = None /\ item = None /\ editForm = None /\ typed = None
      /\ editLoading = None /\ editGets = None /\ puts = None /\ timers = None /\ adjust = None
      /\ purpose = None /\ editRows = None /\ refreshing = None /\ editStored = None
      /\ made = None /\ saves = None
NoChan == chanVisible = None /\ chan = None /\ inputs = None /\ formUrl = None /\ base = None
      /\ batch = None /\ merge = None /\ manual = None /\ keyMode = None /\ isMulti = None
      /\ files = None /\ panel = None /\ expanded = None /\ chanLoading = None
      /\ chanGets = None /\ chanPuts = None /\ ask = None /\ touched = None /\ keyed = None
      /\ chanStored = None /\ chanMade = None /\ opens = None /\ changes = None
      /\ chanSaves = None
NoView == v = None /\ viewVisible = None /\ viewItem = None /\ viewQuery = None
      /\ viewShown = None /\ viewLoading = None /\ viewGets = None /\ viewOps = None
      /\ server = None /\ hours = None /\ price = None /\ costLoading = None /\ costId = None
      /\ costs = None /\ pulls = None /\ aborting = None /\ source = None /\ pulling = None
      /\ viewOpens = None /\ ngets = None /\ nops = None
NoDeploy == deployVisible = None /\ known = None /\ hardwareCalls = None /\ sel = None
      /\ deployForm = None /\ locations = None /\ loadingReplicas = None
      /\ replicaRequestId = None /\ replicaCalls = None /\ deployPrice = None
      /\ priceCalls = None /\ imageMode = None /\ lists = None /\ custom = None
      /\ sending = None /\ left = None /\ deployOpens = None /\ deployChanges = None
NoOver == value = None /\ overVisible = None /\ editMode = None /\ visualMode = None
      /\ legacyValue = None /\ operations = None /\ jsonText = None /\ jsonError = None
      /\ selected = None /\ dragged = None /\ over = None /\ localId = None /\ edits = None
      /\ overOpens = None

Init ==
  \/ scenario = "pager" /\ Pager!Init /\ NoColumns /\ NoChannel /\ NoTest /\ NoEdit /\ NoChan /\ NoView /\ NoDeploy /\ NoOver
  \/ scenario = "clicks" /\ Clicks!Init /\ NoColumns /\ NoChannel /\ NoTest /\ NoEdit /\ NoChan /\ NoView /\ NoDeploy /\ NoOver
  \/ scenario = "status" /\ Status!Init /\ NoColumns /\ NoChannel /\ NoTest /\ NoEdit /\ NoChan /\ NoView /\ NoDeploy /\ NoOver
  \/ scenario = "shown" /\ Shown!Init /\ NoColumns /\ NoChannel /\ NoTest /\ NoEdit /\ NoChan /\ NoView /\ NoDeploy /\ NoOver
  \/ scenario = "spinner" /\ Spinner!Init /\ NoColumns /\ NoChannel /\ NoTest /\ NoEdit /\ NoChan /\ NoView /\ NoDeploy /\ NoOver
  \/ scenario = "tabs" /\ TwoTabs!Init /\ NoList /\ NoChannel /\ NoTest /\ NoEdit /\ NoChan /\ NoView /\ NoDeploy /\ NoOver
  \/ scenario = "relogin" /\ Relogin!Init /\ NoList /\ NoChannel /\ NoTest /\ NoEdit /\ NoChan /\ NoView /\ NoDeploy /\ NoOver
  \/ scenario = "channels" /\ ChannelPage!Init /\ NoList /\ NoColumns /\ NoTest /\ NoEdit /\ NoChan /\ NoView /\ NoDeploy /\ NoOver
  \/ scenario = "tests" /\ Tests!Init /\ NoList /\ NoColumns /\ NoChannel /\ NoEdit /\ NoChan /\ NoView /\ NoDeploy /\ NoOver
  \/ scenario = "edit" /\ Edits!Init /\ NoList /\ NoColumns /\ NoChannel /\ NoTest /\ NoChan /\ NoView /\ NoDeploy /\ NoOver
  \/ scenario = "edit_model" /\ EditsModel!Init /\ NoList /\ NoColumns /\ NoChannel /\ NoTest /\ NoChan /\ NoView /\ NoDeploy /\ NoOver
  \/ scenario = "edit_hurried" /\ EditsHurried!Init /\ NoList /\ NoColumns /\ NoChannel /\ NoTest /\ NoChan /\ NoView /\ NoDeploy /\ NoOver
  \/ scenario = "edit_faults" /\ EditsFaulty!Init /\ NoList /\ NoColumns /\ NoChannel /\ NoTest /\ NoChan /\ NoView /\ NoDeploy /\ NoOver
  \/ scenario = "channel" /\ EditChannel!Init /\ NoList /\ NoColumns /\ NoChannel /\ NoTest /\ NoEdit /\ NoView /\ NoDeploy /\ NoOver
  \/ scenario = "channel_type" /\ EditType!Init /\ NoList /\ NoColumns /\ NoChannel /\ NoTest /\ NoEdit /\ NoView /\ NoDeploy /\ NoOver
  \/ scenario = "channel_keys" /\ EditKeys!Init /\ NoList /\ NoColumns /\ NoChannel /\ NoTest /\ NoEdit /\ NoView /\ NoDeploy /\ NoOver
  \/ scenario = "view" /\ OpenViews!Init /\ NoList /\ NoColumns /\ NoChannel /\ NoTest /\ NoEdit /\ NoChan /\ NoDeploy /\ NoOver
  \/ scenario = "view_pulls" /\ ViewsPulling!Init /\ NoList /\ NoColumns /\ NoChannel /\ NoTest /\ NoEdit /\ NoChan /\ NoDeploy /\ NoOver
  \/ scenario = "view_usage" /\ ViewsUsage!Init /\ NoList /\ NoColumns /\ NoChannel /\ NoTest /\ NoEdit /\ NoChan /\ NoDeploy /\ NoOver
  \/ scenario = "view_extend" /\ ViewsExtend!Init /\ NoList /\ NoColumns /\ NoChannel /\ NoTest /\ NoEdit /\ NoChan /\ NoDeploy /\ NoOver
  \/ scenario = "deploy" /\ Deploys!Init /\ NoList /\ NoColumns /\ NoChannel /\ NoTest /\ NoEdit /\ NoChan /\ NoView /\ NoOver
  \/ scenario = "deploy_hurried" /\ DeploysHurried!Init /\ NoList /\ NoColumns /\ NoChannel /\ NoTest /\ NoEdit /\ NoChan /\ NoView /\ NoOver
  \/ scenario = "deploy_image" /\ DeploysImage!Init /\ NoList /\ NoColumns /\ NoChannel /\ NoTest /\ NoEdit /\ NoChan /\ NoView /\ NoOver
  \/ scenario = "override" /\ Overrides!Init /\ NoList /\ NoColumns /\ NoChannel /\ NoTest /\ NoEdit /\ NoChan /\ NoView /\ NoDeploy
  \/ scenario = "override_rules" /\ OverridesRules!Init /\ NoList /\ NoColumns /\ NoChannel /\ NoTest /\ NoEdit /\ NoChan /\ NoView /\ NoDeploy

Next ==
  \/ scenario = "pager" /\ Pager!Next /\ UNCHANGED <<scenario, columnsVars, channelVars, testVars, editVars, chanVars, viewVars, deployVars, overVars>>
  \/ scenario = "clicks" /\ Clicks!Next /\ UNCHANGED <<scenario, columnsVars, channelVars, testVars, editVars, chanVars, viewVars, deployVars, overVars>>
  \/ scenario = "status" /\ Status!Next /\ UNCHANGED <<scenario, columnsVars, channelVars, testVars, editVars, chanVars, viewVars, deployVars, overVars>>
  \/ scenario = "shown" /\ Shown!Next /\ UNCHANGED <<scenario, columnsVars, channelVars, testVars, editVars, chanVars, viewVars, deployVars, overVars>>
  \/ scenario = "spinner" /\ Spinner!Next /\ UNCHANGED <<scenario, columnsVars, channelVars, testVars, editVars, chanVars, viewVars, deployVars, overVars>>
  \/ scenario = "tabs" /\ TwoTabs!Next /\ UNCHANGED <<scenario, listVars, channelVars, testVars, editVars, chanVars, viewVars, deployVars, overVars>>
  \/ scenario = "relogin" /\ Relogin!Next /\ UNCHANGED <<scenario, listVars, channelVars, testVars, editVars, chanVars, viewVars, deployVars, overVars>>
  \/ scenario = "channels" /\ ChannelPage!Next /\ UNCHANGED <<scenario, listVars, columnsVars, testVars, editVars, chanVars, viewVars, deployVars, overVars>>
  \/ scenario = "tests" /\ Tests!Next /\ UNCHANGED <<scenario, listVars, columnsVars, channelVars, editVars, chanVars, viewVars, deployVars, overVars>>
  \/ scenario = "edit" /\ Edits!Next /\ UNCHANGED <<scenario, listVars, columnsVars, channelVars, testVars, chanVars, viewVars, deployVars, overVars>>
  \/ scenario = "edit_model" /\ EditsModel!Next /\ UNCHANGED <<scenario, listVars, columnsVars, channelVars, testVars, chanVars, viewVars, deployVars, overVars>>
  \/ scenario = "edit_hurried" /\ EditsHurried!Next /\ UNCHANGED <<scenario, listVars, columnsVars, channelVars, testVars, chanVars, viewVars, deployVars, overVars>>
  \/ scenario = "edit_faults" /\ EditsFaulty!Next /\ UNCHANGED <<scenario, listVars, columnsVars, channelVars, testVars, chanVars, viewVars, deployVars, overVars>>
  \/ scenario = "channel" /\ EditChannel!Next /\ UNCHANGED <<scenario, listVars, columnsVars, channelVars, testVars, editVars, viewVars, deployVars, overVars>>
  \/ scenario = "channel_type" /\ EditType!Next /\ UNCHANGED <<scenario, listVars, columnsVars, channelVars, testVars, editVars, viewVars, deployVars, overVars>>
  \/ scenario = "channel_keys" /\ EditKeys!Next /\ UNCHANGED <<scenario, listVars, columnsVars, channelVars, testVars, editVars, viewVars, deployVars, overVars>>
  \/ scenario = "view" /\ OpenViews!Next /\ UNCHANGED <<scenario, listVars, columnsVars, channelVars, testVars, editVars, chanVars, deployVars, overVars>>
  \/ scenario = "view_pulls" /\ ViewsPulling!Next /\ UNCHANGED <<scenario, listVars, columnsVars, channelVars, testVars, editVars, chanVars, deployVars, overVars>>
  \/ scenario = "view_usage" /\ ViewsUsage!Next /\ UNCHANGED <<scenario, listVars, columnsVars, channelVars, testVars, editVars, chanVars, deployVars, overVars>>
  \/ scenario = "view_extend" /\ ViewsExtend!Next /\ UNCHANGED <<scenario, listVars, columnsVars, channelVars, testVars, editVars, chanVars, deployVars, overVars>>
  \/ scenario = "deploy" /\ Deploys!Next /\ UNCHANGED <<scenario, listVars, columnsVars, channelVars, testVars, editVars, chanVars, viewVars, overVars>>
  \/ scenario = "deploy_hurried" /\ DeploysHurried!Next /\ UNCHANGED <<scenario, listVars, columnsVars, channelVars, testVars, editVars, chanVars, viewVars, overVars>>
  \/ scenario = "deploy_image" /\ DeploysImage!Next /\ UNCHANGED <<scenario, listVars, columnsVars, channelVars, testVars, editVars, chanVars, viewVars, overVars>>
  \/ scenario = "override" /\ Overrides!Next /\ UNCHANGED <<scenario, listVars, columnsVars, channelVars, testVars, editVars, chanVars, viewVars, deployVars>>
  \/ scenario = "override_rules" /\ OverridesRules!Next /\ UNCHANGED <<scenario, listVars, columnsVars, channelVars, testVars, editVars, chanVars, viewVars, deployVars>>

Spec == Init /\ [][Next]_vars

-----------------------------------------------------------------------------
\* Every variable of the scenario's component keeps its type.
TypeOK ==
  /\ scenario = "pager" => Pager!TypeOK
  /\ scenario = "tabs" => TwoTabs!TypeOK
  /\ scenario = "channels" => ChannelPage!TypeOK
  /\ scenario = "tests" => Tests!TypeOK
  /\ scenario = "edit" => Edits!TypeOK
  /\ scenario = "channel" => EditChannel!TypeOK
  /\ scenario = "view" => OpenViews!TypeOK
  /\ scenario = "deploy" => Deploys!TypeOK
  /\ scenario = "override" => Overrides!TypeOK

\* When nothing is under way a table shows what was asked for: the pager names the page and the
\* size of the rows above it (whatever the order of the answers where the answer brings page and
\* size; with answers in order for every table, also while a model is enabled or disabled); the
\* deployments and the task and Midjourney logs show what the user asked for last; the channel
\* list is the one its settings ask for and shows what the last operation did, with the
\* exceptions ChannelList names.
ShownIsAsked ==
  /\ scenario = "pager" => Pager!PagerMatchesRows
  /\ scenario = "clicks" => Clicks!PagerMatchesRows
  /\ scenario = "status" => Status!PagerMatchesRows
  /\ scenario = "shown" => Shown!AskedIsShown
  /\ scenario = "channels" => ChannelPage!ShownIsAsked /\ ChannelPage!RefreshSeesOperation

\* A spinner stops once its requests have ended: whatever they answered where they are caught, in
\* every table where nothing fails, for the channels unless the request that had set it spinning was
\* rejected, and in the dialogs that catch what their requests throw.
SpinnerEnds ==
  /\ scenario = "spinner" => Spinner!SpinnerEnds
  /\ scenario = "pager" => Pager!SpinnerEnds
  /\ scenario = "clicks" => Clicks!SpinnerEnds
  /\ scenario = "channels" => ChannelPage!SpinnerEnds
  /\ scenario = "edit_faults" => EditsFaulty!SpinnerEnds

\* A user's page has no column that only administrators are to see (or, after a login under an
\* open page, empty cells); each role finds its own choice of columns again, a reload shows the
\* same ones, the indispensable ones stay on, and all open tabs agree on the compact mode.
ColumnsAreOnesOwn ==
  /\ scenario = "tabs" =>
       /\ TwoTabs!AdminColumnsHidden /\ TwoTabs!RolesKeepTheirs
       /\ TwoTabs!ReloadKeepsColumns /\ TwoTabs!RequiredStay /\ TwoTabs!TabsAgree
  /\ scenario = "relogin" => Relogin!AdminCellsBlank

\* A batch of model tests that ran to its end has a result for every model of its channel,
\* whatever other loops, single tests and dialogs came between.
FinishedIsComplete == scenario = "tests" => Tests!FinishedIsComplete

\* A dialog shows what it was opened for: its form its own item's values, its rows those of its
\* item and of the server, an extension or a new deployment the price and the places of what is
\* chosen, and one pull per Ollama dialog; and the parameter rules it accepts are ones the relay
\* accepts and that it would show again unchanged.
DialogShowsItsItem ==
  /\ scenario = "edit" => Edits!FormIsItems
  /\ scenario = "edit_model" => EditsModel!FormIsItems
  /\ scenario = "edit_hurried" => EditsHurried!FormIsItems
  /\ scenario = "channel" => EditChannel!FormIsChannels
  /\ scenario = "channel_type" => EditType!FormIsChannels
  /\ scenario = "channel_keys" => EditKeys!FormIsChannels
  /\ scenario = "view" => OpenViews!ShownIsItems /\ OpenViews!ShownIsServers
  /\ scenario = "view_pulls" => ViewsPulling!OnePull
  /\ scenario = "view_usage" => ViewsUsage!ShownIsItems
  /\ scenario = "view_extend" => ViewsExtend!PriceIsForHours
  /\ scenario = "deploy" => Deploys!PlacesAreHardwares /\ Deploys!PriceIsForChoices
  /\ scenario = "deploy_hurried" => DeploysHurried!PlacesAreHardwares
  /\ scenario = "override" => Overrides!SavedIsAccepted /\ Overrides!SavedIsStable
  /\ scenario = "override_rules" => OverridesRules!SavedIsAccepted /\ OverridesRules!SavedIsStable

\* A save or an operation writes what was meant: what the form showed, to its item and row, in
\* the amounts shown, with the keys entered for this channel; nothing typed is replaced behind
\* the user's back; rules that were not edited keep their meaning and dragged ones their order;
\* a deployment is requested as it was estimated.
WritesWhatWasMeant ==
  [][/\ scenario = "edit" => Edits!WritesWhatWasMeant /\ Edits!TypedIsKept
     /\ scenario = "edit_model" => EditsModel!WritesWhatWasMeant /\ EditsModel!TypedIsKept
     /\ scenario = "edit_hurried" => EditsHurried!WritesWhatWasMeant
     /\ scenario = "channel" => EditChannel!SaveIsExact /\ EditChannel!OnlySavesWrite
     /\ scenario = "channel_type" => EditType!SaveIsExact /\ EditType!OnlySavesWrite
     /\ scenario = "channel_keys" =>
          EditKeys!SaveIsExact /\ EditKeys!OnlySavesWrite /\ EditKeys!KeysAreEnteredHere
     /\ scenario = "view" => OpenViews!HitsTheRowMeant
     /\ scenario = "override" => Overrides!UneditedMeansTheSame /\ Overrides!DropKeepsOrder
     /\ scenario = "override_rules" =>
          OverridesRules!UneditedMeansTheSame /\ OverridesRules!DropKeepsOrder
     /\ scenario = "deploy" => Deploys!SendsWhatIsPriced
     /\ scenario = "deploy_hurried" => DeploysHurried!SendsWhatIsPriced
     /\ scenario = "deploy_image" => DeploysImage!SendsWhatIsPriced /\ DeploysImage!CustomIsKept]_vars

=============================================================================
