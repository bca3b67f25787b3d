---------------------------- MODULE TableColumns ----------------------------
(***************************************************************************)
(* Which columns a table of the console shows: the defaults of the role,   *)
(* the choices saved in the browser, the column dialog, and the compact    *)
(* mode that the tabs of one browser share.  The role is read from the     *)
(* browser's storage at every render, so a login in another tab changes it *)
(* under an open page.                                                     *)
(***************************************************************************)
EXTENDS Naturals, Sequences, FiniteSets

CONSTANTS Views,     \* the tables considered
          Tabs,
          Clicked,   \* the columns the user switches
          Relogins,  \* another tab may log in as another role while the page is open
          MaxClicks, None

Roles == {"admin", "user"}

\* The columns of the usage log, by what they tell.
UsageWho == {"time", "channel", "username", "token"}
UsageWhat == {"group", "type", "model", "use_time", "prompt"}
UsageCost == {"completion", "cost", "ip", "retry", "details"}
UsageLogsColumns == UsageWho \cup UsageWhat \cup UsageCost
MjLogsColumns == {"submit_time", "duration", "channel", "type", "task_id", "submit_result", "task_status",
                  "progress", "image", "prompt", "prompt_en", "fail_reason"}
TaskLogsColumns == {"submit_time", "finish_time", "duration", "channel", "username", "platform", "type",
                    "task_id", "task_status", "progress", "fail_reason"}
DeploymentsColumns == {"container_name", "status", "provider", "time_remaining", "hardware_info",
                       "created_at", "actions"}
ChannelsColumns == {"id", "name", "group", "type", "status", "response_time", "balance", "priority",
                    "weight", "operate"}

\* The columns of the dialog: those a user does not find there, or all it offers.
UsageLogsSelector == {"channel", "username", "retry"}
MjLogsSelector == {"channel", "submit_result"}
TaskLogsSelector == {"channel"}
DeploymentsSelector == DeploymentsColumns \ {"provider"}
ChannelsSelector == ChannelsColumns

\* keys: COLUMN_KEYS, admin: what a user's defaults, saved choices and "select all" leave out,
\* offered[r]: the boxes of the dialog, blank: the columns whose cells are empty for a user,
\* required: always shown, merges: saved choices are laid over the defaults, perRole: each
\* role has its own saved choices.
LogView(keys, admin, hidden, blank) ==
  [keys |-> keys, admin |-> admin, offered |-> [r \in Roles |-> IF r = "admin" THEN keys ELSE keys \ hidden],
   blank |-> blank, required |-> {}, merges |-> TRUE, perRole |-> TRUE]

useUsageLogsData == LogView(UsageLogsColumns, {"channel", "username", "retry"}, UsageLogsSelector,
                            {"channel", "username", "retry"})
useMjLogsData == LogView(MjLogsColumns, {"channel", "submit_result"}, MjLogsSelector, {"channel", "submit_result"})
\* result_url is a key without a column.
useTaskLogsData ==
  [LogView(TaskLogsColumns, {"channel", "username"}, TaskLogsSelector, {"channel", "username"})
     EXCEPT !.keys = @ \cup {"result_url"}]
useChannelsData == [LogView(ChannelsColumns, {}, {}, {}) EXCEPT !.offered = [r \in Roles |-> ChannelsSelector], !.perRole = FALSE]
useDeploymentsData ==
  [LogView(DeploymentsColumns, {}, {}, {}) EXCEPT
     !.offered = [r \in Roles |-> DeploymentsSelector], !.required = {"container_name", "actions"},
     !.merges = FALSE, !.perRole = FALSE]

AllViews == {useUsageLogsData, useMjLogsData, useTaskLogsData, useChannelsData, useDeploymentsData}

-----------------------------------------------------------------------------
VARIABLES view,
          browser,   \* the role in localStorage.user
          saved,     \* per key: None or [on, known], the columns saved as shown and as mentioned
          page,      \* per tab: None or [seen, on]: the role of the last render, the columns on
          compact,   \* per tab: compact mode of the table
          stored,    \* compact mode in the browser
          events,    \* per tab: storage events not handled yet
          last,      \* history: the tab of the last choice
          own,       \* history, per role: what was on when that role last chose
          clicks

vars == <<view, browser, saved, page, compact, stored, events, last, own, clicks>>

Keys == Roles \cup {"all"}

\* Mutant: one key for both roles.
SharedKey(r) == "all"

Key(r) == IF view.perRole THEN r ELSE "all"

getDefaultColumnVisibility(r) == IF r = "admin" THEN view.keys ELSE view.keys \ view.admin

\* The choices s as a page of role r restores them.
Restored(s, r) ==
  LET merged == IF view.merges THEN s.on \cup (getDefaultColumnVisibility(r) \ s.known)
                ELSE s.on \cup ({"provider"} \ s.known)
  IN view.required \cup (IF r = "user" THEN merged \ view.admin ELSE merged)

getInitialVisibleColumns(r) ==
  IF saved[Key(r)] = None THEN getDefaultColumnVisibility(r) ELSE Restored(saved[Key(r)], r)

\* Everything on the page is known to its saved form.
Written(on) == [on |-> on, known |-> view.keys]

\* The page is opened or reloaded; the effect saves what it restored.
Mount(t) ==
  LET on == getInitialVisibleColumns(browser)
  IN /\ page' = [page EXCEPT ![t] = [seen |-> browser, on |-> on]]
     /\ saved' = IF view.merges THEN [saved EXCEPT ![Key(browser)] = Written(on)] ELSE saved
     /\ compact' = [compact EXCEPT ![t] = stored]
     /\ events' = [events EXCEPT ![t] = <<>>]
     /\ last' = t
     /\ own' = [own EXCEPT ![browser] = on]
     /\ UNCHANGED <<view, browser, stored, clicks>>

\* A choice by the render of role r: the page renders again with the role now in the browser,
\* whose key the effect writes.
Choose(t, on, alsoSaved) ==
  /\ clicks < MaxClicks /\ clicks' = clicks + 1
  /\ page' = [page EXCEPT ![t] = [seen |-> browser, on |-> on]]
  /\ saved' = [(IF alsoSaved THEN [saved EXCEPT ![Key(page[t].seen)] = Written(on)] ELSE saved)
               EXCEPT ![Key(browser)] = Written(on)]
  /\ last' = t
  /\ own' = [own EXCEPT ![page[t].seen] = on]
  /\ UNCHANGED <<view, browser, compact, stored, events>>

handleColumnVisibilityChange(t, c) ==
  /\ page[t] # None
  /\ c \in view.offered[page[t].seen] \ view.required
  /\ Choose(t, IF c \in page[t].on THEN page[t].on \ {c} ELSE page[t].on \cup {c}, FALSE)

\* The box of the deployments knows the columns offered, the others all columns.
handleSelectAll(t, checked) ==
  /\ page[t] # None
  /\ LET r == page[t].seen
         mine == IF r = "user" THEN view.keys \ view.admin ELSE view.keys
     IN /\ checked = ~(IF view.merges THEN view.keys \subseteq page[t].on ELSE view.offered[r] \subseteq page[t].on)
        /\ Choose(t, IF view.merges THEN (IF checked THEN mine ELSE {})
                     ELSE IF checked THEN page[t].on \cup view.offered[r]
                     ELSE (page[t].on \ view.offered[r]) \cup view.required, FALSE)

initDefaultColumns(t) ==
  /\ page[t] # None
  /\ Choose(t, IF view.merges THEN getDefaultColumnVisibility(page[t].seen) ELSE page[t].on \cup view.offered[page[t].seen],
            view.perRole)

\* Somebody logs in, in another tab or after leaving the pages.
Login(r) ==
  /\ r # browser /\ clicks < MaxClicks /\ clicks' = clicks + 1
  /\ browser' = r
  /\ page' = IF Relogins THEN page ELSE [t \in Tabs |-> None]
  /\ UNCHANGED <<view, saved, compact, stored, events, last, own>>

-----------------------------------------------------------------------------
\* The tab in front has handled its events when it is clicked; the others are told.
setCompactMode(t) ==
  /\ page[t] # None /\ events[t] = <<>> /\ clicks < MaxClicks /\ clicks' = clicks + 1
  /\ stored' = ~compact[t] /\ compact' = [compact EXCEPT ![t] = stored']
  /\ events' = [u \in Tabs |-> IF u # t /\ page[u] # None THEN Append(events[u], stored') ELSE events[u]]
  /\ UNCHANGED <<view, browser, saved, page, last, own>>

handleStorage(t) ==
  /\ page[t] # None /\ events[t] # <<>>
  /\ compact' = [compact EXCEPT ![t] = Head(events[t])]
  /\ events' = [events EXCEPT ![t] = Tail(@)]
  /\ UNCHANGED <<view, browser, saved, page, stored, last, own, clicks>>

\* What an earlier version, or an earlier login, has left in the browser.
Init ==
  /\ view \in Views /\ browser \in Roles
  /\ \E s \in {None, [on |-> {}, known |-> {}], Written(view.keys)} : saved = [k \in Keys |-> s]
  /\ page = [t \in Tabs |-> None]
  /\ stored \in BOOLEAN /\ compact = [t \in Tabs |-> stored] /\ events = [t \in Tabs |-> <<>>]
  /\ last = None /\ own = [r \in Roles |-> None] /\ clicks = 0

Next ==
  \/ \E t \in Tabs : Mount(t) \/ initDefaultColumns(t) \/ setCompactMode(t) \/ handleStorage(t)
  \/ \E t \in Tabs, c \in Clicked : handleColumnVisibilityChange(t, c)
  \/ \E t \in Tabs, b \in BOOLEAN : handleSelectAll(t, b)
  \/ \E r \in Roles : Login(r)

Spec == Init /\ [][Next]_vars

-----------------------------------------------------------------------------
Open == {t \in Tabs : page[t] # None}

TypeOK ==
  /\ \A t \in Open : page[t].seen \in Roles /\ page[t].on \subseteq view.keys
  /\ \A k \in Keys : saved[k] # None => saved[k].on \subseteq view.keys
  /\ clicks \in 0..MaxClicks

\* A user's page has no column that only administrators are to see, whatever is saved in the
\* browser and whatever is switched in the dialog.
AdminColumnsHidden == \A t \in Open : page[t].seen = "user" => page[t].on \cap view.admin = {}

\* And where a login under an open page leaves such a column on, its cells stay empty.
AdminCellsBlank == \A t \in Open : page[t].seen = "user" => (page[t].on \ view.blank) \cap view.admin = {}

\* Each role finds its own choices again: nobody else's are written under its key.
RolesKeepTheirs == view.perRole => \A r \in Roles : own[r] # None => (saved[Key(r)] # None /\ saved[Key(r)].on = own[r])

\* Reloading the page that made the last choice shows the same columns.
ReloadKeepsColumns ==
  (last # None /\ page[last] # None) => getInitialVisibleColumns(page[last].seen) = page[last].on

\* The columns without which a table cannot be used are on, also under choices saved by an
\* older version.
RequiredStay == \A t \in Open : view.required \subseteq page[t].on

\* Once the events are handled, all open tabs are in the mode that is stored.
TabsAgree == \A t \in Open : events[t] = <<>> => compact[t] = stored

=============================================================================
