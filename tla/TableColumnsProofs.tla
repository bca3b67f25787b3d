-------------------------- MODULE TableColumnsProofs --------------------------
(***************************************************************************)
(* The columns of the tables, for any number of tabs, any columns that are *)
(* switched and any set of the tables.  Every choice is written down with  *)
(* all columns of the table known to it, so what is restored is what was   *)
(* chosen (RestoresWritten); the rest follows from whose key is written.   *)
(* Then the dialog that creates a deployment.                              *)
(***************************************************************************)
EXTENDS TableColumns, SequenceTheorems, FiniteSetTheorems, TLAPS

\* The tables are those of the console; a saved choice is not the absence of one.
ColumnsAssumption ==
  /\ Views \subseteq AllViews
  /\ MaxClicks \in Nat
  /\ \A on, known : [on |-> on, known |-> known] # None

-----------------------------------------------------------------------------
(* What the tables have in common.                                         *)

GoodView(v) ==
  /\ v.required \subseteq v.keys /\ v.required \cap v.admin = {}
  /\ v.offered["user"] \subseteq v.keys /\ v.offered["admin"] \subseteq v.keys
  /\ v.merges \in BOOLEAN /\ v.perRole \in BOOLEAN
  /\ v.perRole => v.merges
  /\ v.merges => v.required = {}
  /\ ~v.merges => v.admin = {} /\ "provider" \in v.keys

\* The dialog does not offer a user the columns of administrators.
HidesAdmin(v) == v.offered["user"] \cap v.admin = {}

\* The fields of a table.
IsView(v, keys, admin, user, required, merges, perRole) ==
  /\ v.keys = keys /\ v.admin = admin /\ v.required = required
  /\ v.offered["user"] = user /\ v.offered["admin"] \subseteq keys
  /\ v.merges = merges /\ v.perRole = perRole

LEMMA LogViewIs ==
  ASSUME NEW keys, NEW admin, NEW hidden, NEW blank
  PROVE  IsView(LogView(keys, admin, hidden, blank), keys, admin, keys \ hidden, {}, TRUE, TRUE)
  BY DEF LogView, Roles, IsView

LEMMA UsageView == GoodView(useUsageLogsData) /\ HidesAdmin(useUsageLogsData)
  <1> DEFINE A == {"channel", "username", "retry"}
  <1>1. IsView(useUsageLogsData, UsageLogsColumns, A, UsageLogsColumns \ A, {}, TRUE, TRUE)
    BY LogViewIs DEF useUsageLogsData, UsageLogsSelector
  <1> HIDE DEF A
  <1> QED BY <1>1 DEF IsView, GoodView, HidesAdmin

LEMMA MjView == GoodView(useMjLogsData) /\ HidesAdmin(useMjLogsData)
  <1> DEFINE A == {"channel", "submit_result"}
  <1>1. IsView(useMjLogsData, MjLogsColumns, A, MjLogsColumns \ A, {}, TRUE, TRUE)
    BY LogViewIs DEF useMjLogsData, MjLogsSelector
  <1> HIDE DEF A
  <1> QED BY <1>1 DEF IsView, GoodView, HidesAdmin

LEMMA TaskView == GoodView(useTaskLogsData)
  BY DEF useTaskLogsData, LogView, GoodView, Roles, TaskLogsSelector

LEMMA ChannelsView == GoodView(useChannelsData) /\ HidesAdmin(useChannelsData)
  BY DEF useChannelsData, LogView, GoodView, HidesAdmin, Roles, ChannelsSelector

LEMMA DeploymentsView == GoodView(useDeploymentsData) /\ HidesAdmin(useDeploymentsData)
  BY DEF useDeploymentsData, LogView, GoodView, HidesAdmin, Roles, DeploymentsSelector, DeploymentsColumns

LEMMA TheViews ==
  /\ \A v \in AllViews : GoodView(v)
  /\ \A v \in AllViews \ {useTaskLogsData} : HidesAdmin(v)
  BY UsageView, MjView, TaskView, ChannelsView, DeploymentsView DEF AllViews

-----------------------------------------------------------------------------
(* The invariant.                                                          *)

Types ==
  /\ view \in Views /\ browser \in Roles
  /\ saved \in [Keys -> {None} \cup [on : SUBSET view.keys, known : SUBSET view.keys]]
  /\ page \in [Tabs -> {None} \cup [seen : Roles, on : SUBSET view.keys]]
  /\ own \in [Roles -> {None} \cup SUBSET view.keys]
  /\ last \in Tabs \cup {None}
  /\ clicks \in 0..MaxClicks

Modes ==
  /\ stored \in BOOLEAN
  /\ compact \in [Tabs -> BOOLEAN]
  /\ events \in [Tabs -> Seq(BOOLEAN)]

\* The last event a tab has not handled tells the mode that is stored.
Told ==
  \A t \in Open : IF events[t] = <<>> THEN compact[t] = stored
                  ELSE events[t][Len(events[t])] = stored

\* The page of a tab was rendered by the role that is logged in.
SameRole == \A t \in Open : page[t].seen = browser

\* What a choice turns on: columns of the table, the required ones among them, and for a user
\* none of the administrators' unless one was on.
GoodChoice(t, on) ==
  /\ t \in Tabs /\ page[t] # None
  /\ on \in SUBSET view.keys /\ view.required \subseteq on
  /\ (HidesAdmin(view) /\ page[t].seen = "user" /\ page[t].on \cap view.admin = {}) => on \cap view.admin = {}

\* The actions that choose columns.
Chooses(t) ==
  \/ initDefaultColumns(t)
  \/ \E c \in Clicked : handleColumnVisibilityChange(t, c)
  \/ \E b \in BOOLEAN : handleSelectAll(t, b)

LEMMA ViewIsGood ==
  ASSUME ColumnsAssumption, Types
  PROVE  GoodView(view)
  BY TheViews DEF ColumnsAssumption, Types

LEMMA PageFields ==
  ASSUME Types, NEW t \in Tabs, page[t] # None
  PROVE  page[t].seen \in Roles /\ page[t].on \in SUBSET view.keys
  BY DEF Types

\* Every choice is a good one.
LEMMA ChoicesAreGood ==
  ASSUME ColumnsAssumption, Types, RequiredStay, NEW t \in Tabs, Chooses(t)
  PROVE  \E on \in SUBSET view.keys : \E b \in BOOLEAN : GoodChoice(t, on) /\ Choose(t, on, b)
  <1>1. GoodView(view)
    BY ViewIsGood
  <1>2. page[t] # None
    BY DEF Chooses, initDefaultColumns, handleColumnVisibilityChange, handleSelectAll
  <1>3. PICK r, now : r = page[t].seen /\ now = page[t].on
    OBVIOUS
  <1>4. /\ r \in Roles /\ now \in SUBSET view.keys
        /\ view.required \subseteq now
    BY <1>2, <1>3, PageFields DEF RequiredStay, Open
  <1>5. view.offered[r] \subseteq view.keys
    BY <1>1, <1>4 DEF GoodView, Roles
  <1>6. CASE initDefaultColumns(t)
    <2> DEFINE on == IF view.merges THEN getDefaultColumnVisibility(r) ELSE now \cup view.offered[r]
    <2>1. Choose(t, on, view.perRole)
      BY <1>6, <1>3 DEF initDefaultColumns
    <2>2. on \in SUBSET view.keys /\ view.required \subseteq on
      BY <1>1, <1>4, <1>5 DEF GoodView, getDefaultColumnVisibility
    <2>3. r = "user" => (on \cap view.admin = {} \/ ~HidesAdmin(view))
      BY <1>1 DEF GoodView, getDefaultColumnVisibility, HidesAdmin
    <2>4. GoodChoice(t, on)
      BY <1>2, <1>3, <2>2, <2>3 DEF GoodChoice
    <2>5. view.perRole \in BOOLEAN
      BY <1>1 DEF GoodView
    <2> HIDE DEF on
    <2> QED BY <2>1, <2>2, <2>4, <2>5
  <1>7. CASE \E c \in Clicked : handleColumnVisibilityChange(t, c)
    <2>1. PICK c \in Clicked : handleColumnVisibilityChange(t, c)
      BY <1>7
    <2> DEFINE on == IF c \in now THEN now \ {c} ELSE now \cup {c}
    <2>2. Choose(t, on, FALSE) /\ c \in view.offered[r] /\ c \notin view.required
      BY <2>1, <1>3 DEF handleColumnVisibilityChange
    <2>3. on \in SUBSET view.keys /\ view.required \subseteq on
      BY <1>4, <1>5, <2>2
    <2>4. (HidesAdmin(view) /\ r = "user" /\ now \cap view.admin = {}) => on \cap view.admin = {}
      BY <2>2 DEF HidesAdmin
    <2>5. GoodChoice(t, on)
      BY <1>2, <1>3, <2>3, <2>4 DEF GoodChoice
    <2> HIDE DEF on
    <2> QED BY <2>2, <2>3, <2>5
  <1>8. CASE \E b \in BOOLEAN : handleSelectAll(t, b)
    <2>1. PICK b \in BOOLEAN : handleSelectAll(t, b)
      BY <1>8
    <2> DEFINE mine == IF r = "user" THEN view.keys \ view.admin ELSE view.keys
               on == IF view.merges THEN (IF b THEN mine ELSE {})
                     ELSE IF b THEN now \cup view.offered[r]
                     ELSE (now \ view.offered[r]) \cup view.required
    <2>2. Choose(t, on, FALSE)
      BY <2>1, <1>3 DEF handleSelectAll
    <2>3. on \in SUBSET view.keys /\ view.required \subseteq on
      BY <1>1, <1>4, <1>5 DEF GoodView
    <2>4. r = "user" => on \cap view.admin = {}
      BY <1>1 DEF GoodView
    <2>5. GoodChoice(t, on)
      BY <1>2, <1>3, <2>3, <2>4 DEF GoodChoice
    <2> HIDE DEF on
    <2> QED BY <2>2, <2>3, <2>5
  <1> QED BY <1>6, <1>7, <1>8 DEF Chooses

-----------------------------------------------------------------------------
(* What is restored.                                                       *)

\* What a page shows when it is opened: columns of the table, the required ones among them,
\* and for a user none of the administrators'.
Opens(r, on) ==
  /\ on \in SUBSET view.keys /\ view.required \subseteq on
  /\ r = "user" => on \cap view.admin = {}

LEMMA RestoredIsGood ==
  ASSUME ColumnsAssumption, Types, NEW r \in Roles,
         NEW s \in [on : SUBSET view.keys, known : SUBSET view.keys]
  PROVE  Opens(r, Restored(s, r))
  <1>1. GoodView(view)
    BY ViewIsGood
  <1>2. PICK on \in SUBSET view.keys, known \in SUBSET view.keys : s.on = on /\ s.known = known
    OBVIOUS
  <1>3. getDefaultColumnVisibility(r) \in SUBSET view.keys
    BY DEF getDefaultColumnVisibility
  <1> QED BY <1>1, <1>2, <1>3 DEF Restored, Opens, GoodView

LEMMA InitialIsGood ==
  ASSUME ColumnsAssumption, Types, NEW r \in Roles
  PROVE  Opens(r, getInitialVisibleColumns(r))
  <1>1. GoodView(view)
    BY ViewIsGood
  <1>2. Key(r) \in Keys
    BY DEF Key, Keys
  <1>3. CASE saved[Key(r)] = None
    <2>1. getInitialVisibleColumns(r) = getDefaultColumnVisibility(r)
      BY <1>3 DEF getInitialVisibleColumns
    <2>2. Opens(r, getDefaultColumnVisibility(r))
      BY <1>1 DEF Opens, getDefaultColumnVisibility, GoodView
    <2> QED BY <2>1, <2>2
  <1>4. CASE saved[Key(r)] # None
    <2>1. PICK s : s = saved[Key(r)]
      OBVIOUS
    <2>2. s \in [on : SUBSET view.keys, known : SUBSET view.keys]
      BY <1>2, <1>4, <2>1 DEF Types
    <2>3. getInitialVisibleColumns(r) = Restored(s, r)
      BY <1>4, <2>1 DEF getInitialVisibleColumns
    <2>4. Opens(r, Restored(s, r))
      BY <2>2, RestoredIsGood
    <2> QED BY <2>3, <2>4
  <1> QED BY <1>3, <1>4

\* What was written down is what is restored.
LEMMA RestoresWritten ==
  ASSUME ColumnsAssumption, Types, NEW r \in Roles, NEW on, Opens(r, on)
  PROVE  Restored(Written(on), r) = on
  <1>1. GoodView(view)
    BY ViewIsGood
  <1>2. Written(on).on = on /\ Written(on).known = view.keys
    BY DEF Written
  <1>3. getDefaultColumnVisibility(r) \ view.keys = {}
    BY DEF getDefaultColumnVisibility
  <1>4. ~view.merges => {"provider"} \ view.keys = {}
    BY <1>1 DEF GoodView
  <1>5. PICK s : s = Written(on)
    OBVIOUS
  <1>6. s.on \cup (getDefaultColumnVisibility(r) \ s.known) = on
    BY <1>2, <1>3, <1>5
  <1>7. ~view.merges => s.on \cup ({"provider"} \ s.known) = on
    BY <1>2, <1>4, <1>5
  <1>8. Restored(s, r) = view.required \cup (IF r = "user" THEN on \ view.admin ELSE on)
    BY <1>6, <1>7 DEF Restored
  <1>9. view.required \cup (IF r = "user" THEN on \ view.admin ELSE on) = on
    BY DEF Opens
  <1> QED BY <1>5, <1>8, <1>9

LEMMA WrittenIs ==
  ASSUME NEW on \in SUBSET view.keys
  PROVE  Written(on) \in [on : SUBSET view.keys, known : SUBSET view.keys]
  BY DEF Written

-----------------------------------------------------------------------------
(* Whoever logs in, and wherever.                                          *)

Tables == Types /\ RequiredStay
Shared == Modes /\ Told

LEMMA MountKeepsTables ==
  ASSUME ColumnsAssumption, Tables, NEW t \in Tabs, Mount(t)
  PROVE  Tables'
  <1> USE DEF Tables
  <1>1. PICK on : on = getInitialVisibleColumns(browser)
    OBVIOUS
  <1>2. browser \in Roles
    BY DEF Types
  <1>3. on \in SUBSET view.keys /\ view.required \subseteq on
    BY <1>1, <1>2, InitialIsGood DEF Opens
  <1>4. /\ page' = [page EXCEPT ![t] = [seen |-> browser, on |-> on]]
        /\ saved' = IF view.merges THEN [saved EXCEPT ![Key(browser)] = Written(on)] ELSE saved
        /\ last' = t
        /\ own' = [own EXCEPT ![browser] = on]
        /\ view' = view /\ browser' = browser /\ clicks' = clicks
    BY <1>1 DEF Mount
  <1>5. PICK w : w = Written(on)
    OBVIOUS
  <1>6. w \in [on : SUBSET view.keys, known : SUBSET view.keys]
    BY <1>3, <1>5, WrittenIs
  <1>7. saved' \in [Keys -> {None} \cup [on : SUBSET view.keys, known : SUBSET view.keys]]
    BY <1>4, <1>5, <1>6 DEF Types
  <1>8. page' \in [Tabs -> {None} \cup [seen : Roles, on : SUBSET view.keys]]
    BY <1>2, <1>3, <1>4 DEF Types
  <1>9. own' \in [Roles -> {None} \cup SUBSET view.keys]
    BY <1>3, <1>4 DEF Types
  <1>10. Types'
    BY <1>4, <1>7, <1>8, <1>9 DEF Types
  <1>11. \A u \in Tabs : page'[u] # None => view.required \subseteq page'[u].on
    <2> TAKE u \in Tabs
    <2>1. CASE u = t
      BY <2>1, <1>3, <1>4 DEF Types
    <2>2. CASE u # t
      BY <2>2, <1>4 DEF Types, RequiredStay, Open
    <2> QED BY <2>1, <2>2
  <1>12. RequiredStay'
    BY <1>4, <1>11 DEF RequiredStay, Open
  <1> QED BY <1>10, <1>12

LEMMA ChooseKeepsTables ==
  ASSUME ColumnsAssumption, Tables, NEW t \in Tabs, NEW on, NEW b \in BOOLEAN,
         GoodChoice(t, on), Choose(t, on, b)
  PROVE  Tables'
  <1> USE DEF Tables
  <1>1. browser \in Roles
    BY DEF Types
  <1>2. on \in SUBSET view.keys /\ view.required \subseteq on /\ page[t] # None
    BY DEF GoodChoice
  <1>3. PICK w, r : w = Written(on) /\ r = page[t].seen
    OBVIOUS
  <1>4. w \in [on : SUBSET view.keys, known : SUBSET view.keys]
    BY <1>2, <1>3, WrittenIs
  <1>5. r \in Roles
    BY <1>2, <1>3, PageFields
  <1>6. /\ page' = [page EXCEPT ![t] = [seen |-> browser, on |-> on]]
        /\ saved' = [(IF b THEN [saved EXCEPT ![Key(r)] = w] ELSE saved) EXCEPT ![Key(browser)] = w]
        /\ last' = t
        /\ own' = [own EXCEPT ![r] = on]
        /\ view' = view /\ browser' = browser
        /\ clicks < MaxClicks /\ clicks' = clicks + 1
    BY <1>3 DEF Choose
  <1>7. saved' \in [Keys -> {None} \cup [on : SUBSET view.keys, known : SUBSET view.keys]]
    BY <1>4, <1>6 DEF Types
  <1>8. page' \in [Tabs -> {None} \cup [seen : Roles, on : SUBSET view.keys]]
    BY <1>1, <1>2, <1>6 DEF Types
  <1>9. own' \in [Roles -> {None} \cup SUBSET view.keys]
    BY <1>2, <1>6 DEF Types
  <1>10. clicks' \in 0..MaxClicks
    BY <1>6 DEF Types, ColumnsAssumption
  <1>11. Types'
    BY <1>6, <1>7, <1>8, <1>9, <1>10 DEF Types
  <1>12. \A u \in Tabs : page'[u] # None => view.required \subseteq page'[u].on
    <2> TAKE u \in Tabs
    <2>1. CASE u = t
      BY <2>1, <1>2, <1>6 DEF Types
    <2>2. CASE u # t
      BY <2>2, <1>6 DEF Types, RequiredStay, Open
    <2> QED BY <2>1, <2>2
  <1>13. RequiredStay'
    BY <1>6, <1>12 DEF RequiredStay, Open
  <1> QED BY <1>11, <1>13

LEMMA LoginKeepsTables ==
  ASSUME ColumnsAssumption, Tables, NEW r \in Roles, Login(r)
  PROVE  Tables'
  <1> USE DEF Tables
  <1>1. /\ browser' = r
        /\ page' = page \/ page' = [t \in Tabs |-> None]
        /\ view' = view /\ saved' = saved /\ last' = last /\ own' = own
        /\ clicks < MaxClicks /\ clicks' = clicks + 1
    BY DEF Login
  <1>2. clicks' \in 0..MaxClicks
    BY <1>1 DEF Types, ColumnsAssumption
  <1>3. page' \in [Tabs -> {None} \cup [seen : Roles, on : SUBSET view.keys]]
    BY <1>1 DEF Types
  <1>4. Types'
    BY <1>1, <1>2, <1>3 DEF Types
  <1>5. \A t \in Tabs : page'[t] # None => page'[t] = page[t]
    BY <1>1
  <1>6. RequiredStay'
    BY <1>1, <1>5 DEF RequiredStay, Open
  <1> QED BY <1>4, <1>6

\* The compact mode has nothing to do with the columns.
LEMMA ModeKeepsTables ==
  ASSUME ColumnsAssumption, Tables, NEW t \in Tabs, setCompactMode(t) \/ handleStorage(t)
  PROVE  Tables'
  <1> USE DEF Tables
  <1>1. /\ view' = view /\ browser' = browser /\ saved' = saved /\ page' = page
        /\ last' = last /\ own' = own
        /\ clicks' = clicks \/ (clicks < MaxClicks /\ clicks' = clicks + 1)
    BY DEF setCompactMode, handleStorage
  <1>2. clicks' \in 0..MaxClicks
    BY <1>1 DEF Types, ColumnsAssumption
  <1>3. Types'
    BY <1>1, <1>2 DEF Types
  <1>4. RequiredStay'
    BY <1>1 DEF RequiredStay, Open
  <1> QED BY <1>3, <1>4

LEMMA StutterKeepsTables ==
  ASSUME Tables, UNCHANGED vars
  PROVE  Tables'
  <1>1. /\ view' = view /\ browser' = browser /\ saved' = saved /\ page' = page
        /\ last' = last /\ own' = own /\ clicks' = clicks
    BY DEF vars
  <1>2. Types'
    BY <1>1 DEF Tables, Types
  <1>3. RequiredStay'
    BY <1>1 DEF Tables, RequiredStay, Open
  <1> QED BY <1>2, <1>3 DEF Tables

-----------------------------------------------------------------------------
(* The compact mode of the tabs.                                           *)

\* A tab that is not open, or that knows the mode, or will be told it.
Knows(p, e, c, m) == p # None => IF e = <<>> THEN c = m ELSE e[Len(e)] = m

LEMMA ToldIs ==
  /\ Told <=> \A t \in Tabs : Knows(page[t], events[t], compact[t], stored)
  /\ Told' <=> \A t \in Tabs : Knows(page'[t], events'[t], compact'[t], stored')
  BY DEF Told, Knows, Open

LEMMA MountKeepsShared ==
  ASSUME Tables, Shared, NEW t \in Tabs, Mount(t)
  PROVE  Shared'
  <1> USE DEF Shared
  <1>1. PICK p : page' = [page EXCEPT ![t] = p]
    BY DEF Mount
  <1>2. /\ compact' = [compact EXCEPT ![t] = stored]
        /\ events' = [events EXCEPT ![t] = <<>>]
        /\ stored' = stored
    BY DEF Mount
  <1>3. Modes'
    BY <1>2 DEF Modes
  <1>4. \A u \in Tabs : Knows(page'[u], events'[u], compact'[u], stored')
    <2> TAKE u \in Tabs
    <2>1. CASE u = t
      BY <2>1, <1>2 DEF Modes, Knows
    <2>2. CASE u # t
      <3>1. Knows(page[u], events[u], compact[u], stored)
        BY ToldIs
      <3>2. page'[u] = page[u] /\ events'[u] = events[u] /\ compact'[u] = compact[u]
        BY <2>2, <1>1, <1>2 DEF Tables, Types, Modes
      <3> QED BY <3>1, <3>2, <1>2
    <2> QED BY <2>1, <2>2
  <1>5. Told'
    BY <1>4, ToldIs
  <1> QED BY <1>3, <1>5

\* A tab stays, or is closed.
LEMMA ColumnsKeepShared ==
  ASSUME Shared,
         UNCHANGED <<compact, stored, events>>,
         \A t \in Tabs : page'[t] # None => page[t] # None
  PROVE  Shared'
  <1>1. Modes'
    BY DEF Shared, Modes
  <1>2. \A t \in Tabs : Knows(page'[t], events'[t], compact'[t], stored')
    BY ToldIs DEF Shared, Knows
  <1>3. Told'
    BY <1>2, ToldIs
  <1> QED BY <1>1, <1>3 DEF Shared

LEMMA SwitchKeepsShared ==
  ASSUME Shared, NEW t \in Tabs, setCompactMode(t)
  PROVE  Shared'
  <1> USE DEF Shared
  <1>1. PICK m \in BOOLEAN : m = ~compact[t]
    BY DEF Modes
  <1>2. /\ stored' = m
        /\ compact' = [compact EXCEPT ![t] = m]
        /\ events' = [u \in Tabs |-> IF u # t /\ page[u] # None THEN Append(events[u], m) ELSE events[u]]
        /\ events[t] = <<>> /\ page' = page
    BY <1>1 DEF setCompactMode
  <1>3. compact' \in [Tabs -> BOOLEAN]
    BY <1>1, <1>2 DEF Modes
  <1>4. \A u \in Tabs : events'[u] \in Seq(BOOLEAN)
    <2> TAKE u \in Tabs
    <2>1. events[u] \in Seq(BOOLEAN)
      BY DEF Modes
    <2>2. Append(events[u], m) \in Seq(BOOLEAN)
      BY <1>1, <2>1, AppendProperties
    <2> QED BY <1>2, <2>1, <2>2
  <1>5. events' \in [Tabs -> Seq(BOOLEAN)]
    BY <1>2, <1>4
  <1>6. Modes'
    BY <1>1, <1>2, <1>3, <1>5 DEF Modes
  <1>7. \A u \in Tabs : Knows(page'[u], events'[u], compact'[u], stored')
    <2> TAKE u \in Tabs
    <2>1. CASE u = t
      BY <2>1, <1>2 DEF Modes, Knows
    <2>2. CASE u # t /\ page[u] = None
      BY <2>2, <1>2 DEF Knows
    <2>3. CASE u # t /\ page[u] # None
      <3>1. PICK e \in Seq(BOOLEAN) : e = events[u]
        BY DEF Modes
      <3>2. events'[u] = Append(e, m)
        BY <2>3, <3>1, <1>2
      <3>3. Append(e, m) # <<>> /\ Append(e, m)[Len(Append(e, m))] = m
        BY <1>1, <3>1
      <3> QED BY <3>2, <3>3, <1>2 DEF Knows
    <2> QED BY <2>1, <2>2, <2>3
  <1>8. Told'
    BY <1>7, ToldIs
  <1> QED BY <1>6, <1>8

LEMMA StorageKeepsShared ==
  ASSUME Shared, NEW t \in Tabs, handleStorage(t)
  PROVE  Shared'
  <1> USE DEF Shared
  <1>1. PICK e \in Seq(BOOLEAN) : e = events[t]
    BY DEF Modes
  <1>2. /\ e # <<>> /\ page[t] # None
        /\ compact' = [compact EXCEPT ![t] = Head(e)]
        /\ events' = [events EXCEPT ![t] = Tail(e)]
        /\ stored' = stored /\ page' = page
    BY <1>1 DEF handleStorage
  <1>3. Head(e) \in BOOLEAN /\ Tail(e) \in Seq(BOOLEAN)
    BY <1>2, HeadTailProperties
  <1>4. Modes'
    BY <1>2, <1>3 DEF Modes
  <1>5. e[Len(e)] = stored
    BY <1>1, <1>2, ToldIs DEF Knows
  <1>6. IF Tail(e) = <<>> THEN Head(e) = e[Len(e)] ELSE Tail(e)[Len(Tail(e))] = e[Len(e)]
    <2>1. PICK f \in Seq(BOOLEAN) : f = Tail(e)
      BY <1>3
    <2>2. /\ Head(e) = e[1]
          /\ Len(f) = Len(e) - 1
          /\ \A i \in 1..Len(f) : f[i] = e[i + 1]
      BY <1>2, <2>1, HeadTailProperties
    <2>3. Len(e) \in Nat /\ Len(f) \in Nat
      BY <2>1, LenProperties
    <2>4. CASE f = <<>>
      <3>1. Len(f) = 0
        BY <2>4, EmptySeq
      <3>2. Len(e) = 1
        BY <2>2, <2>3, <3>1
      <3> QED BY <2>1, <2>2, <2>4, <3>2
    <2>5. CASE f # <<>>
      <3>1. Len(f) # 0
        BY <2>5, EmptySeq
      <3>2. PICK k \in Nat : k = Len(f)
        BY <2>3
      <3>3. k \in 1..Len(f) /\ k + 1 = Len(e)
        BY <2>2, <2>3, <3>1, <3>2
      <3>4. f[k] = e[k + 1]
        BY <2>2, <3>3
      <3>5. f[Len(f)] = e[Len(e)]
        BY <3>2, <3>3, <3>4
      <3> QED BY <2>1, <2>5, <3>5
    <2> QED BY <2>4, <2>5
  <1>7. \A u \in Tabs : Knows(page'[u], events'[u], compact'[u], stored')
    <2> TAKE u \in Tabs
    <2>1. CASE u = t
      <3>1. events'[u] = Tail(e) /\ compact'[u] = Head(e)
        BY <2>1, <1>2 DEF Modes
      <3> QED BY <3>1, <1>2, <1>5, <1>6 DEF Knows
    <2>2. CASE u # t
      <3>1. Knows(page[u], events[u], compact[u], stored)
        BY ToldIs
      <3>2. events'[u] = events[u] /\ compact'[u] = compact[u]
        BY <2>2, <1>2 DEF Modes
      <3> QED BY <3>1, <3>2, <1>2
    <2> QED BY <2>1, <2>2
  <1>8. Told'
    BY <1>7, ToldIs
  <1> QED BY <1>4, <1>8

-----------------------------------------------------------------------------
(* Steps and initial states.                                               *)

\* Every step opens a page, chooses columns, logs somebody in or is about the compact mode.
LEMMA Steps ==
  ASSUME ColumnsAssumption, Tables, [Next]_vars
  PROVE  \/ UNCHANGED vars
         \/ \E t \in Tabs : Mount(t)
         \/ \E t \in Tabs : \E on \in SUBSET view.keys : \E b \in BOOLEAN : GoodChoice(t, on) /\ Choose(t, on, b)
         \/ \E r \in Roles : Login(r)
         \/ \E t \in Tabs : setCompactMode(t) \/ handleStorage(t)
  <1>1. CASE \E t \in Tabs : Chooses(t)
    BY <1>1, ChoicesAreGood DEF Tables
  <1>2. CASE \A t \in Tabs : ~Chooses(t)
    BY <1>2 DEF Next, Chooses
  <1> QED BY <1>1, <1>2

LEMMA InitTables ==
  ASSUME ColumnsAssumption, Init
  PROVE  Tables
  <1>1. view \in Views /\ browser \in Roles
    BY DEF Init
  <1>2. PICK s : s \in {None, [on |-> {}, known |-> {}], Written(view.keys)} /\ saved = [k \in Keys |-> s]
    BY DEF Init
  <1>3. s \in {None} \cup [on : SUBSET view.keys, known : SUBSET view.keys]
    BY <1>2 DEF Written
  <1>4. saved \in [Keys -> {None} \cup [on : SUBSET view.keys, known : SUBSET view.keys]]
    BY <1>2, <1>3
  <1>5. page = [t \in Tabs |-> None] /\ own = [r \in Roles |-> None] /\ last = None /\ clicks = 0
    BY DEF Init
  <1>6. clicks \in 0..MaxClicks
    BY <1>5 DEF ColumnsAssumption
  <1>7. Types
    BY <1>1, <1>4, <1>5, <1>6 DEF Types
  <1>8. RequiredStay
    BY <1>5 DEF RequiredStay, Open
  <1> QED BY <1>7, <1>8 DEF Tables

LEMMA InitShared ==
  ASSUME Init
  PROVE  Shared
  <1>1. /\ stored \in BOOLEAN /\ compact = [t \in Tabs |-> stored]
        /\ events = [t \in Tabs |-> <<>>] /\ page = [t \in Tabs |-> None]
    BY DEF Init
  <1>2. Modes
    BY <1>1 DEF Modes
  <1>3. Told
    BY <1>1 DEF Told, Open
  <1> QED BY <1>2, <1>3 DEF Shared

LEMMA StepTables ==
  ASSUME ColumnsAssumption, Tables, [Next]_vars
  PROVE  Tables'
  <1>1. Types /\ RequiredStay
    BY DEF Tables
  <1>2. UNCHANGED vars => Tables'
    BY StutterKeepsTables
  <1>3. \A t \in Tabs : Mount(t) => Tables'
    BY MountKeepsTables
  <1>4. \A t \in Tabs, on \in SUBSET view.keys, b \in BOOLEAN : GoodChoice(t, on) /\ Choose(t, on, b) => Tables'
    BY ChooseKeepsTables
  <1>5. \A r \in Roles : Login(r) => Tables'
    BY LoginKeepsTables
  <1>6. \A t \in Tabs : setCompactMode(t) \/ handleStorage(t) => Tables'
    BY ModeKeepsTables
  <1> QED BY <1>1, <1>2, <1>3, <1>4, <1>5, <1>6, Steps

LEMMA StepShared ==
  ASSUME ColumnsAssumption, Tables, Shared, [Next]_vars
  PROVE  Shared'
  <1>1. Types /\ RequiredStay
    BY DEF Tables
  <1>2. UNCHANGED vars => Shared'
    BY ColumnsKeepShared DEF vars
  <1>3. \A t \in Tabs : Mount(t) => Shared'
    BY MountKeepsShared
  <1>4. \A t \in Tabs, on \in SUBSET view.keys, b \in BOOLEAN : GoodChoice(t, on) /\ Choose(t, on, b) => Shared'
    <2> SUFFICES ASSUME NEW t \in Tabs, NEW on, NEW b, GoodChoice(t, on), Choose(t, on, b)
                 PROVE  Shared'
      OBVIOUS
    <2>1. PICK p : page' = [page EXCEPT ![t] = p]
      BY DEF Choose
    <2>2. \A u \in Tabs : page'[u] # None => page[u] # None
      BY <1>1, <2>1 DEF GoodChoice, Types
    <2> QED BY <2>2, ColumnsKeepShared DEF Choose
  <1>5. \A r \in Roles : Login(r) => Shared'
    BY ColumnsKeepShared DEF Login
  <1>6. \A t \in Tabs : setCompactMode(t) \/ handleStorage(t) => Shared'
    BY SwitchKeepsShared, StorageKeepsShared
  <1> QED BY <1>1, <1>2, <1>3, <1>4, <1>5, <1>6, Steps

-----------------------------------------------------------------------------
(* Where the pages are left before somebody else logs in.                  *)

Mine == SameRole /\ RolesKeepTheirs

\* The choices of a role under its key.
Keeps(mine, s) == mine # None => (s # None /\ s.on = mine)

LEMMA RolesAre ==
  /\ RolesKeepTheirs <=> (view.perRole => \A r \in Roles : Keeps(own[r], saved[Key(r)]))
  /\ view' = view => (RolesKeepTheirs' <=> (view.perRole => \A r \in Roles : Keeps(own'[r], saved'[Key(r)])))
  BY DEF RolesKeepTheirs, Keeps, Key

\* A choice of the role logged in goes under its own key.
LEMMA WritingKeeps ==
  ASSUME ColumnsAssumption, Types, RolesKeepTheirs, NEW on \in SUBSET view.keys,
         view' = view,
         own' = [own EXCEPT ![browser] = on],
         view.perRole => saved' = [saved EXCEPT ![Key(browser)] = Written(on)]
  PROVE  RolesKeepTheirs'
  <1>1. ASSUME view.perRole, NEW r \in Roles
        PROVE  Keeps(own'[r], saved'[Key(r)])
    <2>1. Key(r) = r /\ Key(browser) = browser /\ r \in Keys /\ browser \in Roles
      BY <1>1 DEF Key, Keys, Types
    <2>2. CASE r = browser
      <3>1. own'[r] = on /\ saved'[r] = Written(on)
        BY <1>1, <2>1, <2>2 DEF Types
      <3>2. Written(on) # None /\ Written(on).on = on
        BY DEF Written, ColumnsAssumption
      <3> QED BY <2>1, <3>1, <3>2 DEF Keeps
    <2>3. CASE r # browser
      <3>1. own'[r] = own[r] /\ saved'[r] = saved[r]
        BY <1>1, <2>1, <2>3 DEF Types
      <3>2. Keeps(own[r], saved[Key(r)])
        BY <1>1, RolesAre
      <3> QED BY <2>1, <3>1, <3>2
    <2> QED BY <2>2, <2>3
  <1> QED BY <1>1, RolesAre

LEMMA MountKeepsMine ==
  ASSUME ColumnsAssumption, Tables, Mine, NEW t \in Tabs, Mount(t)
  PROVE  Mine'
  <1>1. Types /\ SameRole /\ RolesKeepTheirs
    BY DEF Tables, Mine
  <1>2. PICK on : on = getInitialVisibleColumns(browser)
    OBVIOUS
  <1>3. on \in SUBSET view.keys
    BY <1>1, <1>2, InitialIsGood DEF Opens, Types
  <1>4. /\ page' = [page EXCEPT ![t] = [seen |-> browser, on |-> on]]
        /\ saved' = IF view.merges THEN [saved EXCEPT ![Key(browser)] = Written(on)] ELSE saved
        /\ own' = [own EXCEPT ![browser] = on]
        /\ view' = view /\ browser' = browser
    BY <1>2 DEF Mount
  <1>5. view.perRole => view.merges
    BY <1>1, ViewIsGood DEF GoodView
  <1>6. RolesKeepTheirs'
    BY <1>1, <1>3, <1>4, <1>5, WritingKeeps
  <1>7. \A u \in Tabs : page'[u] # None => page'[u].seen = browser
    BY <1>1, <1>4 DEF SameRole, Open, Types
  <1>8. SameRole'
    BY <1>4, <1>7 DEF SameRole, Open
  <1> QED BY <1>6, <1>8 DEF Mine

\* Every choice is made by the role whose page it is, and only its key is written.
LEMMA ChoiceIsMine ==
  ASSUME Types, SameRole, NEW t \in Tabs, NEW on, NEW b \in BOOLEAN,
         GoodChoice(t, on), Choose(t, on, b)
  PROVE  /\ page' = [page EXCEPT ![t] = [seen |-> browser, on |-> on]]
         /\ saved' = [saved EXCEPT ![Key(browser)] = Written(on)]
         /\ own' = [own EXCEPT ![browser] = on]
         /\ last' = t
         /\ view' = view /\ browser' = browser
  <1>1. page[t].seen = browser
    BY DEF SameRole, Open, GoodChoice
  <1>2. PICK w, k : w = Written(on) /\ k = Key(browser)
    OBVIOUS
  <1>3. saved' = [(IF b THEN [saved EXCEPT ![k] = w] ELSE saved) EXCEPT ![k] = w]
    BY <1>1, <1>2 DEF Choose
  <1>4. [[saved EXCEPT ![k] = w] EXCEPT ![k] = w] = [saved EXCEPT ![k] = w]
    BY DEF Types
  <1>5. saved' = [saved EXCEPT ![Key(browser)] = Written(on)]
    BY <1>2, <1>3, <1>4
  <1> QED BY <1>1, <1>5 DEF Choose

LEMMA ChooseKeepsMine ==
  ASSUME ColumnsAssumption, Tables, Mine, NEW t \in Tabs, NEW on, NEW b \in BOOLEAN,
         GoodChoice(t, on), Choose(t, on, b)
  PROVE  Mine'
  <1>1. Types /\ SameRole /\ RolesKeepTheirs
    BY DEF Tables, Mine
  <1>2. on \in SUBSET view.keys
    BY DEF GoodChoice
  <1>3. /\ page' = [page EXCEPT ![t] = [seen |-> browser, on |-> on]]
        /\ saved' = [saved EXCEPT ![Key(browser)] = Written(on)]
        /\ own' = [own EXCEPT ![browser] = on]
        /\ view' = view /\ browser' = browser
    BY <1>1, ChoiceIsMine
  <1>4. RolesKeepTheirs'
    BY <1>1, <1>2, <1>3, WritingKeeps
  <1>5. \A u \in Tabs : page'[u] # None => page'[u].seen = browser
    BY <1>1, <1>3 DEF SameRole, Open, Types
  <1>6. SameRole'
    BY <1>3, <1>5 DEF SameRole, Open
  <1> QED BY <1>4, <1>6 DEF Mine

LEMMA RestKeepsMine ==
  ASSUME Relogins = FALSE, Mine,
         \/ UNCHANGED vars
         \/ \E r \in Roles : Login(r)
         \/ \E t \in Tabs : setCompactMode(t) \/ handleStorage(t)
  PROVE  Mine'
  <1>1. view' = view /\ saved' = saved /\ own' = own
    BY DEF vars, Login, setCompactMode, handleStorage
  <1>2. RolesKeepTheirs'
    BY <1>1 DEF Mine, RolesKeepTheirs, Key
  <1>3. (page' = page /\ browser' = browser) \/ page' = [t \in Tabs |-> None]
    BY DEF vars, Login, setCompactMode, handleStorage
  <1>4. SameRole'
    BY <1>3 DEF Mine, SameRole, Open
  <1> QED BY <1>2, <1>4 DEF Mine

LEMMA StepMine ==
  ASSUME ColumnsAssumption, Relogins = FALSE, Tables, Mine, [Next]_vars
  PROVE  Mine'
  BY Steps, MountKeepsMine, ChooseKeepsMine, RestKeepsMine

LEMMA InitMine ==
  ASSUME Init
  PROVE  Mine
  <1>1. page = [t \in Tabs |-> None] /\ own = [r \in Roles |-> None]
    BY DEF Init
  <1> QED BY <1>1 DEF Mine, SameRole, RolesKeepTheirs, Open

-----------------------------------------------------------------------------
(* And where the dialog offers a user nothing of the administrators'.      *)

Chosen == AdminColumnsHidden /\ ReloadKeepsColumns

LEMMA RestoredSame ==
  ASSUME view' = view, NEW s, NEW r
  PROVE  Restored(s, r)' = Restored(s, r) /\ Key(r)' = Key(r)
  BY DEF Restored, getDefaultColumnVisibility, Key

\* What the page shows that was last chosen on is written down, or is what was restored.
LEMMA ShowingKeeps ==
  ASSUME ColumnsAssumption, Types, Chosen, NEW t \in Tabs, NEW on, Opens(browser, on),
         page' = [page EXCEPT ![t] = [seen |-> browser, on |-> on]],
         \/ saved' = [saved EXCEPT ![Key(browser)] = Written(on)]
         \/ saved' = saved /\ on = getInitialVisibleColumns(browser),
         last' = t, view' = view, browser' = browser
  PROVE  Chosen'
  <1>1. page'[t].seen = browser /\ page'[t].on = on /\ browser \in Roles
    BY DEF Types
  <1>2. \A u \in Tabs : page'[u] # None => (page'[u].seen = "user" => page'[u].on \cap view.admin = {})
    <2> TAKE u \in Tabs
    <2>1. CASE u = t
      BY <2>1, <1>1 DEF Opens
    <2>2. CASE u # t
      BY <2>2 DEF Chosen, AdminColumnsHidden, Open, Types
    <2> QED BY <2>1, <2>2
  <1>3. AdminColumnsHidden'
    BY <1>2 DEF AdminColumnsHidden, Open
  <1>4. getInitialVisibleColumns(browser)' = on
    <2>1. PICK r, k, w : r = browser /\ k = Key(browser) /\ w = Written(on)
      OBVIOUS
    <2>2. r \in Roles /\ k \in Keys
      BY <1>1, <2>1 DEF Key, Keys
    <2>3. CASE saved' = [saved EXCEPT ![Key(browser)] = Written(on)]
      <3>1. saved'[k] = w
        BY <2>1, <2>2, <2>3 DEF Types
      <3>2. w # None
        BY <2>1 DEF Written, ColumnsAssumption
      <3>3. Restored(w, r) = on
        BY <1>1, <2>1, RestoresWritten
      <3>4. Restored(w, r)' = on /\ Key(r)' = k
        BY <2>1, <3>3, RestoredSame
      <3>5. getInitialVisibleColumns(r)' = Restored(w, r)'
        BY <3>1, <3>2, <3>4 DEF getInitialVisibleColumns
      <3> QED BY <2>1, <3>4, <3>5
    <2>4. CASE saved' = saved /\ on = getInitialVisibleColumns(browser)
      <3>1. getInitialVisibleColumns(browser)' = getInitialVisibleColumns(browser)
        BY <2>4 DEF getInitialVisibleColumns, Key, Restored, getDefaultColumnVisibility
      <3> QED BY <2>4, <3>1
    <2> QED BY <2>3, <2>4
  <1>5. ReloadKeepsColumns'
    BY <1>1, <1>4 DEF ReloadKeepsColumns
  <1> QED BY <1>3, <1>5 DEF Chosen

LEMMA MountKeepsChosen ==
  ASSUME ColumnsAssumption, Tables, Chosen, NEW t \in Tabs, Mount(t)
  PROVE  Chosen'
  <1>1. Types
    BY DEF Tables
  <1>2. PICK on : on = getInitialVisibleColumns(browser)
    OBVIOUS
  <1>3. Opens(browser, on)
    BY <1>1, <1>2, InitialIsGood DEF Types
  <1>4. /\ page' = [page EXCEPT ![t] = [seen |-> browser, on |-> on]]
        /\ \/ saved' = [saved EXCEPT ![Key(browser)] = Written(on)]
           \/ saved' = saved /\ on = getInitialVisibleColumns(browser)
        /\ last' = t /\ view' = view /\ browser' = browser
    BY <1>2 DEF Mount
  <1> QED BY <1>1, <1>3, <1>4, ShowingKeeps

LEMMA ChooseKeepsChosen ==
  ASSUME ColumnsAssumption, useTaskLogsData \notin Views, Tables, Mine, Chosen,
         NEW t \in Tabs, NEW on, NEW b \in BOOLEAN, GoodChoice(t, on), Choose(t, on, b)
  PROVE  Chosen'
  <1>1. Types /\ SameRole
    BY DEF Tables, Mine
  <1>2. HidesAdmin(view)
    BY <1>1, TheViews DEF Types, ColumnsAssumption
  <1>3. page[t].seen = browser /\ (browser = "user" => page[t].on \cap view.admin = {})
    BY <1>1 DEF GoodChoice, SameRole, Open, Chosen, AdminColumnsHidden
  <1>4. Opens(browser, on)
    BY <1>2, <1>3 DEF Opens, GoodChoice
  <1>5. /\ page' = [page EXCEPT ![t] = [seen |-> browser, on |-> on]]
        /\ saved' = [saved EXCEPT ![Key(browser)] = Written(on)]
        /\ last' = t /\ view' = view /\ browser' = browser
    BY <1>1, ChoiceIsMine
  <1> QED BY <1>1, <1>4, <1>5, ShowingKeeps

LEMMA RestKeepsChosen ==
  ASSUME Relogins = FALSE, Types, Chosen,
         \/ UNCHANGED vars
         \/ \E r \in Roles : Login(r)
         \/ \E t \in Tabs : setCompactMode(t) \/ handleStorage(t)
  PROVE  Chosen'
  <1>1. view' = view /\ saved' = saved /\ last' = last
    BY DEF vars, Login, setCompactMode, handleStorage
  <1>2. page' = page \/ page' = [t \in Tabs |-> None]
    BY DEF vars, Login, setCompactMode, handleStorage
  <1>3. AdminColumnsHidden'
    BY <1>1, <1>2 DEF Chosen, AdminColumnsHidden, Open
  <1>4. ReloadKeepsColumns'
    <2>1. CASE page' = page
      BY <1>1, <2>1 DEF Chosen, ReloadKeepsColumns, getInitialVisibleColumns, Key, Restored,
                        getDefaultColumnVisibility
    <2>2. CASE page' = [t \in Tabs |-> None]
      BY <1>1, <2>2 DEF ReloadKeepsColumns, Types
    <2> QED BY <1>2, <2>1, <2>2
  <1> QED BY <1>3, <1>4 DEF Chosen

LEMMA StepChosen ==
  ASSUME ColumnsAssumption, Relogins = FALSE, useTaskLogsData \notin Views,
         Tables, Mine, Chosen, [Next]_vars
  PROVE  Chosen'
  <1>1. Types
    BY DEF Tables
  <1> QED BY <1>1, Steps, MountKeepsChosen, ChooseKeepsChosen, RestKeepsChosen

LEMMA InitChosen ==
  ASSUME Init
  PROVE  Chosen
  <1>1. page = [t \in Tabs |-> None] /\ last = None
    BY DEF Init
  <1> QED BY <1>1 DEF Chosen, AdminColumnsHidden, ReloadKeepsColumns, Open

-----------------------------------------------------------------------------
(* The theorems.                                                           *)

\* The two parts that hold whoever logs in while the pages are open.
THEOREM ColumnsInvariant ==
  ASSUME ColumnsAssumption
  PROVE  Spec => [](Tables /\ Shared)
  <1>1. Init => Tables /\ Shared
    BY InitTables, InitShared
  <1>2. Tables /\ Shared /\ [Next]_vars => (Tables /\ Shared)'
    BY StepTables, StepShared
  <1> QED BY <1>1, <1>2, PTL DEF Spec

\* Type correctness: pages and saved choices hold columns of the table, and roles.
THEOREM ColumnsTypes ==
  ASSUME ColumnsAssumption
  PROVE  Spec => []TypeOK
  <1>1. Tables => TypeOK
    BY DEF Tables, Types, TypeOK, Open
  <1> QED BY <1>1, ColumnsInvariant, PTL

\* The deployments table never loses its name and its actions, whatever was saved by an older
\* version and whatever is switched: restoring, "select all" and reset put them back
\* (useDeploymentsData), in any number of tabs and under any logins.
THEOREM RequiredColumnsStay ==
  ASSUME ColumnsAssumption
  PROVE  Spec => []RequiredStay
  <1>1. Tables => RequiredStay
    BY DEF Tables
  <1> QED BY <1>1, ColumnsInvariant, PTL

\* A tab that has handled its storage events is in the mode the browser stores, with any
\* number of tabs switching it (useTableCompactMode): the last event a tab has not handled
\* tells the mode that is stored.
THEOREM TabsAgreeOnMode ==
  ASSUME ColumnsAssumption
  PROVE  Spec => []TabsAgree
  <1>1. Shared => TabsAgree
    BY DEF Shared, Told, TabsAgree
  <1> QED BY <1>1, ColumnsInvariant, PTL

LEMMA MineInvariant ==
  ASSUME ColumnsAssumption, Relogins = FALSE
  PROVE  Spec => [](Tables /\ Mine)
  <1>1. Init => Tables /\ Mine
    BY InitTables, InitMine
  <1>2. Tables /\ Mine /\ [Next]_vars => (Tables /\ Mine)'
    BY StepTables, StepMine
  <1> QED BY <1>1, <1>2, PTL DEF Spec

\* Where pages are left before somebody else logs in, each role finds under its key what it
\* chose last, however the two take turns in the browser.
THEOREM RolesFindTheirs ==
  ASSUME ColumnsAssumption, Relogins = FALSE
  PROVE  Spec => []RolesKeepTheirs
  <1>1. Mine => RolesKeepTheirs
    BY DEF Mine
  <1> QED BY <1>1, MineInvariant, PTL

LEMMA ChosenInvariant ==
  ASSUME ColumnsAssumption, Relogins = FALSE, useTaskLogsData \notin Views
  PROVE  Spec => [](Tables /\ Mine /\ Chosen)
  <1>1. Init => Tables /\ Mine /\ Chosen
    BY InitTables, InitMine, InitChosen
  <1>2. Tables /\ Mine /\ Chosen /\ [Next]_vars => (Tables /\ Mine /\ Chosen)'
    BY StepTables, StepMine, StepChosen
  <1> QED BY <1>1, <1>2, PTL DEF Spec

\* And, but for the task log, whose dialog offers a user a column of the administrators, no
\* sequence of choices, logins and reloads shows a user one of their columns.
THEOREM UsersSeeNoAdminColumns ==
  ASSUME ColumnsAssumption, Relogins = FALSE, useTaskLogsData \notin Views
  PROVE  Spec => []AdminColumnsHidden
  <1>1. Chosen => AdminColumnsHidden
    BY DEF Chosen
  <1> QED BY <1>1, ChosenInvariant, PTL

\* Nor does reloading the page of the last choice change what it shows: what is written down
\* is what is restored, over the defaults of the role and without the administrators' columns.
THEOREM ReloadShowsTheChoice ==
  ASSUME ColumnsAssumption, Relogins = FALSE, useTaskLogsData \notin Views
  PROVE  Spec => []ReloadKeepsColumns
  <1>1. Chosen => ReloadKeepsColumns
    BY DEF Chosen
  <1> QED BY <1>1, ChosenInvariant, PTL

\* The cells that the column definitions leave empty for a user are those of every column that
\* the role's defaults leave out.
LEMMA BlankForUsers == \A v \in AllViews : v.admin \subseteq v.blank
  <1>1. useUsageLogsData.admin \subseteq useUsageLogsData.blank
    BY DEF useUsageLogsData, LogView
  <1>2. useMjLogsData.admin \subseteq useMjLogsData.blank
    BY DEF useMjLogsData, LogView
  <1>3. useTaskLogsData.admin \subseteq useTaskLogsData.blank
    BY DEF useTaskLogsData, LogView
  <1>4. useChannelsData.admin = {} /\ useDeploymentsData.admin = {}
    BY DEF useChannelsData, useDeploymentsData, LogView
  <1> QED BY <1>1, <1>2, <1>3, <1>4 DEF AllViews

\* A login in another tab may leave a column of the administrators on under an open page, and
\* the dialog of the task log may turn one on: in every table its cells stay empty for a user.
THEOREM AdminCellsStayBlank ==
  ASSUME ColumnsAssumption
  PROVE  Spec => []AdminCellsBlank
  <1>1. Tables => AdminCellsBlank
    BY BlankForUsers DEF Tables, Types, ColumnsAssumption, AdminCellsBlank
  <1> QED BY <1>1, ColumnsInvariant, PTL

-----------------------------------------------------------------------------
(* The dialog that creates a deployment, for any hardware and places and   *)
(* any amounts typed.  The request for places that counts belongs to the   *)
(* chosen hardware (Places), the effects keep the form at the choices and  *)
(* the choices within the places (Choosing), and the last estimate under   *)
(* way is for the choices (Estimating).                                    *)

CONSTANTS Hardware, Avail, Counts, Vars, Uses, Faults, InOrder, MaxOpens, MaxChanges

VARIABLES visible, known, hardwareCalls, sel, form, locations, loadingReplicas, replicaRequestId,
          replicaCalls, price, priceCalls, imageMode, lists, custom, sending, left, opens, changes

Deploy == INSTANCE CreateDeployment

\* The hardware has finitely many locations with a number of replicas each; the generated key
\* is not typed.
DeployAssumption ==
  /\ None \notin Hardware
  /\ \A h \in Hardware : /\ Avail[h] # None
                         /\ IsFiniteSet(DOMAIN Avail[h])
                         /\ \A l \in DOMAIN Avail[h] : Avail[h][l] \in Nat
  /\ Counts \subseteq Nat
  /\ "auto" \notin Vars

AllPlaces == UNION {DOMAIN Avail[h] : h \in Hardware}
Texts == Deploy!TypedImages \cup {Deploy!BUILTIN_IMAGE}
Rows == SUBSET (Vars \cup {"auto"})

Selections == [hw : Hardware \cup {None}, locs : SUBSET AllPlaces, reps : Nat, hours : Nat,
               cur : {"usdc", "iocoin"}]
Forms == [hw : Hardware \cup {None}, locs : SUBSET AllPlaces, reps : Nat, hours : Nat,
          image : Texts, port : Nat]
Lists == [env : Rows, secret : Rows, entrypoint : Rows, args : Rows]
Customs == [env : Rows, secret : SUBSET Vars, image : Texts, port : Nat]

DialogTypes ==
  /\ visible \in BOOLEAN /\ known \in BOOLEAN /\ loadingReplicas \in BOOLEAN
  /\ sel \in Selections /\ form \in Forms
  /\ replicaRequestId \in Nat /\ opens \in Nat /\ changes \in Nat
  /\ replicaCalls \subseteq [id : Nat, hw : Hardware]
  /\ priceCalls \in Seq({s \in Selections : Deploy!Ready(s)})
  /\ imageMode \in {"builtin", "custom"}
  /\ lists \in Lists /\ custom \in Customs /\ left \in Customs

\* The requests for places: each has a number of its own, given before, and the one whose answer
\* counts is for the hardware that is chosen and has not been answered.
Places ==
  /\ \A c \in replicaCalls : c.id > 0 /\ c.id < Deploy!Now
  /\ \A c, e \in replicaCalls : c.id = e.id => c = e
  /\ \A c \in replicaCalls : Deploy!IsCurrent(c) => sel.hw = c.hw /\ locations = None
  /\ locations # None => sel.hw # None /\ locations = Avail[sel.hw]
  /\ loadingReplicas => \E c \in replicaCalls : Deploy!IsCurrent(c)

\* The form holds the choices, and they fit the places.
Fits(s, ls) ==
  /\ ls = None \/ s.hw = None => s.locs = {}
  /\ ls # None => s.locs \subseteq {l \in DOMAIN ls : ls[l] > 0}
  /\ Deploy!maxAvailableReplicas(s, ls) > 0 => s.reps <= Deploy!maxAvailableReplicas(s, ls)

Choosing ==
  /\ form.hw = sel.hw /\ form.locs = sel.locs /\ form.reps = sel.reps /\ form.hours = sel.hours
  /\ Fits(sel, locations)

\* The last estimate under way, or the one shown, is for complete choices.
Estimating ==
  Deploy!Ready(sel) =>
    /\ priceCalls # <<>> => priceCalls[Len(priceCalls)] = sel
    /\ priceCalls = <<>> /\ price # None => price = sel

\* The custom image's settings wait while the built-in one is chosen.
Keeping ==
  /\ imageMode = "builtin" => custom = left
  /\ imageMode = "custom" => form.image = custom.image /\ "auto" \notin lists.secret

DeployInv == DialogTypes /\ Places /\ Choosing /\ Keeping

-----------------------------------------------------------------------------
(* The choices and their renderings.                                       *)

Known(ls) == ls = None \/ \E h \in Hardware : ls = Avail[h]

\* The dialog counts as the theorems on finite sets do.
LEMMA SameCount == ASSUME NEW S PROVE Deploy!Cardinality(S) = Cardinality(S)
  BY DEF Deploy!Cardinality, Cardinality

\* The replicas of locations are a number, positive if each of some locations has one.
LEMMA Replicas ==
  ASSUME DeployAssumption, NEW s, NEW ls, Known(ls), ls # None => s.locs \subseteq DOMAIN ls
  PROVE  /\ Deploy!maxAvailableReplicas(s, ls) \in Nat
         /\ ls # None /\ s.locs # {} /\ (\A l \in s.locs : ls[l] > 0) =>
              Deploy!maxAvailableReplicas(s, ls) > 0
<1>1. CASE ls = None
  BY <1>1 DEF Deploy!maxAvailableReplicas
<1>2. CASE ls # None
  <2> DEFINE part(l) == {l} \X (1..ls[l])
             parts == {part(l) : l \in s.locs}
             f == [l \in s.locs |-> part(l)]
  <2>1. s.locs \subseteq DOMAIN ls /\ IsFiniteSet(DOMAIN ls) /\ \A l \in DOMAIN ls : ls[l] \in Nat
    BY <1>2 DEF Known, DeployAssumption
  <2>2. IsFiniteSet(s.locs)
    BY <2>1, FS_Subset
  <2>3. f \in Surjection(s.locs, parts)
    BY DEF Surjection
  <2>4. IsFiniteSet(parts)
    BY <2>2, <2>3, FS_Surjection
  <2>5. ASSUME NEW l \in s.locs  PROVE IsFiniteSet(part(l))
    <3>1. PICK n \in Int : n = ls[l]
      BY <2>1
    <3>2. IsFiniteSet(1..n)
      BY FS_Interval
    <3>3. IsFiniteSet({l})
      BY FS_Singleton
    <3>4. IsFiniteSet({l} \X (1..n))
      BY <3>2, <3>3, FS_Product
    <3> QED
      BY <3>1, <3>4
  <2>6. \A T \in parts : IsFiniteSet(T)
    BY <2>5
  <2>7. IsFiniteSet(UNION parts)
    BY <2>4, <2>6, FS_UNION
  <2>8. Deploy!maxAvailableReplicas(s, ls) = Cardinality(UNION parts)
    BY <1>2, SameCount DEF Deploy!maxAvailableReplicas
  <2>9. Cardinality(UNION parts) \in Nat
    BY <2>7, FS_CardinalityType
  <2>10. ASSUME NEW l \in s.locs, ls[l] > 0  PROVE UNION parts # {}
    <3>1. <<l, 1>> \in part(l)
      BY <2>1, <2>10
    <3>2. part(l) \in parts
      OBVIOUS
    <3> QED
      BY <3>1, <3>2
  <2>11. UNION parts # {} => Cardinality(UNION parts) # 0
    BY <2>7, FS_EmptySet
  <2> QED
    BY <2>8, <2>9, <2>10, <2>11
<1> QED
  BY <1>1, <1>2

\* What the effects make of the choices s.
LEMMA Effects ==
  ASSUME DeployAssumption, NEW s \in Selections, NEW ls, Known(ls),
         ls # None => s.locs \subseteq DOMAIN ls
  PROVE  /\ Deploy!Offered(s, ls) \in Selections
         /\ Deploy!Clamped(Deploy!Offered(s, ls), ls) \in Selections
         /\ Deploy!Clamped(Deploy!Offered(s, ls), ls).hw = s.hw
         /\ Fits(Deploy!Clamped(Deploy!Offered(s, ls), ls), ls)
<1> DEFINE o == Deploy!Offered(s, ls)
           c == Deploy!Clamped(o, ls)
<1>1. /\ o \in Selections /\ o.hw = s.hw /\ o.reps = s.reps
      /\ o.locs = IF s.hw = None \/ ls = None THEN {} ELSE {l \in s.locs : ls[l] > 0}
  BY DEF Deploy!Offered, Selections
<1>2. ls # None => o.locs \subseteq {l \in DOMAIN ls : ls[l] > 0}
  BY <1>1
<1>3. Deploy!maxAvailableReplicas(o, ls) \in Nat
  BY <1>2, Replicas
<1> DEFINE max == Deploy!maxAvailableReplicas(o, ls)
<1>4. c = IF max > 0 /\ o.reps > max THEN [o EXCEPT !.reps = max] ELSE o
  BY DEF Deploy!Clamped
<1> HIDE DEF o, c, max
<1>5. /\ c \in Selections /\ c.hw = o.hw /\ c.locs = o.locs
      /\ c.reps = IF max > 0 /\ o.reps > max THEN max ELSE o.reps
  <2>1. max \in Nat
    BY <1>3 DEF max
  <2> QED
    BY <2>1, <1>1, <1>4 DEF Selections
<1>6. Deploy!maxAvailableReplicas(c, ls) = max
  BY <1>5 DEF Deploy!maxAvailableReplicas, max
<1>7. max > 0 => c.reps <= max
  BY <1>1, <1>3, <1>5 DEF max, Selections
<1>8. Fits(c, ls)
  BY <1>1, <1>2, <1>5, <1>6, <1>7 DEF Fits
<1> QED
  BY <1>1, <1>5, <1>8 DEF o, c

LEMMA Grown ==
  ASSUME NEW S, NEW a \in Seq(S), NEW b \in BOOLEAN, NEW y, b => y \in S,
         NEW z, z = a \o (IF b THEN <<y>> ELSE <<>>)
  PROVE  /\ z \in Seq(S)
         /\ b => z # <<>> /\ z[Len(z)] = y
         /\ ~b => z = a
<1>1. CASE b
  <2>1. z = Append(a, y) /\ y \in S
    BY <1>1
  <2> QED
    BY <1>1, <2>1
<1>2. CASE ~b
  BY <1>2
<1> QED
  BY <1>1, <1>2

\* What follows a choice: the form holds the choices, they fit the places, and if they are
\* complete and changed in any rendering, the last estimate asked for is theirs.
LEMMA Committed ==
  ASSUME DeployAssumption, DialogTypes, NEW s \in Selections, NEW ls, Known(ls),
         ls # None => s.locs \subseteq DOMAIN ls, Deploy!Commit(s, ls)
  PROVE  /\ sel' \in Selections /\ sel'.hw = s.hw /\ locations' = ls
         /\ form' \in Forms /\ form'.image = form.image /\ form'.port = form.port
         /\ Choosing'
         /\ priceCalls' \in Seq({c \in Selections : Deploy!Ready(c)})
         /\ Deploy!Ready(sel') =>
              \/ sel' = sel /\ s = sel /\ priceCalls' = priceCalls /\ price' = price
              \/ priceCalls' # <<>> /\ priceCalls'[Len(priceCalls')] = sel'
<1> DEFINE S == {c \in Selections : Deploy!Ready(c)}
           o == Deploy!Offered(s, ls)
           e == Deploy!Clamped(o, ls)
           two == IF s # sel /\ Deploy!Ready(s) THEN <<s>> ELSE <<>>
           three == IF o # s /\ Deploy!Ready(o) THEN <<o>> ELSE <<>>
           four == IF e # o /\ Deploy!Ready(e) THEN <<e>> ELSE <<>>
<1>1. o \in Selections /\ e \in Selections /\ e.hw = s.hw /\ Fits(e, ls)
  BY Effects
<1>2. /\ sel' = e /\ locations' = ls
      /\ form' = [form EXCEPT !.hw = e.hw, !.locs = e.locs, !.reps = e.reps, !.hours = e.hours]
      /\ priceCalls' = priceCalls \o two \o three \o four
      /\ (s = sel /\ o = s /\ e = o) => price' = price
  <2> DEFINE rs == Deploy!Renders(s, ls)
  <2>1. rs[1] = sel /\ rs[2] = s /\ rs[3] = o /\ rs[4] = e
    BY DEF Deploy!Renders
  <2>2. /\ sel' = rs[4] /\ locations' = ls
        /\ form' = Deploy!Written(rs)
        /\ priceCalls' = priceCalls \o (IF rs[2] # rs[2 - 1] /\ Deploy!Ready(rs[2]) THEN <<rs[2]>> ELSE <<>>)
                                    \o (IF rs[3] # rs[3 - 1] /\ Deploy!Ready(rs[3]) THEN <<rs[3]>> ELSE <<>>)
                                    \o (IF rs[4] # rs[4 - 1] /\ Deploy!Ready(rs[4]) THEN <<rs[4]>> ELSE <<>>)
        /\ price' = IF \E i \in 2..4 : rs[i] # rs[i - 1] /\ ~Deploy!Ready(rs[i]) THEN None ELSE price
    BY DEF Deploy!Commit
  <2>3. 2 - 1 = 1 /\ 3 - 1 = 2 /\ 4 - 1 = 3 /\ \A i \in 2..4 : i = 2 \/ i = 3 \/ i = 4
    OBVIOUS
  <2> HIDE DEF rs, o, e
  <2>4. Deploy!Written(rs) = [form EXCEPT !.hw = e.hw, !.locs = e.locs, !.reps = e.reps, !.hours = e.hours]
    BY <2>1 DEF Deploy!Written
  <2>5. (s = sel /\ o = s /\ e = o) => \A i \in 2..4 : rs[i] = rs[i - 1]
    BY <2>1, <2>3
  <2> QED
    BY <2>1, <2>2, <2>3, <2>4, <2>5
<1> HIDE DEF o, e
<1>3. form \in Forms /\ priceCalls \in Seq(S)
  BY DEF DialogTypes
<1>4. /\ form' \in Forms /\ form'.image = form.image /\ form'.port = form.port
      /\ form'.hw = e.hw /\ form'.locs = e.locs /\ form'.reps = e.reps /\ form'.hours = e.hours
  BY <1>1, <1>2, <1>3 DEF Forms, Selections
<1>5. Choosing'
  BY <1>1, <1>2, <1>4 DEF Choosing, Fits, Deploy!maxAvailableReplicas
<1> DEFINE p2 == priceCalls \o two
           p3 == p2 \o three
           p4 == p3 \o four
<1> HIDE DEF S
<1>6. p2 \in Seq(S) /\ (Deploy!Ready(s) => (p2 = priceCalls /\ s = sel) \/ (p2 # <<>> /\ p2[Len(p2)] = s))
  <2>1. (s # sel /\ Deploy!Ready(s)) \in BOOLEAN /\ ((s # sel /\ Deploy!Ready(s)) => s \in S)
    BY DEF S, Deploy!Ready
  <2> QED
    BY <1>3, <2>1, Grown
<1> HIDE DEF p2
<1>7. p3 \in Seq(S) /\ (Deploy!Ready(o) => (p3 = p2 /\ o = s) \/ (p3 # <<>> /\ p3[Len(p3)] = o))
  <2>1. (o # s /\ Deploy!Ready(o)) \in BOOLEAN /\ ((o # s /\ Deploy!Ready(o)) => o \in S)
    BY <1>1 DEF S, Deploy!Ready
  <2> QED
    BY <1>6, <2>1, Grown
<1> HIDE DEF p3
<1>8. p4 \in Seq(S) /\ (Deploy!Ready(e) => (p4 = p3 /\ e = o) \/ (p4 # <<>> /\ p4[Len(p4)] = e))
  <2>1. (e # o /\ Deploy!Ready(e)) \in BOOLEAN /\ ((e # o /\ Deploy!Ready(e)) => e \in S)
    BY <1>1 DEF S, Deploy!Ready
  <2> QED
    BY <1>7, <2>1, Grown
<1> HIDE DEF p4
<1>9. priceCalls' = p4
  BY <1>2 DEF p2, p3, p4
<1> QED
  BY <1>1, <1>2, <1>4, <1>5, <1>6, <1>7, <1>8, <1>9 DEF S

-----------------------------------------------------------------------------
(* The invariant and its steps.                                            *)

\* A place that fits is known.
LEMMA ChosenPlaces ==
  ASSUME DeployAssumption, DialogTypes, Places, Choosing
  PROVE  /\ Known(locations)
         /\ locations # None => sel.locs \subseteq DOMAIN locations
  BY DEF DialogTypes, Places, Choosing, Fits, Known, Selections

LEMMA Defaults ==
  /\ Deploy!Nothing \in Selections /\ Deploy!formDefaults \in Forms
  /\ Deploy!NoLists \in Lists /\ Deploy!NoCustom \in Customs
<1>1. Deploy!Nothing \in Selections /\ Deploy!formDefaults \in Forms
  BY DEF Deploy!Nothing, Deploy!formDefaults, Selections, Forms, Texts, Deploy!BUILTIN_IMAGE,
     Deploy!DEFAULT_TRAFFIC_PORT
<1>2. Deploy!NoLists \in Lists /\ Deploy!NoCustom \in Customs
  BY DEF Deploy!NoLists, Deploy!NoCustom, Lists, Customs, Rows, Texts, Deploy!TypedImages,
     Deploy!DEFAULT_TRAFFIC_PORT
<1> QED
  BY <1>1, <1>2

LEMMA DeployInit == ASSUME DeployAssumption PROVE Deploy!Init => DeployInv
<1> SUFFICES ASSUME Deploy!Init PROVE DeployInv
  OBVIOUS
<1>1. DialogTypes
  <2>1. <<>> \in Seq({s \in Selections : Deploy!Ready(s)})
    OBVIOUS
  <2> QED
    BY <2>1, Defaults DEF Deploy!Init, DialogTypes
<1>2. Places
  BY DEF Deploy!Init, Places
<1>3. Choosing
  BY DEF Deploy!Init, Choosing, Fits, Deploy!Nothing, Deploy!formDefaults, Deploy!maxAvailableReplicas
<1>4. Keeping
  BY DEF Deploy!Init, Keeping
<1> QED
  BY <1>1, <1>2, <1>3, <1>4 DEF DeployInv

\* The dialog is shown again: no answer about places counts any more.
LEMMA OpenKeeps == ASSUME DeployAssumption, DeployInv, Deploy!open PROVE DeployInv'
<1>1. DialogTypes'
  <2>1. sel' \in Selections /\ form' \in Forms
    BY Defaults DEF Deploy!open
  <2>2. lists' \in Lists /\ custom' \in Customs /\ left' \in Customs
    BY Defaults DEF Deploy!open
  <2>3. replicaCalls' \subseteq [id : Nat, hw : Hardware]
    <3>1. Deploy!Now \in Nat
      BY DEF DeployInv, DialogTypes, Deploy!Now
    <3>2. sel.hw # None => sel.hw \in Hardware
      BY DEF DeployInv, DialogTypes, Selections
    <3> QED
      BY <3>1, <3>2 DEF Deploy!open, DeployInv, DialogTypes
  <2>4. priceCalls' \in Seq({s \in Selections : Deploy!Ready(s)})
    <3> DEFINE S == {s \in Selections : Deploy!Ready(s)}
    <3>1. sel \in Selections /\ priceCalls \in Seq(S)
      BY DEF DeployInv, DialogTypes
    <3>2. Deploy!Ready(sel) => sel \in S
      BY <3>1
    <3> HIDE DEF S
    <3>3. priceCalls' \in Seq(S)
      BY <3>1, <3>2 DEF Deploy!open
    <3> QED
      BY <3>3 DEF S
  <2>5. /\ visible' \in BOOLEAN /\ known' \in BOOLEAN /\ loadingReplicas' \in BOOLEAN
        /\ replicaRequestId' \in Nat /\ opens' \in Nat /\ changes' \in Nat
        /\ imageMode' \in {"builtin", "custom"}
    <3>1. /\ visible' = TRUE /\ known' = known /\ loadingReplicas' = FALSE /\ replicaRequestId' = 0
          /\ opens' = opens + 1 /\ changes' = changes /\ imageMode' = "builtin"
      BY Zenon DEF Deploy!open
    <3>2. known \in BOOLEAN /\ opens \in Nat /\ changes \in Nat
      BY Zenon DEF DeployInv, DialogTypes
    <3>3. visible' \in BOOLEAN /\ known' \in BOOLEAN /\ loadingReplicas' \in BOOLEAN
      BY <3>1, <3>2, Zenon
    <3>4. opens + 1 \in Nat
      BY <3>2
    <3> QED
      BY <3>1, <3>2, <3>3, <3>4, Zenon
  <2> QED
    BY <2>1, <2>2, <2>3, <2>4, <2>5 DEF DialogTypes
<1>2. Places'
  <2>1. /\ replicaRequestId' = 0 /\ locations' = None /\ loadingReplicas' = FALSE
        /\ Deploy!Now' = Deploy!Now + 1 /\ Deploy!Now \in Nat /\ Deploy!Now > 0
    BY DEF Deploy!open, DeployInv, DialogTypes, Deploy!Now
  <2>2. \A c \in replicaCalls' : c \in replicaCalls \/ c = [id |-> Deploy!Now, hw |-> sel.hw]
    BY DEF Deploy!open
  <2>3. \A c \in replicaCalls : c.id \in Nat /\ c.id > 0 /\ c.id < Deploy!Now
    BY DEF DeployInv, DialogTypes, Places
  <2>4. \A c \in replicaCalls' : c.id > 0 /\ c.id < Deploy!Now'
    BY <2>1, <2>2, <2>3
  <2>5. \A c, e \in replicaCalls' : c.id = e.id => c = e
    BY <2>1, <2>2, <2>3 DEF DeployInv, Places
  <2> QED
    BY <2>1, <2>4, <2>5 DEF Places, Deploy!IsCurrent
<1>3. Choosing'
  BY DEF Deploy!open, Choosing, Fits, Deploy!Nothing, Deploy!formDefaults, Deploy!maxAvailableReplicas
<1>4. Keeping'
  BY DEF Deploy!open, Keeping
<1> QED
  BY <1>1, <1>2, <1>3, <1>4 DEF DeployInv

\* The places of the former hardware are given up and those of the new one asked for.
LEMMA HardwareKeeps ==
  ASSUME DeployAssumption, DeployInv, NEW h \in Hardware, Deploy!selectHardware(h)
  PROVE  DeployInv'
<1> DEFINE s == [sel EXCEPT !.hw = h, !.locs = {}]
<1>1. s \in Selections /\ s.hw = h
  BY DEF DeployInv, DialogTypes, Selections
<1>2. Deploy!Commit(s, None)
  BY DEF Deploy!selectHardware
<1> HIDE DEF s
<1>3. /\ sel' \in Selections /\ sel'.hw = h /\ locations' = None
      /\ form' \in Forms /\ form'.image = form.image
      /\ Choosing'
      /\ priceCalls' \in Seq({c \in Selections : Deploy!Ready(c)})
  BY <1>1, <1>2, Committed DEF Known, DeployInv
<1>4. /\ Deploy!Now' = Deploy!Now + 1 /\ Deploy!Now \in Nat /\ Deploy!Now > 0
      /\ replicaRequestId' = Deploy!Now /\ replicaCalls' = replicaCalls \cup {[id |-> Deploy!Now, hw |-> h]}
      /\ changes' \in Nat /\ UNCHANGED <<visible, known, opens, imageMode, lists, custom, left>>
      /\ loadingReplicas' = TRUE
  BY DEF Deploy!selectHardware, Deploy!Change, DeployInv, DialogTypes, Deploy!Now, Deploy!imageVars
<1>5. DialogTypes'
  BY <1>3, <1>4 DEF DeployInv, DialogTypes
<1>6. Places'
  <2>1. \A c \in replicaCalls : c.id \in Nat /\ c.id > 0 /\ c.id < Deploy!Now
    BY DEF DeployInv, DialogTypes, Places
  <2>2. \A c \in replicaCalls' : c.id > 0 /\ c.id < Deploy!Now'
    BY <1>4, <2>1
  <2>3. \A c, e \in replicaCalls' : c.id = e.id => c = e
    BY <1>4, <2>1 DEF DeployInv, Places
  <2>4. \A c \in replicaCalls' : c.id = Deploy!Now => c.hw = h
    BY <1>4, <2>1
  <2>5. \E c \in replicaCalls' : c.id = Deploy!Now
    <3>1. [id |-> Deploy!Now, hw |-> h] \in replicaCalls' /\ [id |-> Deploy!Now, hw |-> h].id = Deploy!Now
      BY <1>4
    <3> QED
      BY <3>1
  <2> QED
    BY <1>3, <1>4, <2>2, <2>3, <2>4, <2>5 DEF Places, Deploy!IsCurrent
<1>7. Keeping'
  BY <1>3, <1>4 DEF DeployInv, Keeping
<1> QED
  BY <1>3, <1>5, <1>6, <1>7 DEF DeployInv

\* Another choice for the same hardware.
LEMMA ChosenKeeps ==
  ASSUME DeployAssumption, DeployInv, NEW s \in Selections, s.hw = sel.hw,
         locations # None => s.locs \subseteq DOMAIN locations, Deploy!Chosen(s)
  PROVE  DeployInv'
<1>1. Deploy!Commit(s, locations)
  BY DEF Deploy!Chosen
<1>2. Known(locations)
  BY ChosenPlaces DEF DeployInv
<1>3. /\ sel' \in Selections /\ sel'.hw = sel.hw /\ locations' = locations
      /\ form' \in Forms /\ form'.image = form.image
      /\ Choosing'
      /\ priceCalls' \in Seq({c \in Selections : Deploy!Ready(c)})
  BY <1>1, <1>2, Committed DEF DeployInv
<1>4. /\ Deploy!Now' = Deploy!Now + 1 /\ Deploy!Now \in Nat
      /\ changes' \in Nat
      /\ UNCHANGED <<visible, known, opens, imageMode, lists, custom, left, loadingReplicas,
                     replicaRequestId, replicaCalls>>
  BY DEF Deploy!Chosen, Deploy!Change, DeployInv, DialogTypes, Deploy!Now, Deploy!imageVars
<1>5. DialogTypes'
  BY <1>3, <1>4 DEF DeployInv, DialogTypes
<1>6. Places'
  <2>1. \A c \in replicaCalls : c.id \in Nat /\ c.id < Deploy!Now
    BY DEF DeployInv, DialogTypes, Places
  <2>2. \A c \in replicaCalls : c.id < Deploy!Now'
    BY <1>4, <2>1
  <2> QED
    BY <1>3, <1>4, <2>2 DEF DeployInv, Places, Deploy!IsCurrent
<1>7. Keeping'
  BY <1>3, <1>4 DEF DeployInv, Keeping
<1> QED
  BY <1>3, <1>5, <1>6, <1>7 DEF DeployInv

\* The places, the amounts and the currency are chosen for the hardware.
LEMMA PicksKeep ==
  ASSUME DeployAssumption, DeployInv,
         \/ Deploy!selectLocations \/ Deploy!setReplicaCount
         \/ Deploy!setDurationHours \/ Deploy!handleCurrencyChange
  PROVE  DeployInv'
<1>1. sel \in Selections /\ (locations # None => sel.locs \subseteq DOMAIN locations)
  BY ChosenPlaces DEF DeployInv, DialogTypes
<1>2. CASE Deploy!selectLocations
  <2>1. PICK l \in DOMAIN locations :
          Deploy!Chosen([sel EXCEPT !.locs = IF l \in @ THEN @ \ {l} ELSE @ \cup {l}])
    BY <1>2 DEF Deploy!selectLocations
  <2> DEFINE some == IF l \in sel.locs THEN sel.locs \ {l} ELSE sel.locs \cup {l}
             s == [sel EXCEPT !.locs = some]
  <2>2. PICK h \in Hardware : locations = Avail[h]
    BY <1>2, ChosenPlaces DEF Deploy!selectLocations, DeployInv, Known
  <2>3. some \subseteq DOMAIN locations /\ some \subseteq AllPlaces
    BY <1>1, <1>2, <2>2 DEF Deploy!selectLocations, AllPlaces, Selections
  <2> HIDE DEF some
  <2>4. s \in Selections /\ s.hw = sel.hw /\ s.locs = some
    BY <1>1, <2>3 DEF Selections
  <2>5. Deploy!Chosen(s)
    BY <2>1 DEF some
  <2> HIDE DEF s
  <2> QED
    BY <2>3, <2>4, <2>5, ChosenKeeps
<1>3. CASE Deploy!setReplicaCount
  <2>1. PICK n \in Counts : Deploy!Chosen([sel EXCEPT !.reps = n])
    BY <1>3 DEF Deploy!setReplicaCount
  <2>2. n \in Nat
    BY DEF DeployAssumption
  <2>3. LET s == [sel EXCEPT !.reps = n] IN s \in Selections /\ s.hw = sel.hw /\ s.locs = sel.locs
    BY <1>1, <2>2 DEF Selections
  <2> QED
    BY <1>1, <2>1, <2>3, ChosenKeeps
<1>4. CASE Deploy!setDurationHours
  <2>1. PICK n \in Counts : Deploy!Chosen([sel EXCEPT !.hours = n])
    BY <1>4 DEF Deploy!setDurationHours
  <2>2. n \in Nat
    BY DEF DeployAssumption
  <2>3. LET s == [sel EXCEPT !.hours = n] IN s \in Selections /\ s.hw = sel.hw /\ s.locs = sel.locs
    BY <1>1, <2>2 DEF Selections
  <2> QED
    BY <1>1, <2>1, <2>3, ChosenKeeps
<1>5. CASE Deploy!handleCurrencyChange
  <2>1. PICK c \in {"usdc", "iocoin"} : Deploy!Chosen([sel EXCEPT !.cur = c])
    BY <1>5 DEF Deploy!handleCurrencyChange
  <2>2. LET s == [sel EXCEPT !.cur = c] IN s \in Selections /\ s.hw = sel.hw /\ s.locs = sel.locs
    BY <1>1 DEF Selections
  <2> QED
    BY <1>1, <2>1, <2>2, ChosenKeeps
<1> QED
  BY <1>2, <1>3, <1>4, <1>5

\* An answer about places counts if it is to the last request.
LEMMA PlacesKeep ==
  ASSUME DeployAssumption, DeployInv, NEW c \in replicaCalls, NEW ok \in BOOLEAN,
         Deploy!loadAvailableReplicas(c, ok)
  PROVE  DeployInv'
<1>1. /\ replicaCalls' = replicaCalls \ {c}
      /\ loadingReplicas' = (loadingReplicas /\ ~Deploy!IsCurrent(c))
      /\ UNCHANGED <<visible, known, replicaRequestId, opens, changes, imageMode, lists, custom, left>>
  BY DEF Deploy!loadAvailableReplicas, Deploy!imageVars
<1>2. c.hw \in Hardware /\ c.hw # None /\ Avail[c.hw] # None
  BY DEF DeployInv, DialogTypes, DeployAssumption
<1>3. ASSUME Deploy!IsCurrent(c)
      PROVE  /\ sel.hw = c.hw /\ locations = None /\ sel.locs = {}
             /\ \A e \in replicaCalls' : ~Deploy!IsCurrent(e)
  BY <1>1, <1>3 DEF DeployInv, Places, Deploy!IsCurrent, Choosing, Fits
<1>4. ASSUME sel' \in Selections, sel'.hw = sel.hw, form' \in Forms, form'.image = form.image,
             priceCalls' \in Seq({s \in Selections : Deploy!Ready(s)}), Choosing',
             locations' = locations \/ (Deploy!IsCurrent(c) /\ locations' = Avail[c.hw])
      PROVE  DeployInv'
  <2>1. DialogTypes'
    <3>1. loadingReplicas' \in BOOLEAN
      BY <1>1
    <3> QED
      BY <1>1, <1>4, <3>1 DEF DeployInv, DialogTypes
  <2>2. Places'
    <3>1. Deploy!Now' = Deploy!Now
      BY <1>1 DEF Deploy!Now
    <3>2. \A e \in replicaCalls' : e \in replicaCalls /\ (e.id = replicaRequestId => locations' = None)
      BY <1>1, <1>2, <1>3, <1>4 DEF DeployInv, Places, Deploy!IsCurrent
    <3>3. locations' # None => sel'.hw # None /\ locations' = Avail[sel'.hw]
      BY <1>2, <1>3, <1>4 DEF DeployInv, Places
    <3>4. loadingReplicas' => \E e \in replicaCalls' : e.id = replicaRequestId
      BY <1>1 DEF DeployInv, Places, Deploy!IsCurrent
    <3> QED
      BY <1>1, <1>4, <3>1, <3>2, <3>3, <3>4 DEF DeployInv, Places, Deploy!IsCurrent
  <2>3. Keeping'
    BY <1>1, <1>4 DEF DeployInv, Keeping
  <2> QED
    BY <1>4, <2>1, <2>2, <2>3 DEF DeployInv
<1>5. CASE Deploy!IsCurrent(c) /\ ok /\ visible
  <2>1. Deploy!Commit(sel, Avail[c.hw])
    BY <1>5 DEF Deploy!loadAvailableReplicas
  <2>2. sel \in Selections /\ Known(Avail[c.hw]) /\ sel.locs \subseteq DOMAIN Avail[c.hw]
    BY <1>2, <1>3, <1>5 DEF Known, DeployInv, DialogTypes
  <2>3. /\ sel' \in Selections /\ sel'.hw = sel.hw /\ locations' = Avail[c.hw]
        /\ form' \in Forms /\ form'.image = form.image
        /\ priceCalls' \in Seq({s \in Selections : Deploy!Ready(s)}) /\ Choosing'
    BY <2>1, <2>2, Committed DEF DeployInv
  <2> QED
    BY <1>4, <1>5, <2>3
<1>6. CASE ~(Deploy!IsCurrent(c) /\ ok /\ visible)
  <2>1. /\ locations' = IF Deploy!IsCurrent(c) /\ ok THEN Avail[c.hw] ELSE locations
        /\ UNCHANGED <<sel, form, price, priceCalls>>
    BY <1>6 DEF Deploy!loadAvailableReplicas
  <2>2. Choosing'
    <3>1. CASE locations' = locations
      BY <2>1, <3>1 DEF DeployInv, Choosing, Fits, Deploy!maxAvailableReplicas
    <3>2. CASE locations' # locations
      <4>1. Deploy!IsCurrent(c) /\ sel.locs = {} /\ locations' = Avail[c.hw]
        BY <1>3, <2>1, <3>2
      <4>2. Deploy!maxAvailableReplicas(sel', locations') = 0
        <5>1. UNION {{l} \X (1..(locations')[l]) : l \in sel'.locs} = {}
          BY <2>1, <4>1
        <5> QED
          BY <5>1, FS_EmptySet, SameCount DEF Deploy!maxAvailableReplicas
      <4> QED
        BY <2>1, <4>1, <4>2 DEF DeployInv, Choosing, Fits
    <3> QED
      BY <3>1, <3>2
  <2> QED
    BY <1>4, <2>1, <2>2 DEF DeployInv, DialogTypes
<1> QED
  BY <1>5, <1>6

\* An estimate arrives.
LEMMA EstimateKeeps ==
  ASSUME DeployInv, NEW i \in DOMAIN priceCalls, NEW ok \in BOOLEAN, Deploy!calculatePrice(i, ok)
  PROVE  DeployInv'
<1>1. /\ priceCalls' = Deploy!RemoveAt(priceCalls, i)
      /\ UNCHANGED <<visible, known, sel, form, locations, loadingReplicas, replicaRequestId, replicaCalls,
                     imageMode, lists, custom, left, opens, changes>>
  BY DEF Deploy!calculatePrice, Deploy!imageVars
<1>2. priceCalls' \in Seq({s \in Selections : Deploy!Ready(s)})
  <2>1. PICK S : S = {s \in Selections : Deploy!Ready(s)}
    OBVIOUS
  <2>2. priceCalls \in Seq(S) /\ i \in 1..Len(priceCalls)
    BY <2>1 DEF DeployInv, DialogTypes
  <2>3. Deploy!RemoveAt(priceCalls, i) \in Seq(S)
    BY <2>2 DEF Deploy!RemoveAt
  <2> QED
    BY <1>1, <2>1, <2>3
<1>3. DialogTypes'
  BY <1>1, <1>2 DEF DeployInv, DialogTypes
<1>4. Places' /\ Keeping'
  BY <1>1 DEF DeployInv, Places, Deploy!IsCurrent, Deploy!Now, Keeping
<1>5. Choosing'
  BY <1>1 DEF DeployInv, Choosing, Fits, Deploy!maxAvailableReplicas
<1> QED
  BY <1>3, <1>4, <1>5 DEF DeployInv

\* The image and the lists are not part of the choices.
LEMMA ImageKeeps ==
  ASSUME DeployAssumption, DeployInv, Deploy!setImageMode \/ Deploy!typeImage \/ Deploy!editList
  PROVE  DeployInv'
<1>1. /\ UNCHANGED <<visible, known, sel, locations, loadingReplicas, replicaRequestId, replicaCalls,
                     price, priceCalls, opens>>
      /\ changes' = changes + 1
  BY DEF Deploy!setImageMode, Deploy!typeImage, Deploy!editList, Deploy!Change, Deploy!priceVars
<1>2. Places'
  <2>1. Deploy!Now' = Deploy!Now + 1 /\ Deploy!Now \in Nat
    BY <1>1 DEF DeployInv, DialogTypes, Deploy!Now
  <2>2. \A c \in replicaCalls : c.id \in Nat /\ c.id < Deploy!Now
    BY DEF DeployInv, DialogTypes, Places
  <2>3. \A c \in replicaCalls : c.id < Deploy!Now'
    BY <2>1, <2>2
  <2> QED
    BY <1>1, <2>3 DEF DeployInv, Places, Deploy!IsCurrent
<1>3. ASSUME form' \in Forms, lists' \in Lists, custom' \in Customs, left' \in Customs,
             imageMode' \in {"builtin", "custom"}, Keeping',
             form'.hw = form.hw, form'.locs = form.locs, form'.reps = form.reps, form'.hours = form.hours
      PROVE  DeployInv'
  <2>1. changes' \in Nat
    BY <1>1 DEF DeployInv, DialogTypes
  <2>2. DialogTypes'
    BY <1>1, <1>3, <2>1 DEF DeployInv, DialogTypes
  <2>3. Choosing'
    BY <1>1, <1>3 DEF DeployInv, Choosing, Fits, Deploy!maxAvailableReplicas
  <2> QED
    BY <1>2, <1>3, <2>2, <2>3 DEF DeployInv
<1>4. /\ form \in Forms /\ lists \in Lists /\ custom \in Customs /\ left \in Customs
      /\ imageMode \in {"builtin", "custom"}
  BY DEF DeployInv, DialogTypes
<1>5. lists.secret \subseteq Vars \cup {"auto"} /\ lists.env \in Rows
  BY <1>4 DEF Lists, Rows
<1>6. CASE Deploy!setImageMode /\ imageMode = "custom"
  <2>1. /\ imageMode' = "builtin"
        /\ custom' = [env |-> lists.env, secret |-> lists.secret,
                      image |-> IF form.image = "" THEN custom.image ELSE form.image, port |-> form.port]
        /\ left' = [custom' EXCEPT !.image = form.image]
        /\ lists' = [lists EXCEPT !.env = {}, !.secret = {"auto"}]
        /\ form' = [form EXCEPT !.image = Deploy!BUILTIN_IMAGE, !.port = Deploy!DEFAULT_TRAFFIC_PORT]
    BY <1>6 DEF Deploy!setImageMode
  <2>2. form.image = custom.image /\ lists.secret \subseteq Vars
    BY <1>5, <1>6 DEF DeployInv, Keeping
  <2>3. form.image \in Texts /\ form.port \in Nat
    BY <1>4 DEF Forms
  <2>4. custom' \in Customs /\ custom'.image = form.image
    BY <1>5, <2>1, <2>2, <2>3 DEF Customs
  <2>5. left' = custom'
    BY <2>1, <2>4 DEF Customs
  <2>6. {} \in Rows /\ {"auto"} \in Rows
    BY DEF Rows
  <2>7. lists' \in Lists
    BY <1>4, <2>1, <2>6 DEF Lists
  <2>8. /\ form' \in Forms /\ form'.hw = form.hw /\ form'.locs = form.locs
        /\ form'.reps = form.reps /\ form'.hours = form.hours
    <3>1. form' = [form EXCEPT !.image = Deploy!BUILTIN_IMAGE, !.port = Deploy!DEFAULT_TRAFFIC_PORT]
      BY <2>1
    <3>2. Deploy!BUILTIN_IMAGE \in Texts /\ Deploy!DEFAULT_TRAFFIC_PORT \in Nat
      BY DEF Texts, Deploy!DEFAULT_TRAFFIC_PORT
    <3> QED
      BY <1>4, <3>1, <3>2 DEF Forms
  <2>9. Keeping'
    <3>1. imageMode' = "builtin"
      BY <2>1
    <3> QED
      BY <3>1, <2>5 DEF Keeping
  <2> QED
    BY <1>3, <2>1, <2>4, <2>5, <2>7, <2>8, <2>9
<1>7. CASE Deploy!setImageMode /\ imageMode = "builtin"
  <2>1. /\ imageMode' = "custom" /\ custom' = custom /\ left' = left
        /\ lists' = [lists EXCEPT !.env = custom.env, !.secret = custom.secret]
        /\ form' = [form EXCEPT !.image = custom.image, !.port = IF custom.port = 0 THEN @ ELSE custom.port]
    BY <1>7 DEF Deploy!setImageMode
  <2>2. custom.env \in Rows /\ custom.secret \subseteq Vars /\ custom.image \in Texts /\ custom.port \in Nat
    BY <1>4 DEF Customs
  <2>3. custom.secret \in Rows /\ "auto" \notin custom.secret
    BY <2>2 DEF Rows, DeployAssumption
  <2>4. lists' \in Lists /\ lists'.secret = custom.secret
    BY <1>4, <2>1, <2>2, <2>3 DEF Lists
  <2>5. /\ form' \in Forms /\ form'.hw = form.hw /\ form'.locs = form.locs
        /\ form'.reps = form.reps /\ form'.hours = form.hours /\ form'.image = custom.image
    BY <1>4, <2>1, <2>2 DEF Forms
  <2>6. Keeping'
    BY <2>1, <2>3, <2>4, <2>5 DEF Keeping
  <2> QED
    BY <1>3, <1>4, <2>1, <2>4, <2>5, <2>6
<1>8. CASE Deploy!typeImage
  <2>1. imageMode = "custom" /\ imageMode' = "custom" /\ lists' = lists /\ left' = left
    BY <1>8 DEF Deploy!typeImage
  <2>2. form.image = custom.image /\ "auto" \notin lists.secret
    BY <2>1 DEF DeployInv, Keeping
  <2>3. ASSUME NEW x \in Deploy!TypedImages,
               form' = [form EXCEPT !.image = x] /\ custom' = [custom EXCEPT !.image = x]
        PROVE  DeployInv'
    <3>0. form' = [form EXCEPT !.image = x] /\ custom' = [custom EXCEPT !.image = x]
      BY <2>3
    <3>1. /\ form' \in Forms /\ form'.hw = form.hw /\ form'.locs = form.locs
          /\ form'.reps = form.reps /\ form'.hours = form.hours /\ form'.image = x
      BY <1>4, <3>0 DEF Forms, Texts
    <3>2. custom' \in Customs /\ custom'.image = x
      BY <1>4, <3>0 DEF Customs, Texts
    <3>3. Keeping'
      BY <2>1, <2>2, <3>1, <3>2 DEF Keeping
    <3> QED
      BY <1>3, <1>4, <2>1, <3>1, <3>2, <3>3
  <2>4. ASSUME NEW n \in {0, 8080}, form' = [form EXCEPT !.port = n] /\ UNCHANGED custom
        PROVE  DeployInv'
    <3>0. form' = [form EXCEPT !.port = n] /\ custom' = custom
      BY <2>4
    <3>1. /\ form' \in Forms /\ form'.hw = form.hw /\ form'.locs = form.locs
          /\ form'.reps = form.reps /\ form'.hours = form.hours /\ form'.image = form.image
      BY <1>4, <3>0 DEF Forms
    <3>2. Keeping'
      BY <2>1, <2>2, <3>0, <3>1 DEF Keeping
    <3> QED
      BY <1>3, <1>4, <2>1, <3>0, <3>1, <3>2
  <2> QED
    BY <1>8, <2>3, <2>4 DEF Deploy!typeImage
<1>9. CASE Deploy!editList
  <2>0. PICK k \in DOMAIN lists : \E x \in Vars \cup lists[k] :
          lists' = [lists EXCEPT ![k] = IF x \in @ THEN @ \ {x} ELSE @ \cup {x}]
    BY <1>9 DEF Deploy!editList
  <2>1. PICK x \in Vars \cup lists[k] :
          lists' = [lists EXCEPT ![k] = IF x \in @ THEN @ \ {x} ELSE @ \cup {x}]
    BY <2>0
  <2>2. UNCHANGED <<imageMode, custom, left, form>>
    BY <1>9 DEF Deploy!editList
  <2> DEFINE row == IF x \in lists[k] THEN lists[k] \ {x} ELSE lists[k] \cup {x}
  <2>3. lists[k] \in Rows /\ k \in {"env", "secret", "entrypoint", "args"}
    BY <1>4 DEF Lists
  <2>4. row \in Rows /\ ("auto" \notin lists[k] => "auto" \notin row)
    BY <2>3 DEF Rows, DeployAssumption
  <2>5. lists' = [lists EXCEPT ![k] = row]
    BY <2>1
  <2> HIDE DEF row
  <2>6. lists' \in Lists /\ (lists'.secret = lists.secret \/ (k = "secret" /\ lists'.secret = row))
    BY <1>4, <2>3, <2>4, <2>5 DEF Lists
  <2>7. Keeping'
    BY <2>2, <2>4, <2>6 DEF DeployInv, Keeping
  <2> QED
    BY <1>3, <1>4, <2>2, <2>6, <2>7
<1> QED
  BY <1>4, <1>6, <1>7, <1>8, <1>9

\* The other steps change neither the choices nor the settings.
LEMMA QuietKeeps ==
  ASSUME DeployInv,
         \/ Deploy!onCancel \/ Deploy!handleSubmit \/ UNCHANGED Deploy!vars
         \/ \E ok \in BOOLEAN : Deploy!loadHardwareTypes(ok) \/ Deploy!Answered(ok)
  PROVE  DeployInv'
<1>1. /\ UNCHANGED <<sel, form, locations, loadingReplicas, replicaRequestId, replicaCalls, priceCalls,
                     imageMode, lists, custom, left, opens, changes>>
  BY DEF Deploy!onCancel, Deploy!handleSubmit, Deploy!loadHardwareTypes, Deploy!Answered, Deploy!vars,
     Deploy!priceVars, Deploy!imageVars
<1>2. visible' \in BOOLEAN /\ known' \in BOOLEAN
  <2>1. visible \in BOOLEAN /\ known \in BOOLEAN
    BY DEF DeployInv, DialogTypes
  <2>2. CASE Deploy!onCancel
    BY <2>1, <2>2 DEF Deploy!onCancel
  <2>3. CASE Deploy!handleSubmit
    BY <2>1, <2>3 DEF Deploy!handleSubmit
  <2>4. ASSUME NEW ok \in BOOLEAN, Deploy!loadHardwareTypes(ok)
        PROVE  visible' \in BOOLEAN /\ known' \in BOOLEAN
    BY <2>1, <2>4 DEF Deploy!loadHardwareTypes
  <2>5. ASSUME NEW ok \in BOOLEAN, Deploy!Answered(ok)
        PROVE  visible' \in BOOLEAN /\ known' \in BOOLEAN
    BY <2>1, <2>5 DEF Deploy!Answered
  <2>6. CASE UNCHANGED Deploy!vars
    BY <2>1, <2>6 DEF Deploy!vars
  <2> QED
    BY <2>2, <2>3, <2>4, <2>5, <2>6
<1>3. DialogTypes'
  BY <1>1, <1>2 DEF DeployInv, DialogTypes
<1>4. Places' /\ Keeping'
  BY <1>1 DEF DeployInv, Places, Deploy!IsCurrent, Deploy!Now, Keeping
<1>5. Choosing'
  BY <1>1 DEF DeployInv, Choosing, Fits, Deploy!maxAvailableReplicas
<1> QED
  BY <1>3, <1>4, <1>5 DEF DeployInv

LEMMA DeployStep == ASSUME DeployAssumption PROVE DeployInv /\ [Deploy!Next]_Deploy!vars => DeployInv'
  BY OpenKeeps, HardwareKeeps, PicksKeep, PlacesKeep, EstimateKeeps, ImageKeeps,
  QuietKeeps DEF Deploy!Next

LEMMA DeployHolds == ASSUME DeployAssumption PROVE Deploy!Spec => []DeployInv
<1>1. Deploy!Init => DeployInv
  BY DeployInit
<1>2. DeployInv /\ [Deploy!Next]_Deploy!vars => DeployInv'
  BY DeployStep
<1> QED
  BY <1>1, <1>2, PTL DEF Deploy!Spec

-----------------------------------------------------------------------------
(* What the dialog promises.                                               *)

\* The dialog's state has its types, in whatever order the answers come (CreateDeploymentModal).
THEOREM DeployTypes == ASSUME DeployAssumption PROVE Deploy!Spec => []Deploy!TypeOK
<1>1. DeployInv => Deploy!TypeOK
  <2> SUFFICES ASSUME DeployInv PROVE Deploy!TypeOK
    OBVIOUS
  <2>1. {visible, known, loadingReplicas} \subseteq BOOLEAN
    <3>1. visible \in BOOLEAN /\ known \in BOOLEAN /\ loadingReplicas \in BOOLEAN
      BY Zenon DEF DeployInv, DialogTypes
    <3> QED
      BY <3>1, Zenon
  <2>2. sel.hw \in Hardware \cup {None} /\ form.hw \in Hardware \cup {None}
    BY DEF DeployInv, DialogTypes, Selections, Forms
  <2>3. locations = None \/ locations \in {Avail[h] : h \in Hardware}
    BY ChosenPlaces DEF DeployInv, Known
  <2>4. \A c \in replicaCalls : c.hw \in Hardware
    BY DEF DeployInv, DialogTypes
  <2>5. \A i \in DOMAIN priceCalls : Deploy!Ready(priceCalls[i])
    BY DEF DeployInv, DialogTypes
  <2>6. imageMode \in {"builtin", "custom"} /\ \A k \in DOMAIN lists : lists[k] \subseteq Vars \cup {"auto"}
    BY DEF DeployInv, DialogTypes, Lists, Rows
  <2> QED
    BY <2>1, <2>2, <2>3, <2>4, <2>5, <2>6 DEF Deploy!TypeOK
<1> QED
  BY <1>1, DeployHolds, PTL

\* The places offered are those of the chosen hardware, and a field that waits for them has its
\* request under way (loadAvailableReplicas, replicaRequestIdRef).
THEOREM PlacesAreOfHardware == ASSUME DeployAssumption PROVE Deploy!Spec => []Deploy!PlacesAreHardwares
<1>1. DeployInv => Deploy!PlacesAreHardwares
  BY DEF DeployInv, Places, Deploy!PlacesAreHardwares
<1> QED
  BY <1>1, DeployHolds, PTL

\* A step leaves the last estimate under way, or the one shown, to the choices.
LEMMA EstimateFollows ==
  ASSUME DeployAssumption, InOrder, DeployInv, DeployInv', Estimating, [Deploy!Next]_Deploy!vars
  PROVE  Estimating'
<1>1. ASSUME ~Deploy!Ready(sel') PROVE Estimating'
  BY <1>1 DEF Estimating, Deploy!Ready
<1>2. ASSUME UNCHANGED <<sel, price, priceCalls>> PROVE Estimating'
  BY <1>2 DEF Estimating, Deploy!Ready
<1>3. ASSUME NEW s \in Selections, NEW ls, Known(ls), ls # None => s.locs \subseteq DOMAIN ls,
             Deploy!Commit(s, ls)
      PROVE  Estimating'
  <2>1. Deploy!Ready(sel') =>
          \/ sel' = sel /\ s = sel /\ priceCalls' = priceCalls /\ price' = price
          \/ priceCalls' # <<>> /\ priceCalls'[Len(priceCalls')] = sel'
    BY <1>3, Committed DEF DeployInv
  <2>2. CASE ~Deploy!Ready(sel')
    BY <1>1, <2>2
  <2>3. CASE sel' = sel /\ priceCalls' = priceCalls /\ price' = price
    BY <1>2, <2>3
  <2>4. CASE priceCalls' # <<>> /\ priceCalls'[Len(priceCalls')] = sel'
    BY <2>4 DEF Estimating
  <2> QED
    BY <2>1, <2>2, <2>3, <2>4
<1>4. sel \in Selections /\ Known(locations) /\ (locations # None => sel.locs \subseteq DOMAIN locations)
  BY ChosenPlaces DEF DeployInv, DialogTypes
<1>5. CASE Deploy!open
  BY <1>1, <1>5 DEF Deploy!open, Deploy!Nothing, Deploy!Ready
<1>6. ASSUME NEW h \in Hardware, Deploy!selectHardware(h) PROVE Estimating'
  <2> DEFINE s == [sel EXCEPT !.hw = h, !.locs = {}]
  <2>1. s \in Selections
    BY <1>4 DEF Selections
  <2>2. Deploy!Commit(s, None)
    BY <1>6 DEF Deploy!selectHardware
  <2> HIDE DEF s
  <2> QED
    BY <1>3, <2>1, <2>2 DEF Known
<1>7. ASSUME NEW s \in Selections, locations # None => s.locs \subseteq DOMAIN locations, Deploy!Chosen(s)
      PROVE  Estimating'
  BY <1>3, <1>4, <1>7 DEF Deploy!Chosen
<1>8. CASE Deploy!selectLocations
  <2>1. PICK l \in DOMAIN locations :
          Deploy!Chosen([sel EXCEPT !.locs = IF l \in @ THEN @ \ {l} ELSE @ \cup {l}])
    BY <1>8 DEF Deploy!selectLocations
  <2> DEFINE some == IF l \in sel.locs THEN sel.locs \ {l} ELSE sel.locs \cup {l}
             s == [sel EXCEPT !.locs = some]
  <2>2. PICK h \in Hardware : locations = Avail[h]
    BY <1>4, <1>8 DEF Deploy!selectLocations, Known
  <2>3. some \subseteq DOMAIN locations /\ some \subseteq AllPlaces
    BY <1>4, <1>8, <2>2 DEF Deploy!selectLocations, AllPlaces, Selections
  <2> HIDE DEF some
  <2>4. s \in Selections /\ s.locs = some
    BY <1>4, <2>3 DEF Selections
  <2>5. Deploy!Chosen(s)
    BY <2>1 DEF some
  <2> HIDE DEF s
  <2> QED
    BY <1>7, <2>3, <2>4, <2>5
<1>9. CASE Deploy!setReplicaCount
  <2>1. PICK n \in Counts : Deploy!Chosen([sel EXCEPT !.reps = n])
    BY <1>9 DEF Deploy!setReplicaCount
  <2>2. LET s == [sel EXCEPT !.reps = n] IN s \in Selections /\ s.locs = sel.locs
    BY <1>4 DEF Selections, DeployAssumption
  <2> QED
    BY <1>4, <1>7, <2>1, <2>2
<1>10. CASE Deploy!setDurationHours
  <2>1. PICK n \in Counts : Deploy!Chosen([sel EXCEPT !.hours = n])
    BY <1>10 DEF Deploy!setDurationHours
  <2>2. LET s == [sel EXCEPT !.hours = n] IN s \in Selections /\ s.locs = sel.locs
    BY <1>4 DEF Selections, DeployAssumption
  <2> QED
    BY <1>4, <1>7, <2>1, <2>2
<1>11. CASE Deploy!handleCurrencyChange
  <2>1. PICK c \in {"usdc", "iocoin"} : Deploy!Chosen([sel EXCEPT !.cur = c])
    BY <1>11 DEF Deploy!handleCurrencyChange
  <2>2. LET s == [sel EXCEPT !.cur = c] IN s \in Selections /\ s.locs = sel.locs
    BY <1>4 DEF Selections
  <2> QED
    BY <1>4, <1>7, <2>1, <2>2
<1>12. ASSUME NEW c \in replicaCalls, NEW ok \in BOOLEAN, Deploy!loadAvailableReplicas(c, ok)
       PROVE  Estimating'
  <2>1. CASE Deploy!IsCurrent(c) /\ ok /\ visible
    <3>1. Deploy!Commit(sel, Avail[c.hw])
      BY <1>12, <2>1 DEF Deploy!loadAvailableReplicas
    <3>2. Known(Avail[c.hw]) /\ sel.locs = {}
      BY <2>1 DEF Known, DeployInv, DialogTypes, Places, Choosing, Fits
    <3> QED
      BY <1>3, <1>4, <3>1, <3>2
  <2>2. CASE ~(Deploy!IsCurrent(c) /\ ok /\ visible)
    BY <1>2, <1>12, <2>2 DEF Deploy!loadAvailableReplicas
  <2> QED
    BY <2>1, <2>2
<1>13. ASSUME NEW i \in DOMAIN priceCalls, NEW ok \in BOOLEAN, Deploy!calculatePrice(i, ok)
       PROVE  Estimating'
  <2>1. PICK S : S = {s \in Selections : Deploy!Ready(s)}
    OBVIOUS
  <2>2. priceCalls \in Seq(S) /\ i = 1 /\ 1 \in 1..Len(priceCalls)
    BY <1>13, <2>1 DEF DeployInv, DialogTypes, Deploy!calculatePrice
  <2>3. /\ sel' = sel /\ priceCalls' = Deploy!RemoveAt(priceCalls, 1)
        /\ price' = priceCalls[1] \/ price' = None
    BY <1>13, <2>2 DEF Deploy!calculatePrice
  <2>4. priceCalls' = [j \in 1..(Len(priceCalls) - 1) |-> priceCalls[j + 1]]
    <3>1. SubSeq(priceCalls, 1, 0) = <<>>
      OBVIOUS
    <3> QED
      BY <2>2, <2>3, <3>1 DEF Deploy!RemoveAt
  <2>5. Len(priceCalls') = Len(priceCalls) - 1
    BY <2>2, <2>4
  <2>6. CASE Len(priceCalls) = 1
    <3>1. priceCalls' = <<>>
      BY <2>2, <2>4, <2>6
    <3>2. Deploy!Ready(sel) => priceCalls[1] = sel
      BY <2>2, <2>6 DEF Estimating
    <3> QED
      BY <2>3, <3>1, <3>2 DEF Estimating
  <2>7. CASE Len(priceCalls) > 1
    BY <2>2, <2>3, <2>4, <2>5, <2>7 DEF Estimating
  <2>8. Len(priceCalls) = 1 \/ Len(priceCalls) > 1
    <3>1. Len(priceCalls) \in Nat
      BY <2>2, LenProperties
    <3>2. PICK n \in Nat : n = Len(priceCalls)
      BY <3>1
    <3>3. 1 \in 1..n
      BY <2>2, <3>2
    <3>4. n = 1 \/ n > 1
      BY <3>3
    <3> QED
      BY <3>2, <3>4
  <2> QED
    BY <2>6, <2>7, <2>8, Zenon
<1>14. CASE Deploy!setImageMode \/ Deploy!typeImage \/ Deploy!editList
  BY <1>2, <1>14 DEF Deploy!setImageMode, Deploy!typeImage, Deploy!editList, Deploy!priceVars
<1>15. CASE \/ Deploy!onCancel \/ Deploy!handleSubmit \/ UNCHANGED Deploy!vars
            \/ \E ok \in BOOLEAN : Deploy!loadHardwareTypes(ok) \/ Deploy!Answered(ok)
  BY <1>2, <1>15 DEF Deploy!onCancel, Deploy!handleSubmit, Deploy!loadHardwareTypes, Deploy!Answered,
     Deploy!vars, Deploy!priceVars
<1> QED
  BY <1>5, <1>6, <1>8, <1>9, <1>10, <1>11, <1>12, <1>13, <1>14, <1>15 DEF Deploy!Next

\* When the estimates arrive in the order they were asked for, the price shown under complete
\* choices is theirs once nothing is under way, whatever was chosen, loaded and reopened meanwhile
\* (calculatePrice and the effects of CreateDeploymentModal).
THEOREM PriceIsOfChoices == ASSUME DeployAssumption, InOrder PROVE Deploy!Spec => []Deploy!PriceIsForChoices
<1>1. Deploy!Init => Estimating
  BY DEF Deploy!Init, Estimating, Deploy!Nothing, Deploy!Ready
<1>2. DeployInv /\ DeployInv' /\ Estimating /\ [Deploy!Next]_Deploy!vars => Estimating'
  BY EstimateFollows
<1>3. Estimating => Deploy!PriceIsForChoices
  BY DEF Estimating, Deploy!PriceIsForChoices
<1> QED
  BY <1>1, <1>2, <1>3, DeployHolds, PTL DEF Deploy!Spec

\* A request asks for the choices the estimate is made for and for no more replicas than the
\* chosen places have, and takes the generated key with the built-in image only (handleSubmit).
THEOREM DeploysWhatIsPriced ==
  ASSUME DeployAssumption PROVE Deploy!Spec => [][Deploy!SendsWhatIsPriced]_Deploy!vars
<1>1. ASSUME DeployInv, Deploy!handleSubmit PROVE Deploy!SendsWhatIsPriced
  <2> DEFINE max == Deploy!maxAvailableReplicas(sel, locations)
  <2>1. /\ form.hw # None /\ form.locs # {}
        /\ sending'.hw = form.hw /\ sending'.locs = form.locs
        /\ sending'.reps = form.reps /\ sending'.hours = form.hours
        /\ sending'.secret = IF imageMode = "builtin" THEN lists.secret \cup {"auto"} ELSE lists.secret
    BY <1>1 DEF Deploy!handleSubmit, Deploy!Ready
  <2>2. /\ form.hw = sel.hw /\ form.locs = sel.locs /\ form.reps = sel.reps /\ form.hours = sel.hours
        /\ Fits(sel, locations)
    BY <1>1 DEF DeployInv, Choosing
  <2>3. locations # None /\ locations = Avail[sel.hw] /\ Known(locations)
    BY <1>1, <2>1, <2>2, ChosenPlaces DEF Fits, DeployInv, Places
  <2>4. sel.locs \subseteq DOMAIN locations /\ \A l \in sel.locs : locations[l] > 0
    BY <2>2, <2>3 DEF Fits
  <2>5. max > 0
    BY <2>1, <2>2, <2>3, <2>4, Replicas
  <2>6. sel.reps <= max
    BY <2>2, <2>5 DEF Fits
  <2>7. imageMode = "builtin" <=> "auto" \in sending'.secret
    BY <1>1, <2>1 DEF DeployInv, DialogTypes, Keeping
  <2>8. \A k \in {"hw", "locs", "reps", "hours"} : sending'[k] = sel[k]
    BY <2>1, <2>2
  <2>9. sending'.reps <= Deploy!maxAvailableReplicas(sel, Avail[sel.hw])
    BY <2>1, <2>2, <2>3, <2>6
  <2> QED
    BY <2>7, <2>8, <2>9 DEF Deploy!SendsWhatIsPriced
<1>2. ASSUME sending' = sending \/ sending' = None PROVE Deploy!SendsWhatIsPriced
  BY <1>2 DEF Deploy!SendsWhatIsPriced
<1>3. DeployInv /\ [Deploy!Next]_Deploy!vars => Deploy!SendsWhatIsPriced
  <2> SUFFICES ASSUME DeployInv, [Deploy!Next]_Deploy!vars PROVE Deploy!SendsWhatIsPriced
    OBVIOUS
  <2>1. CASE Deploy!handleSubmit
    BY <1>1, <2>1
  <2>2. CASE \/ Deploy!open \/ Deploy!onCancel
             \/ \E ok \in BOOLEAN : Deploy!loadHardwareTypes(ok) \/ Deploy!Answered(ok)
    BY <1>2, <2>2 DEF Deploy!open, Deploy!onCancel, Deploy!loadHardwareTypes, Deploy!Answered
  <2>3. CASE \/ (\E h \in Hardware : Deploy!selectHardware(h))
             \/ Deploy!selectLocations \/ Deploy!setReplicaCount
             \/ Deploy!setDurationHours \/ Deploy!handleCurrencyChange
    BY <1>2, <2>3 DEF Deploy!selectHardware, Deploy!selectLocations, Deploy!setReplicaCount,
       Deploy!setDurationHours,
                      Deploy!handleCurrencyChange, Deploy!Chosen, Deploy!Change
  <2>4. CASE \/ (\E c \in replicaCalls, ok \in BOOLEAN : Deploy!loadAvailableReplicas(c, ok))
             \/ (\E i \in DOMAIN priceCalls, ok \in BOOLEAN : Deploy!calculatePrice(i, ok))
    BY <1>2, <2>4 DEF Deploy!loadAvailableReplicas, Deploy!calculatePrice
  <2>5. CASE Deploy!setImageMode \/ Deploy!typeImage \/ Deploy!editList
    BY <1>2, <2>5 DEF Deploy!setImageMode, Deploy!typeImage, Deploy!editList, Deploy!Change
  <2>6. CASE UNCHANGED Deploy!vars
    BY <1>2, <2>6 DEF Deploy!vars
  <2> QED
    BY <2>1, <2>2, <2>3, <2>4, <2>5, <2>6 DEF Deploy!Next
<1> QED
  BY <1>3, DeployHolds, PTL DEF Deploy!Spec

\* Choosing the built-in image and a custom one again brings back the settings of the custom one
\* (the effect on imageMode).
THEOREM CustomSettingsAreKept ==
  ASSUME DeployAssumption PROVE Deploy!Spec => [][Deploy!CustomIsKept]_Deploy!vars
<1>1. ASSUME DeployInv, Deploy!setImageMode PROVE Deploy!CustomIsKept
  <2> SUFFICES ASSUME imageMode = "builtin", imageMode' = "custom"
               PROVE  /\ lists'.env = left.env /\ lists'.secret = left.secret
                      /\ form'.image = left.image
                      /\ form'.port = left.port \/ left.port = 0
    BY DEF Deploy!CustomIsKept
  <2>1. /\ lists' = [lists EXCEPT !.env = custom.env, !.secret = custom.secret]
        /\ form' = [form EXCEPT !.image = custom.image,
                                !.port = IF custom.port = 0 THEN @ ELSE custom.port]
    BY <1>1 DEF Deploy!setImageMode
  <2>2. custom = left /\ lists \in Lists /\ form \in Forms
    BY <1>1 DEF DeployInv, DialogTypes, Keeping
  <2>3. lists'.env = custom.env /\ lists'.secret = custom.secret
    BY <2>1, <2>2 DEF Lists
  <2>4. form'.image = custom.image /\ (custom.port # 0 => form'.port = custom.port)
    BY <2>1, <2>2 DEF Forms
  <2> QED
    BY <2>2, <2>3, <2>4
<1>2. ASSUME imageMode' = imageMode \/ imageMode' = "builtin" PROVE Deploy!CustomIsKept
  BY <1>2 DEF Deploy!CustomIsKept
<1>3. DeployInv /\ [Deploy!Next]_Deploy!vars => Deploy!CustomIsKept
  <2> SUFFICES ASSUME DeployInv, [Deploy!Next]_Deploy!vars PROVE Deploy!CustomIsKept
    OBVIOUS
  <2>1. CASE Deploy!setImageMode
    BY <1>1, <2>1
  <2>2. CASE \/ Deploy!open \/ Deploy!onCancel \/ Deploy!handleSubmit
             \/ (\E ok \in BOOLEAN : Deploy!loadHardwareTypes(ok) \/ Deploy!Answered(ok))
    BY <1>2, <2>2 DEF Deploy!open, Deploy!onCancel, Deploy!handleSubmit, Deploy!loadHardwareTypes,
       Deploy!Answered, Deploy!imageVars
  <2>3. CASE \/ (\E h \in Hardware : Deploy!selectHardware(h))
             \/ Deploy!selectLocations \/ Deploy!setReplicaCount
             \/ Deploy!setDurationHours \/ Deploy!handleCurrencyChange
    BY <1>2, <2>3 DEF Deploy!selectHardware, Deploy!selectLocations, Deploy!setReplicaCount,
       Deploy!setDurationHours,
                      Deploy!handleCurrencyChange, Deploy!Chosen, Deploy!imageVars
  <2>4. CASE \/ (\E c \in replicaCalls, ok \in BOOLEAN : Deploy!loadAvailableReplicas(c, ok))
             \/ (\E i \in DOMAIN priceCalls, ok \in BOOLEAN : Deploy!calculatePrice(i, ok))
    BY <1>2, <2>4 DEF Deploy!loadAvailableReplicas, Deploy!calculatePrice, Deploy!imageVars
  <2>5. CASE Deploy!typeImage \/ Deploy!editList
    BY <1>2, <2>5 DEF Deploy!typeImage, Deploy!editList
  <2>6. CASE UNCHANGED Deploy!vars
    BY <1>2, <2>6 DEF Deploy!vars, Deploy!imageVars
  <2> QED
    BY <2>1, <2>2, <2>3, <2>4, <2>5, <2>6 DEF Deploy!Next
<1> QED
  BY <1>3, DeployHolds, PTL DEF Deploy!Spec

=============================================================================
