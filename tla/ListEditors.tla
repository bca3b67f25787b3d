----------------------------- MODULE ListEditors -----------------------------
(***************************************************************************)
(* The settings that are lists: announcements, API addresses, questions,   *)
(* monitor groups, Creem products, Waffo pay methods and chat links.  Each *)
(* is one option holding a JSON array.  A page edits a copy of the list in *)
(* a dialog, keeps it unsaved until its save button sends the whole list,  *)
(* and asks its tab to read all options again; so do the other parts of    *)
(* the tab.  A dialog stays usable while the page under it is blocked.     *)
(***************************************************************************)
EXTENDS Naturals, Sequences, FiniteSets, SequencesExt, FiniteSetsExt

CONSTANTS Kinds,    \* the pages considered
          Legacy,   \* the stored list may come from a version that kept no ids
          Faults,   \* subset of {"refuse", "reject"}
          MaxEdits, MaxSaves, MaxItems,
          Unread, None

\* key: how an item is found again, dialog: the inputs it asks for, columns: what a row offers, flag: the save button waits for
\* a change, resets: the copy is replaced when the option's text changes or whenever the options
\* are read, answers: what a refused save does, unique: the dialog refuses a name in use,
\* alone: nothing else is on its tab.
ListPage(key, inputs, columns) ==
  [key |-> key, dialog |-> inputs, columns |-> columns, flag |-> TRUE, resets |-> "text", answers |-> "flag",
   unique |-> FALSE, alone |-> FALSE]
Unflagged(key, inputs, columns) ==
  [ListPage(key, inputs, columns) EXCEPT !.flag = FALSE, !.resets = "options", !.answers = "read"]

\* The buttons in the columns of a row; the flagged pages select rows too and ask before they
\* delete.
AnnouncementColumns == {"edit", "ask", "select"}
UptimeColumns == {"edit", "ask", "select"}
FaqColumns == {"edit", "ask", "select"}
ApiColumns == {"edit", "ask", "select"}
ProductColumns == {"edit", "delete"}
PayMethodColumns == {"edit", "delete"}
ChatColumns == {"edit", "delete"}

\* The inputs of a dialog; all but the optional ones must be filled in.
Optional == {"extra", "icon", "payMethodType", "payMethodName"}
AnnouncementDialog == {"content", "publishDate", "type", "extra"}
UptimeDialog == {"categoryName", "url", "slug"}
FaqDialog == {"question", "answer"}
ApiDialog == {"url", "description", "route", "color"}
ProductDialog == {"name", "productId", "price", "quota", "currency"}
PayMethodDialog == {"name", "icon", "payMethodType", "payMethodName"}
ChatDialog == {"name", "url"}

SettingsAnnouncements == ListPage("id", AnnouncementDialog, AnnouncementColumns)
SettingsUptimeKuma == ListPage("id", UptimeDialog, UptimeColumns)
SettingsFAQ == ListPage("id", FaqDialog, FaqColumns)
SettingsAPIInfo == ListPage("given", ApiDialog, ApiColumns)
SettingsPaymentGatewayCreem == Unflagged("own", ProductDialog, ProductColumns)
SettingsPaymentGatewayWaffo == Unflagged("index", PayMethodDialog, PayMethodColumns)
SettingsChats == [Unflagged("index", ChatDialog, ChatColumns) EXCEPT !.answers = "unread", !.unique = TRUE, !.alone = TRUE]

-----------------------------------------------------------------------------
VARIABLES page,     \* its page
          server,   \* the stored list: [id, v, tag] each, id 0 if it has none, tag a history
                    \* name of the item
          opts,     \* the option's text in the tab
          list,     \* the page's copy
          flag,     \* hasChanges
          sel,      \* keys of the selected rows
          dialog,   \* None, or [mode, key, tag]
          saving,   \* None, or the list sent
          tab,      \* another part of the tab is being saved
          get,      \* None, Unread, or the list on its way to the tab
          edits, saves,
          edited,   \* history: the copy holds a change that is neither stored nor dropped
          during,   \* history: a change was made while a save or a read was under way
          joined    \* history: a refresh was given the answer of an older read

vars == <<page, server, opts, list, flag, sel, dialog, saving, tab, get, edits, saves, edited, during, joined>>

Key(s, i) == IF page.key = "index" THEN i ELSE s[i].id
Contents(s) == [i \in DOMAIN s |-> s[i].v]

\* parseAnnouncements and its like number the items that have no id.
Parsed(s) == [i \in DOMAIN s |-> IF s[i].id = 0 /\ page.key = "id" THEN [s[i] EXCEPT !.id = i] ELSE s[i]]

Blocked == get # None \/ (saving # None /\ ~page.flag)
RowsBlocked == Blocked \/ saving # None
Busy == saving # None \/ get # None

Change(new) ==
  /\ list' = new
  /\ flag' = TRUE
  /\ edits' = edits + 1 /\ edited' = TRUE /\ during' = (during \/ Busy)
  /\ UNCHANGED <<page, server, opts, saving, tab, get, saves, joined>>

OpenDialog(d) == /\ dialog = None
                 /\ dialog' = d
                 /\ UNCHANGED <<page, server, opts, list, flag, sel, saving, tab, get, edits, saves, edited, during, joined>>

handleAdd == ~Blocked /\ OpenDialog([mode |-> "add", key |-> 0, tag |-> 0])
handleEdit(i) == /\ ~RowsBlocked /\ "edit" \in page.columns
                 /\ OpenDialog([mode |-> "edit", key |-> Key(list, i), tag |-> list[i].tag])
handleDelete(i) == /\ ~RowsBlocked /\ "ask" \in page.columns
                   /\ OpenDialog([mode |-> "delete", key |-> Key(list, i), tag |-> list[i].tag])

Cancel ==
  /\ dialog # None
  /\ dialog' = None
  /\ UNCHANGED <<page, server, opts, list, flag, sel, saving, tab, get, edits, saves, edited, during, joined>>

Without(K) == LET Keep == {i \in DOMAIN list : Key(list, i) \notin K}
                  at[n \in 1..Cardinality(Keep)] == CHOOSE i \in Keep : Cardinality({j \in Keep : j <= i}) = n
              IN [n \in 1..Cardinality(Keep) |-> list[at[n]]]

confirmDelete ==
  /\ dialog # None /\ dialog.mode = "delete" /\ edits < MaxEdits
  /\ Change(Without({dialog.key}))
  /\ dialog' = None
  /\ UNCHANGED sel

\* deleteProduct, handleDeletePayMethod, handleDeleteConfig
DeleteAtOnce(i) ==
  /\ "delete" \in page.columns /\ ~RowsBlocked /\ dialog = None /\ edits < MaxEdits
  /\ Change(Without({Key(list, i)}))
  /\ UNCHANGED <<dialog, sel>>

\* Mutant: a new item takes the number of items as its id.
CountsItems == Len(list)

\* Math.max(...ids, 0) + 1
NextId == Max({list[i].id : i \in DOMAIN list} \cup {0}) + 1

\* A chat of that name exists.
Taken(v) == page.unique /\ \E i \in DOMAIN list : list[i].v = v /\ ~(dialog.mode = "edit" /\ i = dialog.key)

\* A new item; a Creem product brings its own id, and is known by it.
NewItem(v, n) ==
  CASE page.key = "own" -> [id |-> n, v |-> v, tag |-> n]
    [] page.key = "index" -> [id |-> 0, v |-> v, tag |-> edits + 3]
    [] OTHER -> [id |-> NextId, v |-> v, tag |-> edits + 3]

\* The list with the dialog's item replaced; Waffo assigns to the index, past the end too.
Replaced(v) ==
  LET end == IF page.key = "index" /\ ~page.alone THEN Max({Len(list), dialog.key}) ELSE Len(list)
      hole == [id |-> 0, v |-> 0, tag |-> 0]
      old(i) == IF i \in DOMAIN list THEN list[i] ELSE hole
  IN [i \in 1..end |-> IF Key(list, i) = dialog.key THEN [old(i) EXCEPT !.v = v] ELSE old(i)]

\* handleSaveAnnouncement and its like: the item with the dialog's key is replaced, or a new
\* one goes to the end.
DialogOk(v, n, filled) ==
  /\ dialog # None /\ dialog.mode \in {"add", "edit"} /\ edits < MaxEdits
  /\ page.dialog \ Optional \subseteq filled
  /\ ~Taken(v)
  /\ IF dialog.mode = "edit"
     THEN Change(Replaced(v))
     ELSE /\ Len(list) < MaxItems
          /\ page.key = "own" => \A i \in DOMAIN list : list[i].id # n
          /\ Change(Append(list, NewItem(v, n)))
  /\ dialog' = None
  /\ UNCHANGED sel

Select(S) ==
  /\ "select" \in page.columns /\ ~RowsBlocked /\ dialog = None /\ sel # S
  /\ sel' = S
  /\ UNCHANGED <<page, server, opts, list, flag, dialog, saving, tab, get, edits, saves, edited, during, joined>>

handleBatchDelete ==
  /\ ~Blocked /\ dialog = None /\ sel # {} /\ edits < MaxEdits
  /\ Change(Without(sel))
  /\ sel' = {}
  /\ UNCHANGED dialog

-----------------------------------------------------------------------------
\* The chat page compares with the text it was given and says so when nothing changed.
Save ==
  /\ ~Blocked /\ saving = None /\ dialog = None /\ saves < MaxSaves
  /\ page.flag => flag
  /\ page.answers = "unread" => Contents(list) # Contents(opts)
  /\ saving' = list /\ saves' = saves + 1
  /\ UNCHANGED <<page, server, opts, list, flag, sel, dialog, tab, get, edits, edited, during, joined>>

\* API.get shares the answer of an equal request in flight.
refresh == /\ get' = IF get = None THEN Unread ELSE get
           /\ joined' = (joined \/ get # None)

PutStored ==
  /\ saving # None
  /\ server' = saving /\ edited' = (edited /\ Contents(list) # Contents(saving))
  /\ flag' = FALSE
  /\ refresh /\ saving' = None
  /\ UNCHANGED <<page, opts, list, sel, dialog, tab, edits, saves, during>>

\* updateOption shows the message and returns, so the flag is cleared all the same.
PutRefused ==
  /\ saving # None /\ "refuse" \in Faults
  /\ flag' = IF page.answers = "flag" THEN FALSE ELSE flag
  /\ IF page.answers = "unread" THEN refresh ELSE UNCHANGED <<get, joined>>
  /\ saving' = None
  /\ UNCHANGED <<page, server, opts, list, sel, dialog, tab, edits, saves, edited, during>>

\* The request fails, and may have been stored.
PutRejects ==
  /\ saving # None /\ "reject" \in Faults
  /\ \E stored \in BOOLEAN : server' = IF stored THEN saving ELSE server
  /\ saving' = None
  /\ UNCHANGED <<page, opts, list, flag, sel, dialog, tab, get, edits, saves, edited, during, joined>>

\* handleToggleEnabled, or a save of another card of the tab.
TabSave ==
  /\ ~page.alone /\ ~tab /\ get = None /\ dialog = None /\ saves < MaxSaves
  /\ tab' = TRUE /\ saves' = saves + 1
  /\ UNCHANGED <<page, server, opts, list, flag, sel, dialog, saving, get, edits, edited, during, joined>>

TabSaved ==
  /\ tab /\ tab' = FALSE
  /\ refresh
  /\ UNCHANGED <<page, server, opts, list, flag, sel, dialog, saving, edits, saves, edited, during>>

GetReads ==
  /\ get = Unread
  /\ get' = server
  /\ UNCHANGED <<page, server, opts, list, flag, sel, dialog, saving, tab, edits, saves, edited, during, joined>>

\* Mutant: every read of the options replaces the copy.
ResetsAlways(new) == TRUE

\* The effect runs when what it depends on has changed.
Resets(new) == page.resets = "options" \/ new # opts

GetArrives ==
  /\ get \notin {None, Unread}
  /\ opts' = get /\ get' = None
  /\ IF Resets(get) THEN list' = Parsed(get) /\ edited' = FALSE ELSE UNCHANGED <<list, edited>>
  /\ UNCHANGED <<page, server, flag, sel, dialog, saving, tab, edits, saves, during, joined>>

-----------------------------------------------------------------------------
\* The lists an earlier version or an earlier save of the page may have left.
Stored ==
  LET numbered == page.key # "index" /\ ~(Legacy /\ page.key # "own")
  IN {<<>>, [i \in 1..2 |-> [id |-> IF numbered THEN i ELSE 0, v |-> i, tag |-> i]]}

Init ==
  /\ page \in Kinds
  /\ server \in Stored
  /\ opts = server /\ list = Parsed(server)
  /\ flag = FALSE /\ sel = {} /\ dialog = None /\ saving = None /\ tab = FALSE /\ get = None
  /\ edits = 0 /\ saves = 0 /\ edited = FALSE /\ during = FALSE /\ joined = FALSE

Next ==
  \/ handleAdd \/ Cancel \/ confirmDelete \/ handleBatchDelete
  \/ \E i \in DOMAIN list : handleEdit(i) \/ handleDelete(i) \/ DeleteAtOnce(i)
  \/ \E v \in 1..3, n \in IF page.key = "own" THEN 1..3 ELSE {0} ,
        filled \in {page.dialog, page.dialog \ Optional, page.dialog \cap Optional} : DialogOk(v, n, filled)
  \/ \E S \in SUBSET {Key(list, i) : i \in DOMAIN list} : Select(S)
  \/ Save \/ PutStored \/ PutRefused \/ PutRejects \/ TabSave \/ TabSaved \/ GetReads \/ GetArrives

Spec == Init /\ [][Next]_vars

-----------------------------------------------------------------------------
TypeOK ==
  /\ Len(list) <= MaxItems /\ Len(server) <= MaxItems
  /\ edits \in 0..MaxEdits /\ saves \in 0..MaxSaves
  /\ dialog # None => dialog.mode \in {"add", "edit", "delete"}
  /\ ~page.flag => sel = {}

\* No two items of a list are found by the same key, whatever was added, removed, stored and
\* read again: "确保每个项目都有id" (parseAnnouncements).
KeysAreUnique == \A i, j \in DOMAIN list : i # j => Key(list, i) # Key(list, j)

\* A dialog changes or removes the item it was opened for, though the list under it may have
\* been read again, unless the list was changed during a save: "当前编辑的索引" (Waffo).
DialogTouchesItsItem ==
  (dialog # None /\ dialog.mode # "add" /\ edits' # edits /\ ~during) =>
       \A i \in DOMAIN list : Key(list, i) = dialog.key => list[i].tag = dialog.tag

\* A change that is not stored leaves the save button enabled ("请及时点击“保存设置”进行保存"),
\* unless it was made while a save was under way.
UnsavedIsFlagged == (page.flag /\ edited /\ ~during) => flag

\* When nothing is under way a list without changes is the stored one.
ShownIsStored ==
  (~Busy /\ ~tab /\ ~edited /\ ~joined /\ ~during) => Contents(list) = Contents(server)

\* A save of another part of the tab leaves the unsaved list of a flagged page alone.
TabKeepsEdits ==
  (page.flag /\ edited /\ ~edited' /\ saving = None) => server # opts

=============================================================================
