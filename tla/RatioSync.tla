------------------------------ MODULE RatioSync ------------------------------
(* The synchronisation of ratios with other deployments: the table of        *)
(* differences (web/src/pages/Setting/Ratio/UpstreamRatioSync.jsx) and the   *)
(* comparison the server makes for it (controller/ratio_sync.go).            *)
(*                                                                           *)
(* Values are compared and copied, never computed with: they are strings.    *)
(* Paging only hides rows; the search and the filter of the table limit what *)
(* the header of a column selects and are chosen when it is clicked.  While  *)
(* a save runs the rows are covered and its button sends the same again; the *)
(* whole page is covered while its options are read.                         *)
EXTENDS Integers, Sequences, SequencesExt

CONSTANTS
  Models, Channels,
  Local,     \* the options at first: [Types -> [Models -> value or None]]
  Upstream,  \* what a channel answers: [Channels -> [Types -> [Models -> ...]]]
  Faults,    \* a subset of {"refused", "error"}
  MaxFetches, MaxPicks,
  None

\* In the order the rows of a model are listed in, that of a JSON object.
TypeOrder == <<"cache_ratio", "completion_ratio", "model_price", "model_ratio">>
Types == {TypeOrder[i] : i \in 1 .. 4}

VARIABLES
  server,      \* the options of the server, each a map from models
  options,     \* the options the page read last
  dialog,      \* whether the dialog that selects channels is open
  chosen,      \* selectedChannelIds
  fetching,    \* comparisons under way, each the channels it asks
  covered,     \* syncLoading: the rows are covered for a comparison
  differences, \* [Models -> [Types -> row or None]]
  resolutions, \* [Models -> [Types -> value or None]]
  confirm,     \* the models the confirmation lists, or None when it is closed
  save,        \* the save under way
  fetches, picks

ask  == <<dialog, chosen, fetching, covered, fetches>>
vars == <<ask, server, options, differences, resolutions, confirm, save, picks>>

NoPick == [t \in Types |-> None]
Nothing == [m \in Models |-> NoPick]

-----------------------------------------------------------------------------
(* The server.                                                               *)

\* What the column of a channel says: its value, "same", or None for unset.
UpstreamValue(local, c, t, m) ==
  IF Upstream[c][t][m] = local[t][m] THEN "same" ELSE Upstream[c][t][m]

Differs(v) == v \notin {"same", None}

\* A row is listed when some channel of those that answered differs, in the
\* columns of the channels that differ anywhere.
buildDifferences(local, answered) ==
  LET cell(c, t, m) == UpstreamValue(local, c, t, m)
      listed(t, m)  == \E c \in answered : Differs(cell(c, t, m))
      columns == {c \in answered :
                    \E t \in Types, m \in Models : Differs(cell(c, t, m))}
  IN [m \in Models |-> [t \in Types |->
        IF listed(t, m)
        THEN [current   |-> local[t][m],
              upstreams |-> [c \in columns |-> cell(c, t, m)]]
        ELSE None]]

-----------------------------------------------------------------------------
(* The page.                                                                 *)

getBillingCategory(t) == IF t = "model_price" THEN "price" ELSE "ratio"

Picked(r) == {t \in Types : r[t] # None}

Idle == [phase |-> "idle", puts |-> {}, value |-> Local, of |-> Nothing,
         failed |-> FALSE]

Init ==
  /\ server = Local /\ options = Local
  /\ dialog = FALSE /\ chosen = {}
  /\ fetching = <<>> /\ covered = FALSE
  /\ differences = Nothing /\ resolutions = Nothing
  /\ confirm = None
  /\ save = Idle
  /\ fetches = 0 /\ picks = 0

Uncovered == ~dialog /\ confirm = None /\ save.phase # "refreshing"

\* The rows take clicks when neither spinner of the table is on.
Rows == Uncovered /\ ~covered /\ save.phase = "idle"

openSelector ==
  /\ Uncovered /\ fetches < MaxFetches
  /\ dialog' = TRUE
  /\ UNCHANGED <<server, options, chosen, fetching, covered, differences,
                 resolutions, confirm, save, fetches, picks>>

\* Nothing chosen is only warned about.  A comparison may be asked for while
\* another, or a save, is under way.
confirmChannelSelection(cs) ==
  /\ dialog /\ cs # {}
  /\ dialog' = FALSE /\ chosen' = cs
  /\ fetching' = Append(fetching, cs) /\ covered' = TRUE
  /\ fetches' = fetches + 1
  /\ UNCHANGED <<server, options, differences, resolutions, confirm, save,
                 picks>>

handleModalClose ==
  /\ dialog
  /\ dialog' = FALSE
  /\ UNCHANGED <<server, options, chosen, fetching, covered, differences,
                 resolutions, confirm, save, fetches, picks>>

\* Channels that cannot be reached are warned about and left out.  Answers
\* come in any order, and the first of them uncovers the rows.
fetchRatiosFromChannels(i, answered) ==
  /\ answered \subseteq fetching[i]
  /\ answered # fetching[i] => "error" \in Faults
  /\ fetching' = RemoveAt(fetching, i) /\ covered' = FALSE
  /\ differences' = buildDifferences(server, answered)
  /\ resolutions' = Nothing
  /\ UNCHANGED <<server, options, dialog, chosen, confirm, save, fetches,
                 picks>>

fetchFails(i) ==
  /\ "refused" \in Faults
  /\ fetching' = RemoveAt(fetching, i) /\ covered' = FALSE
  /\ UNCHANGED <<server, options, dialog, chosen, differences, resolutions,
                 confirm, save, fetches, picks>>

\* Choosing a value drops the choices of the other way of billing.
selectValue(r, t, v) ==
  [u \in Types |->
     IF u = t THEN v
     ELSE IF getBillingCategory(u) = getBillingCategory(t) THEN r[u] ELSE None]

Pick ==
  /\ Rows /\ picks < MaxPicks /\ picks' = picks + 1
  /\ UNCHANGED <<ask, server, options, differences, confirm, save>>

Cell(m, t, c) ==
  IF differences[m][t] = None THEN None
  ELSE IF c \notin DOMAIN differences[m][t].upstreams THEN None
  ELSE differences[m][t].upstreams[c]

\* The checkbox of a cell: choosing its value, or withdrawing it.
checkCell(m, t, c) ==
  /\ Pick
  /\ Differs(Cell(m, t, c))
  /\ resolutions' = [resolutions EXCEPT ![m] =
       IF @[t] = Cell(m, t, c) THEN [@ EXCEPT ![t] = None]
       ELSE selectValue(@, t, Cell(m, t, c))]

\* The choices of a model after its row of type t, where it is listed.
AfterRow(r, m, t, ts, c) ==
  IF t \in ts /\ Differs(Cell(m, t, c)) THEN selectValue(r, t, Cell(m, t, c)) ELSE r

\* And after all its rows, in the order they are listed in.
AfterRows(r, m, ts, c) ==
  LET one   == AfterRow(r, m, TypeOrder[1], ts, c)
      two   == AfterRow(one, m, TypeOrder[2], ts, c)
      three == AfterRow(two, m, TypeOrder[3], ts, c)
  IN AfterRow(three, m, TypeOrder[4], ts, c)

\* The checkbox of a column, over the rows the search and the filter leave:
\* it selects them one after the other, or withdraws all their choices.
handleBulkSelect(ms, ts, c, on) ==
  LET clear(r, m) == [t \in Types |-> IF t \in ts /\ differences[m][t] # None
                                      THEN None ELSE r[t]]
      full == \A m \in ms, t \in ts :
                Differs(Cell(m, t, c)) => resolutions[m][t] = Cell(m, t, c)
  IN /\ Pick
     /\ \E m \in ms, t \in ts : Differs(Cell(m, t, c))
     /\ on = ~full
     /\ resolutions' = [m \in Models |->
          IF m \notin ms THEN resolutions[m]
          ELSE IF on THEN AfterRows(resolutions[m], m, ts, c)
          ELSE clear(resolutions[m], m)]

-----------------------------------------------------------------------------
(* Applying the choices.                                                     *)

Chosen == {m \in Models : Picked(resolutions[m]) # {}}

getLocalBillingCategory(o, m) ==
  IF o["model_price"][m] # None THEN "price"
  ELSE IF \E t \in Types : o[t][m] # None THEN "ratio" ELSE None

NewCategory(m) ==
  IF resolutions[m]["model_price"] # None THEN "price" ELSE "ratio"

Conflicts == {m \in Chosen : getLocalBillingCategory(options, m)
                               \notin {None, NewCategory(m)}}

finalRatios(o, r) ==
  LET dropped(t, m) ==
        \/ r[m]["model_price"] # None /\ getBillingCategory(t) = "ratio"
        \/ Picked(r[m]) \ {"model_price"} # {} /\ t = "model_price"
  IN [t \in Types |-> [m \in Models |->
        IF r[m][t] # None THEN r[m][t]
        ELSE IF dropped(t, m) THEN None ELSE o[t][m]]]

\* Four options are put at once, each with a request of its own.
performSync ==
  /\ save' = [phase |-> "saving", puts |-> Types, failed |-> FALSE,
              value |-> finalRatios(options, resolutions), of |-> resolutions]
  /\ UNCHANGED <<ask, server, options, differences, resolutions, picks>>

applySync ==
  /\ Uncovered /\ save.phase = "idle" /\ Chosen # {}
  /\ IF Conflicts = {}
     THEN performSync /\ UNCHANGED confirm
     ELSE /\ confirm' = Conflicts
          /\ UNCHANGED <<ask, server, options, differences, resolutions,
                         save, picks>>

confirmConflicts ==
  /\ confirm # None
  /\ confirm' = None
  /\ performSync

cancelConflicts ==
  /\ confirm # None
  /\ confirm' = None
  /\ UNCHANGED <<ask, server, options, differences, resolutions, save, picks>>

UpdateOption(t, ok) ==
  /\ save.phase = "saving" /\ t \in save.puts
  /\ ~ok => "refused" \in Faults
  /\ server' = IF ok THEN [server EXCEPT ![t] = save.value[t]] ELSE server
  /\ save' = [save EXCEPT !.puts = @ \ {t}, !.failed = @ \/ ~ok]
  /\ UNCHANGED <<ask, options, differences, resolutions, confirm, picks>>

\* On success the rows that were applied leave the table, and the choices go.
Synced ==
  /\ save.phase = "saving" /\ save.puts = {}
  /\ IF save.failed
     THEN save' = Idle /\ UNCHANGED <<differences, resolutions>>
     ELSE /\ save' = [save EXCEPT !.phase = "refreshing"]
          /\ differences' = [m \in Models |-> [t \in Types |->
               IF save.of[m][t] # None THEN None ELSE differences[m][t]]]
          /\ resolutions' = Nothing
  /\ UNCHANGED <<ask, server, options, confirm, picks>>

refresh(ok) ==
  /\ save.phase = "refreshing"
  /\ ~ok => "refused" \in Faults
  /\ options' = IF ok THEN server ELSE options
  /\ save' = Idle
  /\ UNCHANGED <<ask, server, differences, resolutions, confirm, picks>>

Next ==
  \/ openSelector \/ handleModalClose
  \/ \E cs \in SUBSET Channels : confirmChannelSelection(cs)
  \/ \E i \in DOMAIN fetching :
       \/ \E cs \in SUBSET Channels : fetchRatiosFromChannels(i, cs)
       \/ fetchFails(i)
  \/ \E m \in Models, t \in Types, c \in Channels : checkCell(m, t, c)
  \/ \E m \in Models, t \in Types, c \in Channels, on \in BOOLEAN :
       \E ms \in {Models, {m}}, ts \in {Types, {t}} :
          handleBulkSelect(ms, ts, c, on)
  \/ applySync \/ confirmConflicts \/ cancelConflicts
  \/ \E t \in Types, ok \in BOOLEAN : UpdateOption(t, ok)
  \/ Synced
  \/ \E ok \in BOOLEAN : refresh(ok)

Spec == Init /\ [][Next]_vars

-----------------------------------------------------------------------------
(* Properties.                                                               *)

TypeOK ==
  /\ DOMAIN server = Types /\ DOMAIN options = Types
  /\ chosen \subseteq Channels /\ dialog \in BOOLEAN
  /\ fetching \in Seq(SUBSET Channels) /\ covered \in BOOLEAN
  /\ confirm # None => confirm \subseteq Models
  /\ save.phase \in {"idle", "saving", "refreshing"} /\ save.puts \subseteq Types

\* What is about to be applied to a model is shown in its rows as the value of
\* some channel, and never mixes a fixed price with ratios, whatever cells
\* and columns were checked, in whatever order.
ChoicesAreOffered ==
  \A m \in Models :
    /\ \A t \in Picked(resolutions[m]) :
         \E c \in Channels : Cell(m, t, c) = resolutions[m][t]
    /\ \A t, u \in Picked(resolutions[m]) :
         getBillingCategory(t) = getBillingCategory(u)

\* A save that changes how a model is billed was confirmed for this model.  The
\* page judges by the options it read; after a save that failed in part it has
\* not read them again.
ChangeOfBillingIsConfirmed ==
  save.phase = "idle" /\ save'.phase = "saving" /\ options = server =>
    \A m \in Models :
      \/ getLocalBillingCategory(server, m)
           \in {None, getLocalBillingCategory(save'.value, m)}
      \/ confirm # None /\ m \in confirm

\* When a synchronisation is announced, every model that was chosen has the
\* chosen values and is billed in one way only, and the models that were not
\* chosen are on the server as the page read them.
AnnouncedIsApplied ==
  save.phase = "refreshing" =>
    \A m \in Models, t \in Types :
      IF Picked(save.of[m]) = {} THEN server[t][m] = options[t][m]
      ELSE /\ IF save.of[m][t] # None THEN server[t][m] = save.of[m][t]
              ELSE server[t][m] \in {options[t][m], None}
           /\ server[t][m] # None =>
                getLocalBillingCategory(server, m) = getBillingCategory(t)
=============================================================================
