---------------------------- MODULE AffinityRules ----------------------------
(* The channel affinity settings (web/src/pages/Setting/Operation/           *)
(* SettingsChannelAffinity.jsx): a list of rules, edited as a table with a   *)
(* dialog or typed as JSON, and four plain options beside it.                *)
(*                                                                           *)
(* A text is [is |-> "rules", of |-> the rules], or Other, JSON that is not  *)
(* an array, or Bad, which does not parse; two texts of one value are not    *)
(* told apart, and no rule is typed with an id.  Of a rule the name, the     *)
(* model patterns, the key sources and the override template are kept; a     *)
(* name is <<base, n>> and stands for base, or base-n when n > 1.  The plain *)
(* options are one.  The form is covered while it is saved, the tab while    *)
(* the options are read; a dialog is in front of both.  Two saves of the tab *)
(* at one time are OptionForms' subject and do not happen here.  The         *)
(* statistics of the affinity cache and their buttons are left out.          *)
EXTENDS Naturals, Sequences, SequencesExt, FiniteSets

CONSTANTS
  Bases,     \* names given to rules
  Typed,     \* texts typed in JSON mode
  Starts,    \* the rules stored at first
  Faults,    \* a subset of {"lost"}
  MaxEdits, MaxSaves,
  None

Source(type, at) == [type |-> type, at |-> at]
Rule(name, models, sources, template) ==
  [name |-> name, models |-> models, sources |-> sources, template |-> template]

Rules(list) == [is |-> "rules", of |-> list]
Other == [is |-> "other"]
Bad == [is |-> "bad"]

\* CHANNEL_AFFINITY_RULE_TEMPLATES.
Template(base) == Rule(<<base, 1>>, "p", <<Source("gjson", "x")>>, "object")
Templates == <<Template("codex"), Template("claude")>>

\* Two rules, one of them named like a template; and what may be typed.
First == Rule(<<"codex", 1>>, "p", <<Source("context_int", "x")>>, None)
Second == Rule(<<"r", 1>>, "q", <<Source("gjson", "x"), Source("gjson", "")>>, "object")
Examples == {<<First, Second>>}
SomeTexts == {Rules(<<Second>>), Other, Bad}

VARIABLES
  stored,            \* the options: [rules |-> text, plain |-> value]
  inForce,           \* the rules the relay applies
  inputs, inputsRow, \* the form, and what it compares with
  editMode,          \* "visual" or "json"
  rules,             \* the rows of the table: <<[id, rule]>>
  modal,             \* the rule dialog, or None
  confirm,           \* the rows the templates will be appended to, or None
  clean,             \* the rules had no unsaved changes when a dialog was opened
  status,            \* "idle"; "saving", "reading": this form; "tabSaving", "tabReading": another
  edits, saves

vars == <<stored, inForce, inputs, inputsRow, editMode, rules, modal, confirm, clean,
          status, edits, saves>>
server == <<stored, inForce>>

-----------------------------------------------------------------------------
(* Rules and texts.                                                          *)

Numbered(list) == [k \in DOMAIN list |-> [id |-> k - 1, rule |-> list[k]]]
Bare(rows) == [k \in DOMAIN rows |-> rows[k].rule]

parseRulesJson(text) == IF text.is = "rules" THEN Numbered(text.of) ELSE <<>>

rulesToJson(rows) == Rules(Bare(rows))

\* A name that is not taken yet.
makeUniqueName(taken, base) ==
  CHOOSE name \in {base} \X (1 .. Cardinality(taken) + 1) :
    name \notin taken /\ \A n \in 1 .. name[2] - 1 : <<base, n>> \in taken

\* A path belongs to gjson, a key to the others: one is dropped for the other.
normalizeKeySource(source, type) ==
  Source(type, IF (source.type = "gjson") = (type = "gjson") THEN source.at ELSE "")

validateKeySources(sources) ==
  sources # <<>> /\ \A k \in DOMAIN sources : sources[k].at # ""

\* Every change of the list numbers it anew and writes it to the form, and in
\* the visual mode the effect on the form's text reads it back.
updateRulesState(list) ==
  /\ inputs' = [inputs EXCEPT !.rules = Rules(list)]
  /\ rules' = IF editMode = "visual" THEN parseRulesJson(inputs'.rules) ELSE Numbered(list)

Changed == inputs # inputsRow

-----------------------------------------------------------------------------
(* The page.                                                                 *)

Init ==
  /\ stored \in {[rules |-> Rules(list), plain |-> 0] : list \in Starts}
  /\ inForce = stored.rules.of
  /\ inputs = stored /\ inputsRow = stored
  /\ rules = parseRulesJson(inputs.rules)
  /\ editMode = "visual" /\ modal = None /\ confirm = None /\ clean = TRUE
  /\ status = "idle" /\ edits = 0 /\ saves = 0

Uncovered == status \in {"idle", "tabSaving"} /\ modal = None /\ confirm = None

Edit ==
  /\ edits < MaxEdits /\ edits' = edits + 1
  /\ UNCHANGED <<server, inputsRow, status, saves>>

OnPage == Uncovered /\ Edit

setPlain ==
  /\ OnPage
  /\ inputs' = [inputs EXCEPT !.plain = 1 - @]
  /\ UNCHANGED <<editMode, rules, modal, confirm, clean>>

\* The JSON field; the rows are not read from it before the mode changes.
TypeText ==
  /\ OnPage /\ editMode = "json"
  /\ \E text \in Typed : inputs' = [inputs EXCEPT !.rules = text]
  /\ UNCHANGED <<editMode, rules, modal, confirm, clean>>

\* The button of the JSON mode, also when that mode is on.
switchToJsonMode ==
  /\ OnPage
  /\ editMode' = "json"
  /\ inputs' = [inputs EXCEPT !.rules = rulesToJson(rules)]
  /\ UNCHANGED <<rules, modal, confirm, clean>>

\* tryParseRulesJsonArray, and the effect on the mode.
switchToVisualMode ==
  /\ OnPage /\ inputs.rules.is = "rules"
  /\ editMode' = "visual"
  /\ rules' = parseRulesJson(inputs.rules)
  /\ UNCHANGED <<inputs, modal, confirm, clean>>

handleDeleteRule ==
  /\ OnPage /\ editMode = "visual"
  /\ \E row \in ToSet(rules) :
       updateRulesState(Bare(SelectSeq(rules, LAMBDA r : r.id # row.id)))
  /\ UNCHANGED <<editMode, modal, confirm, clean>>

doAppend(rows) ==
  LET bare == Bare(rows)
      taken == {bare[k].name : k \in DOMAIN bare}
      codex == [Templates[1] EXCEPT !.name = makeUniqueName(taken, @[1])]
      claude == [Templates[2] EXCEPT !.name = makeUniqueName(taken \cup {codex.name}, @[1])]
  IN updateRulesState(bare \o <<codex, claude>>)

\* With rules in the list a confirmation keeps the rows of the click.
appendCodexAndClaudeCodeTemplates ==
  /\ OnPage
  /\ clean' = ~Changed
  /\ IF rules = <<>> THEN doAppend(rules) /\ UNCHANGED confirm
                     ELSE confirm' = rules /\ UNCHANGED <<inputs, rules>>
  /\ UNCHANGED <<editMode, modal>>

ConfirmOk ==
  /\ confirm # None
  /\ doAppend(confirm)
  /\ confirm' = None
  /\ UNCHANGED <<server, inputsRow, editMode, modal, clean, status, edits, saves>>

ConfirmCancel ==
  /\ confirm # None
  /\ confirm' = None
  /\ UNCHANGED <<server, inputs, inputsRow, editMode, rules, modal, clean, status, edits, saves>>

-----------------------------------------------------------------------------
(* The dialog of a rule.                                                     *)

\* The dialog names its rule by id; origin is the rule it was opened for.
Dialog(id, rule, origin) == [id |-> id, rule |-> rule, origin |-> origin]

openAddModal ==
  /\ OnPage
  /\ modal' = Dialog(None, Rule(None, "", <<Source("gjson", "")>>, None), None)
  /\ clean' = ~Changed
  /\ UNCHANGED <<inputs, editMode, rules, confirm>>

handleEditRule ==
  /\ OnPage /\ editMode = "visual"
  /\ \E row \in ToSet(rules) : modal' = Dialog(row.id, row.rule, row.rule)
  /\ clean' = ~Changed
  /\ UNCHANGED <<inputs, editMode, rules, confirm>>

InDialog ==
  /\ modal # None /\ Edit
  /\ UNCHANGED <<inputs, editMode, rules, confirm, clean>>

TypeName ==
  /\ InDialog
  /\ \E base \in Bases : modal' = [modal EXCEPT !.rule.name = <<base, 1>>]

\* The text of the patterns, one on each line.
TypeModels ==
  /\ InDialog
  /\ \E models \in {"", "p"} : modal' = [modal EXCEPT !.rule.models = models]

updateKeySource ==
  /\ InDialog
  /\ \E k \in DOMAIN modal.rule.sources :
       \/ \E type \in {"gjson", "context_int"} :
            modal' = [modal EXCEPT !.rule.sources[k] = normalizeKeySource(@, type)]
       \/ modal' = [modal EXCEPT !.rule.sources[k].at = "x"]

addKeySource ==
  /\ InDialog
  /\ modal' = [modal EXCEPT !.rule.sources = Append(@, Source("gjson", ""))]

removeKeySource ==
  /\ InDialog
  /\ \E k \in DOMAIN modal.rule.sources : modal' = [modal EXCEPT !.rule.sources = RemoveAt(@, k)]

\* The template's own editor, and the button that empties it.
updateParamTemplateDraft ==
  /\ InDialog
  /\ \E draft \in {None, "object", "other"} : modal' = [modal EXCEPT !.rule.template = draft]

\* The row of the dialog's id, or the first one of the name in the dialog, or 0.
RowOf(dialog) ==
  LET byId == SelectInSeq(rules, LAMBDA r : r.id = dialog.id)
      byName == SelectInSeq(rules, LAMBDA r : r.rule.name = dialog.rule.name)
  IN IF byId # 0 THEN byId ELSE byName

ValidRule(rule) ==
  /\ rule.name # None /\ rule.models # "" /\ rule.template # "other"
  /\ validateKeySources(rule.sources)

handleModalSave ==
  /\ modal # None /\ ValidRule(modal.rule)
  /\ IF modal.id = None
     THEN updateRulesState(Append(Bare(rules), modal.rule))
     ELSE /\ RowOf(modal) # 0
          /\ updateRulesState([Bare(rules) EXCEPT ![RowOf(modal)] = modal.rule])
  /\ modal' = None
  /\ UNCHANGED <<server, inputsRow, editMode, confirm, clean, status, edits, saves>>

CancelModal ==
  /\ modal # None
  /\ modal' = None
  /\ UNCHANGED <<server, inputs, inputsRow, editMode, rules, confirm, clean, status, edits, saves>>

-----------------------------------------------------------------------------
(* Saving, and reading the options again.                                    *)

updateArray == {k \in {"rules", "plain"} : inputs[k] # inputsRow[k]}

onSubmit ==
  /\ Uncovered /\ status = "idle" /\ saves < MaxSaves
  /\ updateArray # {} /\ inputs.rules # Bad
  /\ status' = "saving" /\ saves' = saves + 1
  /\ UNCHANGED <<server, inputs, inputsRow, editMode, rules, modal, confirm, clean, edits>>

\* The requests are answered; those in lost never reached the server.  Rules
\* that are not an array are stored and not applied, and not refused.
UpdateOptions(lost) ==
  LET sent == updateArray \ lost
  IN /\ status = "saving"
     /\ lost \subseteq updateArray /\ (lost # {} => "lost" \in Faults)
     /\ stored' = [k \in {"rules", "plain"} |-> IF k \in sent THEN inputs[k] ELSE stored[k]]
     /\ inForce' = IF "rules" \in sent /\ inputs.rules.is = "rules" THEN inputs.rules.of ELSE inForce
     /\ status' = IF lost = {} THEN "reading" ELSE "idle"
     /\ UNCHANGED <<inputs, inputsRow, editMode, rules, modal, confirm, clean, edits, saves>>

\* Another form of the tab is saved; this one can be used until the answer.
TabSaves ==
  /\ Uncovered /\ status = "idle" /\ saves < MaxSaves
  /\ status' = "tabSaving" /\ saves' = saves + 1
  /\ UNCHANGED <<server, inputs, inputsRow, editMode, rules, modal, confirm, clean, edits>>

TabSaved ==
  /\ status = "tabSaving"
  /\ status' = "tabReading"
  /\ UNCHANGED <<server, inputs, inputsRow, editMode, rules, modal, confirm, clean, edits, saves>>

\* onRefresh and the effect on the options: form and rows are made anew, under
\* whatever dialog is open; a failed read changes nothing.
OptionsArrive ==
  /\ status \in {"reading", "tabReading"}
  /\ status' = "idle"
  /\ \/ inputs' = stored /\ inputsRow' = stored /\ rules' = parseRulesJson(stored.rules)
     \/ "lost" \in Faults /\ UNCHANGED <<inputs, inputsRow, rules>>
  /\ UNCHANGED <<server, editMode, modal, confirm, clean, edits, saves>>

Next ==
  \/ setPlain \/ TypeText \/ switchToJsonMode \/ switchToVisualMode
  \/ handleDeleteRule \/ appendCodexAndClaudeCodeTemplates \/ ConfirmOk \/ ConfirmCancel
  \/ openAddModal \/ handleEditRule \/ TypeName \/ TypeModels \/ updateKeySource
  \/ addKeySource \/ removeKeySource \/ updateParamTemplateDraft
  \/ handleModalSave \/ CancelModal
  \/ onSubmit \/ TabSaves \/ TabSaved \/ OptionsArrive
  \/ \E lost \in SUBSET {"rules", "plain"} : UpdateOptions(lost)

Spec == Init /\ [][Next]_vars

-----------------------------------------------------------------------------
(* Properties.                                                               *)

TypeOK ==
  /\ {stored.rules.is, inputs.rules.is, inputsRow.rules.is} \subseteq {"rules", "other", "bad"}
  /\ {stored.plain, inputs.plain, inputsRow.plain} \subseteq {0, 1}
  /\ editMode \in {"visual", "json"} /\ clean \in BOOLEAN
  /\ status \in {"idle", "saving", "reading", "tabSaving", "tabReading"}
  /\ \A k \in DOMAIN rules : rules[k].id \in Nat /\ DOMAIN rules[k].rule = DOMAIN First

\* The rows are found by different ids, also after removals, additions and
\* texts read anew (parseRulesJson, handleDeleteRule, handleModalSave).
KeysAreUnique == \A j, k \in DOMAIN rules : rules[j].id = rules[k].id => j = k

\* The table shows the rules a save would store (the effect on the text).
TableShowsText == editMode = "visual" => rules = parseRulesJson(inputs.rules)

\* A save that is announced is in force, unless the rules are no array; and
\* what the form compares with is stored, but for the time of its own save,
\* so that finding nothing to save means all is stored.  (One request of a
\* save that is lost, or the answer to its read, breaks both.)
AnnouncedIsInForce ==
  /\ status = "reading" => stored = inputs
  /\ status = "reading" /\ stored.rules.is = "rules" => inForce = inputs.rules.of
  /\ status # "reading" => inputsRow = stored

\* A dialog changes the rule it was opened for, and templates are added to the
\* rules there are and take no name of theirs, although the options may have
\* been read again meanwhile.  This is so for a list without unsaved changes;
\* others are lost by that read, and the dialog meets another list.
DialogTouchesItsRule ==
  /\ modal # None /\ modal.id # None /\ rules' # rules /\ handleModalSave /\ clean =>
       rules[RowOf(modal)].rule = modal.origin
  /\ ConfirmOk /\ clean /\ editMode = "visual" =>
       /\ IsPrefix(rules, rules')
       /\ \A j, k \in DOMAIN rules' :
            rules'[j].rule.name = rules'[k].rule.name /\ j # k => {j, k} \subseteq DOMAIN rules

=============================================================================
