--------------------------- MODULE ParamOverride ---------------------------
(* ParamOverrideEditorModal: the editor of a channel's parameter overrides, a *)
(* list of operations or plain keys, edited as a form or as JSON text, and    *)
(* what the relay (relay/common/override.go) makes of the result.             *)
EXTENDS Integers, Sequences, FiniteSets, SequencesExt

CONSTANTS Stored,     \* overrides that a channel has
          Modes,      \* modes of operations to check
          Typed,      \* texts that are typed as a value
          Statuses,   \* status codes that are typed
          MaxEdits,   \* bound on the edits of one opening
          MaxRules,   \* bound on the number of operations
          MaxOpens,   \* bound on the number of openings
          MaxIds,     \* bound on the ids after which the text is made a form
          None        \* a key that is absent

VARIABLES value,      \* the override in the channel's form
          visible, editMode, visualMode,
          legacyValue, operations, jsonText, jsonError,
          selected, dragged, over,
          localId, edits, opens

vars == <<value, visible, editMode, visualMode, legacyValue, operations, jsonText, jsonError, selected, dragged,
          over, localId, edits, opens>>

-----------------------------------------------------------------------------
\* A text is empty, plain or the JSON of a value; a string holds a text.
EmptyText == <<"empty">>
Plain(s) == <<"plain", s>>
JsonText(x) == <<"json", x>>
IsObject(x) == x[1] \in {"error", "prune"}

toValueText(x) == IF x = None THEN EmptyText ELSE IF x[1] = "string" THEN x[2] ELSE JsonText(x)
parseLooseValue(t) == IF t[1] = "json" THEN t[2] ELSE <<"string", t>>

\* An override: no text, text that is not JSON, JSON that is no object, or plain
\* keys with a list of operations (None if there is no such list).
Nothing == <<"nothing">>
Bad == <<"bad">>
NotObject == <<"array">>
Override(keys, ops) == <<"object", keys, ops>>
IsOperations(x) == x[1] = "object" /\ x[3] # None

\* MODE_META and the sets of required fields.
PathModes == {"delete", "set", "append", "prepend", "replace", "regex_replace", "trim_prefix", "trim_suffix",
              "ensure_prefix", "ensure_suffix", "trim_space", "to_lower", "to_upper", "set_header", "delete_header"}
ValueModes == {"set", "append", "prepend", "trim_prefix", "trim_suffix", "ensure_prefix", "ensure_suffix",
               "return_error", "prune_objects", "pass_headers", "set_header"}
KeepModes == {"set", "append", "prepend", "pass_headers", "set_header", "copy_header", "move_header"}
ToModes == {"copy", "move", "sync_fields", "copy_header", "move_header"}
FromModes == ToModes \cup {"replace", "regex_replace"}
AliasModes == {"copy_header", "move_header"}
ValueRequired == ValueModes \ {"set", "append", "prepend"}
AllModes == PathModes \cup ValueModes \cup FromModes

\* A stored operation or condition without the keys that it does not need.
Operation(mode) ==
  [mode |-> mode, path |-> None, value |-> None, keep_origin |-> None, from |-> None, to |-> None,
   conditions |-> None, logic |-> None]
Condition(path, x, inv) == [path |-> path, value |-> x, invert |-> inv]

Or(x, default) == IF x = None THEN default ELSE x

normalizeCondition(c) == [path |-> c.path, value_text |-> toValueText(c.value), invert |-> c.invert]

\* Conditions count only as a list: the shorthand with one object is not one.
normalizeOperation(o, id) ==
  [id |-> id, mode |-> IF o.mode \in AllModes THEN o.mode ELSE "set", path |-> Or(o.path, ""),
   value_text |-> toValueText(o.value), keep_origin |-> Or(o.keep_origin, FALSE),
   from |-> Or(o.from, ""), to |-> Or(o.to, ""), logic |-> Or(o.logic, "OR"),
   conditions |-> IF o.conditions = None \/ o.conditions[1] = "shorthand" THEN <<>>
                  ELSE [k \in DOMAIN o.conditions[2] |-> normalizeCondition(o.conditions[2][k])]]

DefaultOperation(id) == normalizeOperation(Operation("set"), id)

isOperationBlank(o) ==
  /\ o.mode = "set" /\ o.path = "" /\ o.from = "" /\ o.to = "" /\ o.value_text = EmptyText /\ ~o.keep_origin
  /\ \A k \in DOMAIN o.conditions :
       o.conditions[k].path = "" /\ o.conditions[k].value_text = EmptyText /\ ~o.conditions[k].invert

-----------------------------------------------------------------------------
\* The drafts of two modes, read from the value's text and written back to it.
parseReturnErrorDraft(t) ==
  CASE t[1] = "json" /\ t[2][1] = "error" ->
         [message |-> t[2][2], status |-> IF t[2][3] \in 100..599 THEN t[2][3] ELSE 400, skip |-> t[2][4], simple |-> FALSE]
    [] t[1] = "json" /\ t[2][1] = "prune" -> [message |-> EmptyText, status |-> 400, skip |-> TRUE, simple |-> FALSE]
    [] OTHER -> [message |-> t, status |-> 400, skip |-> TRUE, simple |-> TRUE]

buildReturnErrorValueText(d) ==
  IF d.simple THEN d.message
  ELSE JsonText(<<"error", d.message, IF d.status \in 100..599 THEN d.status ELSE 400, d.skip>>)

\* <<"prune", type, logic, recursive, conditions>>
parsePruneObjectsDraft(t) ==
  IF t[1] = "json" /\ t[2][1] = "prune"
  THEN [typeText |-> Or(t[2][2], EmptyText), logic |-> Or(t[2][3], "AND"), recursive |-> Or(t[2][4], TRUE),
        rules |-> IF t[2][5] = None THEN <<>> ELSE [k \in DOMAIN t[2][5] |-> normalizeCondition(t[2][5][k])],
        simple |-> t[2][3] = None /\ t[2][4] = None /\ t[2][5] = None]
  ELSE [typeText |-> CASE t[1] = "json" /\ t[2][1] = "string" -> t[2][2]
                       [] t[1] = "json" /\ t[2][1] = "error" -> EmptyText
                       [] OTHER -> t,
        logic |-> "AND", recursive |-> TRUE, rules |-> <<>>, simple |-> TRUE]

buildPruneObjectsValueText(d) ==
  LET named == SelectSeq(d.rules, LAMBDA r : r.path # "")
      conditions == [k \in DOMAIN named |->
        Condition(named[k].path, IF named[k].value_text = EmptyText THEN None ELSE parseLooseValue(named[k].value_text),
                  named[k].invert)]
  IN CASE d.simple -> d.typeText
       [] ~d.simple /\ d.typeText = EmptyText /\ conditions = <<>> -> JsonText(<<"prune", None, "AND", None, None>>)
       [] OTHER -> JsonText(<<"prune", IF d.typeText = EmptyText THEN None ELSE d.typeText,
                              IF d.logic = "OR" THEN "OR" ELSE None, IF d.recursive THEN None ELSE FALSE,
                              IF conditions = <<>> THEN None ELSE conditions>>)

\* The key is the same on both sides of a colon here: only the side is chosen.
SyncSpecs == {"json:p", "header:p"}

validateOperation(o) ==
  LET v == parseLooseValue(o.value_text)
  IN /\ o.mode \in PathModes => o.path # ""
     /\ o.mode \in FromModes => o.from # ""
     /\ o.mode \in ToModes => o.to # ""
     /\ o.mode \in ValueRequired => o.value_text # EmptyText
     /\ o.mode = "return_error" /\ IsObject(v) => v[1] = "error" /\ v[2] # EmptyText
     /\ o.mode = "prune_objects" /\ IsObject(v) => v[1] = "prune" /\ (v[2] # None \/ v[5] # None)
     /\ o.mode = "pass_headers" => v[1] \in {"string", "names"}

buildConditionPayload(c) == Condition(c.path, parseLooseValue(c.value_text), c.invert)

\* One operation as buildOperationsJson writes it.
PayloadOf(o) ==
  LET from == IF o.mode \in FromModes THEN o.from ELSE None
      to == IF o.mode \in ToModes \/ o.to # "" THEN o.to ELSE None
      alias(x) == IF o.mode \in AliasModes /\ x \in {None, ""} /\ o.path # "" THEN o.path ELSE x
      kept == SelectSeq(o.conditions, LAMBDA c : c.path # "")
  IN [mode |-> o.mode,
      path |-> IF o.mode \in PathModes \/ (o.mode = "prune_objects" /\ o.path # "") THEN o.path ELSE None,
      value |-> IF o.mode \in ValueModes THEN parseLooseValue(o.value_text) ELSE None,
      keep_origin |-> IF o.mode \in KeepModes /\ o.keep_origin THEN TRUE ELSE None,
      from |-> alias(from), to |-> alias(to),
      conditions |-> IF kept = <<>> THEN None
                     ELSE <<"list", [k \in DOMAIN kept |-> buildConditionPayload(kept[k])]>>,
      logic |-> IF kept = <<>> THEN None ELSE o.logic]

buildOperationsJson(ops) ==
  LET filled == SelectSeq(ops, LAMBDA o : ~isOperationBlank(o))
  IN IF filled = <<>> THEN Nothing ELSE Override({}, [k \in DOMAIN filled |-> PayloadOf(filled[k])])

CanBuild ==
  IF visualMode = "legacy" THEN legacyValue = Nothing \/ legacyValue[1] = "object"
  ELSE \A k \in DOMAIN operations : isOperationBlank(operations[k]) \/ validateOperation(operations[k])

buildVisualJson == IF visualMode = "legacy" THEN legacyValue ELSE buildOperationsJson(operations)

\* Two of the templates: plain keys, and an operation with a condition.
LegacyTemplate == Override({"temperature"}, None)
OperationTemplate ==
  <<[Operation("set") EXCEPT !.path = "p", !.value = <<"number", 1>>, !.logic = "AND",
       !.conditions = <<"list", <<Condition("q", <<"string", Plain("a")>>, FALSE)>>>>]>>

\* Overrides of every kind: with and without operations, of modes with each form
\* of value, and with plain keys beside the operations, as the relay takes them.
Samples ==
  {Nothing, Bad, NotObject, Override({"temperature"}, None),
   Override({}, OperationTemplate),
   Override({}, <<[Operation("return_error") EXCEPT !.value = <<"error", Plain("a"), 401, FALSE>>],
                  [Operation("replace") EXCEPT !.path = "p", !.from = "q"]>>),
   Override({}, <<[Operation("prune_objects") EXCEPT
                     !.value = <<"prune", None, "OR", FALSE, <<Condition("q", <<"number", 1>>, TRUE)>>>>],
                  [Operation("copy_header") EXCEPT !.path = "p", !.keep_origin = TRUE]>>)}
-----------------------------------------------------------------------------
Init ==
  /\ value \in Stored /\ visible = FALSE /\ editMode = "visual" /\ visualMode = "operations"
  /\ legacyValue = Nothing /\ operations = <<DefaultOperation(0)>> /\ jsonText = Nothing /\ jsonError = FALSE
  /\ selected = 0 /\ dragged = None /\ over = None /\ localId = 1 /\ edits = 0 /\ opens = 0

\* The form is filled from an override; ids are never used twice.
Fills(x) ==
  /\ operations' = IF IsOperations(x) /\ x[3] # <<>>
                   THEN [k \in DOMAIN x[3] |-> normalizeOperation(x[3][k], localId + k)]
                   ELSE <<DefaultOperation(localId + 1)>>
  /\ localId' = localId + Len(operations') /\ selected' = operations'[1].id
  /\ visualMode' = IF x[1] = "object" /\ x[3] = None THEN "legacy" ELSE "operations"
  /\ legacyValue' = IF x[1] = "object" /\ x[3] = None THEN x ELSE Nothing

Open ==
  /\ ~visible /\ opens < MaxOpens
  /\ visible' = TRUE /\ opens' = opens + 1 /\ edits' = 0
  /\ Fills(value)
  /\ editMode' = IF value \in {Bad, NotObject} THEN "json" ELSE "visual"
  /\ jsonText' = value /\ jsonError' = (value = Bad) /\ dragged' = None /\ over' = None
  /\ UNCHANGED value

Edit == visible /\ dragged = None /\ edits < MaxEdits /\ edits' = edits + 1
InForm == editMode = "visual" /\ visualMode = "operations"
Position(id) == CHOOSE k \in DOMAIN operations : operations[k].id = id
Selected == operations[Position(selected)]

\* updateOperation of the selected operation.
Patch(o) ==
  /\ Edit /\ InForm /\ operations' = [operations EXCEPT ![Position(selected)] = o]
  /\ UNCHANGED <<value, visible, editMode, visualMode, legacyValue, jsonText, jsonError, selected, dragged, over,
                 localId, opens>>

SetMode(m) == Patch([Selected EXCEPT !.mode = m])
SetPath(p) == Selected.mode \in PathModes \cup {"prune_objects"} /\ Patch([Selected EXCEPT !.path = p])
SetFrom(p) == Selected.mode \in FromModes /\ Patch([Selected EXCEPT !.from = p])
SetTo(p) == Selected.mode \in FromModes /\ Patch([Selected EXCEPT !.to = p])
SetValue(t) ==
  Selected.mode \in ValueModes \ {"return_error", "prune_objects"} /\ Patch([Selected EXCEPT !.value_text = t])
SetKeep(b) == Selected.mode \in KeepModes /\ Patch([Selected EXCEPT !.keep_origin = b])
SetLogic(l) == Patch([Selected EXCEPT !.logic = l])

\* A field of the guide is put into the path, the source or the target.
ApplyBuiltinField(target) ==
  LET spec == IF Selected.mode = "sync_fields" THEN "json:p" ELSE "p"
  IN \/ /\ target = "path" /\ Selected.mode \in PathModes \cup AliasModes \cup {"prune_objects"}
        /\ Patch([Selected EXCEPT !.path = "p"])
     \/ target = "from" /\ Selected.mode \in FromModes /\ Patch([Selected EXCEPT !.from = spec])
     \/ target = "to" /\ Selected.mode \in ToModes /\ Patch([Selected EXCEPT !.to = spec])

\* Names in the fields: those of a synchronisation carry their side.
Names == IF Selected.mode = "sync_fields" THEN SyncSpecs \cup {""} ELSE {"", "p", "q"}

UpdateReturnErrorDraft(d) ==
  /\ Selected.mode = "return_error"
  /\ Patch([Selected EXCEPT !.value_text = buildReturnErrorValueText(d)])
UpdatePruneObjectsDraft(d) ==
  /\ Selected.mode = "prune_objects"
  /\ Patch([Selected EXCEPT !.value_text = buildPruneObjectsValueText(d)])

ErrorDraft == parseReturnErrorDraft(Selected.value_text)
PruneDraft == parsePruneObjectsDraft(Selected.value_text)

EditReturnError ==
  \/ \E b \in BOOLEAN : UpdateReturnErrorDraft([ErrorDraft EXCEPT !.simple = b])
  \/ \E t \in Typed \cup {EmptyText} : UpdateReturnErrorDraft([ErrorDraft EXCEPT !.message = t])
  \/ \E s \in Statuses : ~ErrorDraft.simple /\ UpdateReturnErrorDraft([ErrorDraft EXCEPT !.status = s])
  \/ \E b \in BOOLEAN : ~ErrorDraft.simple /\ UpdateReturnErrorDraft([ErrorDraft EXCEPT !.skip = b])

EditPruneObjects ==
  \/ \E b \in BOOLEAN : UpdatePruneObjectsDraft([PruneDraft EXCEPT !.simple = b])
  \/ \E t \in Typed \cup {EmptyText} : UpdatePruneObjectsDraft([PruneDraft EXCEPT !.typeText = t])
  \/ \E l \in {"AND", "OR"} : ~PruneDraft.simple /\ UpdatePruneObjectsDraft([PruneDraft EXCEPT !.logic = l])
  \/ \E b \in BOOLEAN : ~PruneDraft.simple /\ UpdatePruneObjectsDraft([PruneDraft EXCEPT !.recursive = b])

BlankRule == [path |-> "", value_text |-> EmptyText, invert |-> FALSE]
AddPruneRule ==
  ~PruneDraft.simple /\ UpdatePruneObjectsDraft([PruneDraft EXCEPT !.simple = FALSE, !.rules = Append(@, BlankRule)])
UpdatePruneRule ==
  \E k \in DOMAIN PruneDraft.rules :
    \/ \E p \in {"", "q"} : UpdatePruneObjectsDraft([PruneDraft EXCEPT !.rules[k].path = p])
    \/ \E t \in Typed : UpdatePruneObjectsDraft([PruneDraft EXCEPT !.rules[k].value_text = t])
    \/ UpdatePruneObjectsDraft([PruneDraft EXCEPT !.rules[k].invert = ~@])
RemovePruneRule ==
  \E k \in DOMAIN PruneDraft.rules : UpdatePruneObjectsDraft([PruneDraft EXCEPT !.rules = RemoveAt(@, k)])

AddCondition == Len(Selected.conditions) < 2 /\ Patch([Selected EXCEPT !.conditions = Append(@, BlankRule)])
UpdateCondition ==
  \E k \in DOMAIN Selected.conditions :
    \/ \E p \in {"", "q"} : Patch([Selected EXCEPT !.conditions[k].path = p])
    \/ \E t \in Typed : Patch([Selected EXCEPT !.conditions[k].value_text = t])
    \/ Patch([Selected EXCEPT !.conditions[k].invert = ~@])
RemoveCondition == \E k \in DOMAIN Selected.conditions : Patch([Selected EXCEPT !.conditions = RemoveAt(@, k)])

-----------------------------------------------------------------------------
\* The list of operations. Another one is selected when the selected one is gone.
SetOperations(ops, id, n) ==
  /\ Edit /\ InForm /\ Len(ops) <= MaxRules
  /\ operations' = ops /\ selected' = id /\ localId' = localId + n
  /\ UNCHANGED <<value, visible, editMode, visualMode, legacyValue, jsonText, jsonError, opens>>

Select(id) ==
  /\ visible /\ InForm /\ id # selected /\ selected' = id
  /\ UNCHANGED <<value, visible, editMode, visualMode, legacyValue, operations, jsonText, jsonError, dragged, over,
                 localId, edits, opens>>

AddOperation ==
  SetOperations(Append(operations, DefaultOperation(localId + 1)), localId + 1, 1) /\ UNCHANGED <<dragged, over>>

\* The clone is made from the payload of every field and normalised again.
DuplicateOperation ==
  LET k == Position(selected)
      o == Selected
      clone == normalizeOperation(
        [mode |-> o.mode, path |-> o.path, value |-> parseLooseValue(o.value_text), keep_origin |-> o.keep_origin,
         from |-> o.from, to |-> o.to, logic |-> o.logic,
         conditions |-> <<"list", [j \in DOMAIN o.conditions |-> buildConditionPayload(o.conditions[j])]>>], localId + 1)
  IN SetOperations(InsertAt(operations, k + 1, clone), localId + 1, 1) /\ UNCHANGED <<dragged, over>>

RemoveOperation ==
  LET rest == RemoveAt(operations, Position(selected))
  IN /\ IF Len(operations) = 1 THEN SetOperations(<<DefaultOperation(localId + 1)>>, localId + 1, 1)
        ELSE SetOperations(rest, rest[1].id, 0)
     /\ UNCHANGED <<dragged, over>>

DragStart(id) ==
  /\ visible /\ InForm /\ Len(operations) > 1 /\ dragged = None /\ edits < MaxEdits /\ dragged' = id /\ selected' = id
  /\ UNCHANGED <<value, visible, editMode, visualMode, legacyValue, operations, jsonText, jsonError, over, localId,
                 edits, opens>>

DragOver(id, position) ==
  /\ visible /\ InForm /\ dragged \notin {None, id} /\ over' = <<id, position>> /\ over' # over
  /\ UNCHANGED <<value, visible, editMode, visualMode, legacyValue, operations, jsonText, jsonError, selected, dragged,
                 localId, edits, opens>>

\* The moved operation is taken out before the place of its target is looked up.
reorderOperations(ops, source, target, position) ==
  LET moved == CHOOSE k \in DOMAIN ops : ops[k].id = source
      rest == RemoveAt(ops, moved)
      at == CHOOSE k \in DOMAIN rest : rest[k].id = target
  IN IF source = target THEN ops
     ELSE InsertAt(rest, IF position = "after" THEN at + 1 ELSE at, ops[moved])

\* A drop is over the place that was last dragged over, or over the dragged one.
Drop(id) ==
  /\ visible /\ InForm /\ dragged # None /\ (id = dragged \/ (over # None /\ over[1] = id))
  /\ LET position == IF over # None /\ over[1] = id THEN over[2] ELSE "before"
     IN operations' = reorderOperations(operations, dragged, id, position)
  /\ selected' = dragged /\ dragged' = None /\ over' = None /\ edits' = edits + 1
  /\ UNCHANGED <<value, visible, editMode, visualMode, legacyValue, jsonText, jsonError, localId, opens>>

-----------------------------------------------------------------------------
\* The text is built even from operations that do not pass.
SwitchToJsonMode ==
  /\ visible /\ dragged = None /\ editMode = "visual" /\ editMode' = "json"
  /\ jsonText' = buildVisualJson /\ jsonError' = ~CanBuild
  /\ UNCHANGED <<value, visible, visualMode, legacyValue, operations, selected, dragged, over, localId, edits, opens>>

SwitchToVisualMode ==
  /\ visible /\ dragged = None /\ editMode = "json" /\ jsonText \notin {Bad, NotObject} /\ localId < MaxIds
  /\ editMode' = "visual" /\ jsonError' = FALSE /\ Fills(jsonText)
  /\ UNCHANGED <<value, visible, jsonText, dragged, over, edits, opens>>

HandleJsonChange(x) ==
  /\ Edit /\ editMode = "json" /\ jsonText' = x /\ jsonError' = (x = Bad)
  /\ UNCHANGED <<value, visible, editMode, visualMode, legacyValue, operations, selected, dragged, over, localId, opens>>

ChangeLegacy(x) ==
  /\ Edit /\ editMode = "visual" /\ visualMode = "legacy" /\ legacyValue' = x
  /\ UNCHANGED <<value, visible, editMode, visualMode, operations, jsonText, jsonError, selected, dragged, over,
                 localId, opens>>

FillTemplate(x) ==
  /\ Edit /\ Fills(x) /\ jsonText' = x /\ jsonError' = FALSE /\ editMode' = "visual"
  /\ UNCHANGED <<value, visible, dragged, over, opens>>

\* Plain keys are merged under the ones that are there, operations are put after
\* them; what the other kind held is dropped, and text that was typed as JSON too.
AppendTemplate(x) ==
  /\ Edit /\ jsonError' = FALSE /\ editMode' = "visual"
  /\ IF IsOperations(x)
     THEN LET filled == IF visualMode = "operations" THEN SelectSeq(operations, LAMBDA o : ~isOperationBlank(o)) ELSE <<>>
          IN /\ Len(filled) < MaxRules
             /\ operations' = filled \o [k \in DOMAIN x[3] |-> normalizeOperation(x[3][k], localId + k)]
             /\ selected' = operations'[1].id /\ localId' = localId + Len(x[3])
             /\ visualMode' = "operations" /\ legacyValue' = Nothing /\ jsonText' = Nothing
     ELSE /\ visualMode = "legacy" => legacyValue \notin {Bad, NotObject}
          /\ LET here == IF visualMode = "legacy" /\ legacyValue # Nothing THEN legacyValue ELSE Override({}, None)
                 merged == Override(x[2] \cup here[2], here[3])
             IN visualMode' = "legacy" /\ legacyValue' = merged /\ jsonText' = merged
          /\ operations' = <<DefaultOperation(localId + 1)>> /\ selected' = localId + 1 /\ localId' = localId + 1
  /\ UNCHANGED <<value, visible, dragged, over, opens>>

ResetEditorState ==
  /\ Edit /\ Fills(Nothing) /\ jsonText' = Nothing /\ jsonError' = FALSE /\ editMode' = "visual"
  /\ UNCHANGED <<value, visible, dragged, over, opens>>

\* What a save hands to the channel's form, if it can be built.
Result == IF editMode = "json" THEN jsonText ELSE buildVisualJson

HandleSave ==
  /\ visible /\ dragged = None
  /\ IF editMode = "json" THEN jsonText # Bad ELSE CanBuild
  /\ value' = Result /\ visible' = FALSE
  /\ UNCHANGED <<editMode, visualMode, legacyValue, operations, jsonText, jsonError, selected, dragged, over, localId,
                 edits, opens>>

Cancel ==
  /\ visible /\ dragged = None /\ visible' = FALSE
  /\ UNCHANGED <<value, editMode, visualMode, legacyValue, operations, jsonText, jsonError, selected, dragged, over,
                 localId, edits, opens>>

Ids == {operations[k].id : k \in DOMAIN operations}

Next ==
  \/ Open \/ HandleSave \/ Cancel
  \/ \E m \in Modes : SetMode(m)
  \/ \E p \in Names : SetPath(p)
  \/ \E p \in Names : SetFrom(p)
  \/ \E p \in Names : SetTo(p)
  \/ \E t \in Typed : SetValue(t)
  \/ \E b \in BOOLEAN : SetKeep(b)
  \/ \E l \in {"AND", "OR"} : SetLogic(l)
  \/ \E target \in {"path", "from", "to"} : ApplyBuiltinField(target)
  \/ EditReturnError
  \/ EditPruneObjects
  \/ AddPruneRule
  \/ UpdatePruneRule
  \/ RemovePruneRule
  \/ AddCondition
  \/ UpdateCondition
  \/ RemoveCondition
  \/ \E id \in Ids : Select(id)
  \/ AddOperation
  \/ DuplicateOperation
  \/ RemoveOperation
  \/ \E id \in Ids : DragStart(id)
  \/ \E id \in Ids, position \in {"before", "after"} : DragOver(id, position)
  \/ \E id \in Ids : Drop(id)
  \/ SwitchToJsonMode
  \/ SwitchToVisualMode
  \/ \E x \in Stored : HandleJsonChange(x)
  \/ \E x \in Stored : ChangeLegacy(x)
  \/ \E x \in {LegacyTemplate, Override({}, OperationTemplate)} : FillTemplate(x)
  \/ \E x \in {LegacyTemplate, Override({}, OperationTemplate)} : AppendTemplate(x)
  \/ ResetEditorState

Spec == Init /\ [][Next]_vars

-----------------------------------------------------------------------------
\* What the relay does with an operation: its fields after the defaults, without
\* the ones that its mode ignores. A header's source and target may be the path.
Meaning(o) ==
  LET alias(x) == IF o.mode \in AliasModes /\ Or(x, "") = "" THEN Or(o.path, "") ELSE Or(x, "")
  IN [mode |-> o.mode, path |-> IF o.mode \in PathModes \cup {"prune_objects"} THEN Or(o.path, "") ELSE "",
      value |-> IF o.mode \in ValueModes THEN o.value ELSE None, keep |-> o.mode \in KeepModes /\ Or(o.keep_origin, FALSE),
      from |-> IF o.mode \in FromModes THEN alias(o.from) ELSE "", to |-> IF o.mode \in FromModes THEN alias(o.to) ELSE "",
      conditions |-> IF o.conditions = None THEN <<>> ELSE o.conditions[2],
      logic |-> IF o.conditions = None THEN "OR" ELSE Or(o.logic, "OR")]

\* Plain keys are applied first, then the operations in their order.
MeaningOf(x) ==
  IF x[1] # "object" THEN <<{}, <<>>>>
  ELSE <<x[2], IF x[3] = None THEN <<>> ELSE [k \in DOMAIN x[3] |-> Meaning(x[3][k])]>>

\* applyOperations and the parsers of its values return no error for the shape.
Accepts(o) ==
  LET m == Meaning(o)
  IN /\ m.mode \in AllModes
     /\ m.mode \in PathModes => m.path # ""
     /\ m.mode \in FromModes => m.from # ""
     /\ m.mode \in ToModes => m.to # ""
     /\ m.mode = "sync_fields" => {m.from, m.to} \subseteq SyncSpecs \cup {"p", "q"}
     /\ m.mode = "return_error" => \/ m.value[1] = "string" /\ m.value[2] # EmptyText
                                   \/ m.value[1] = "error" /\ m.value[2] # EmptyText /\ m.value[3] <= 511
     /\ m.mode = "prune_objects" => \/ m.value[1] = "string" /\ m.value[2] # EmptyText
                                    \/ m.value[1] = "prune" /\ (m.value[2] # None \/ m.value[5] # None)
     /\ m.mode = "pass_headers" => m.value[1] \in {"string", "names"} /\ m.value # <<"string", EmptyText>>
     /\ \A k \in DOMAIN m.conditions : m.conditions[k].path # ""

-----------------------------------------------------------------------------
TypeOK ==
  /\ editMode \in {"visual", "json"} /\ visualMode \in {"operations", "legacy"} /\ jsonError \in BOOLEAN
  /\ operations # <<>> /\ selected \in Ids /\ Cardinality(Ids) = Len(operations)
  /\ \A id \in Ids : id <= localId

\* The relay accepts every operation that the form lets pass: a list of rules
\* that saves without a complaint does not make the channel's requests fail. The
\* one exception is a bare number or list as an error's message or a type.
Literal(o) == o.mode \in {"return_error", "prune_objects"} /\ o.value[1] \in {"number", "names"}
SavedIsAccepted ==
  visible /\ editMode = "visual" /\ CanBuild /\ IsOperations(Result) /\ visualMode = "operations" =>
    \A k \in DOMAIN Result[3] : Accepts(Result[3][k]) \/ Literal(Result[3][k])

\* Opening the editor and saving without an edit, also by way of the JSON text
\* and back, leaves the relay with the same operations, values and conditions.
UneditedMeansTheSame ==
  value' # value /\ edits = 0 => MeaningOf(value') = MeaningOf(value)

\* What was saved from the form can be opened and saved again as it is.
SavedIsStable ==
  visible /\ editMode = "visual" /\ CanBuild /\ IsOperations(Result) /\ visualMode = "operations" =>
    buildOperationsJson([k \in DOMAIN Result[3] |-> normalizeOperation(Result[3][k], k)]) = Result

\* A dropped operation is next to its target, and the others keep their order.
DropKeepsOrder ==
  dragged # None /\ dragged' = None /\ visible' /\ operations' # operations =>
    /\ SelectSeq(operations', LAMBDA o : o.id # dragged) = SelectSeq(operations, LAMBDA o : o.id # dragged)
    /\ over # None => \E k \in DOMAIN operations' : operations'[k].id = over[1] /\
         LET j == IF over[2] = "after" THEN k + 1 ELSE k - 1
         IN j \in DOMAIN operations' /\ operations'[j].id = dragged

=============================================================================
