---------------------------- MODULE GroupSettings ----------------------------
(* The group settings of the ratio page (web/src/pages/Setting/Ratio/        *)
(* GroupRatioSettings.jsx and its four editors), with the options they are   *)
(* saved to and what the server then applies.  Each editor shows the JSON of *)
(* an option as a list of rows and writes the list back on every change; the *)
(* options can also be typed.                                                *)
(*                                                                           *)
(* A text is [is |-> "json", of |-> the value it reads as], or Empty, or Bad *)
(* for one that does not parse; two texts of one value are not told apart.   *)
(* The rows of a list come in the order of the object's keys, here some      *)
(* fixed order.  The form is covered while a save runs and while the options *)
(* are read again.  The switch that uses the automatic groups by default is  *)
(* a sixth option of the form without an editor, and is left out.            *)
EXTENDS Integers, Sequences, SequencesExt, FiniteSets, TLC

CONSTANTS
  Groups,     \* names of groups
  Ratios,     \* ratios typed into the rows
  Texts,      \* what is typed into the fields: texts other than Bad
  Starts,     \* the options at first
  Editors,    \* the editors used: a subset of {"table", "auto", "rules", "special"}
  Faults,     \* a subset of {"lost"}
  MaxRows, MaxEdits, MaxSaves

Special == "group_ratio_setting.group_special_usable_group"
Keys == {"GroupRatio", "UserUsableGroups", "GroupGroupRatio", Special, "AutoGroups"}

Empty == [is |-> "empty"]
Bad == [is |-> "bad"]
Json(v) == [is |-> "json", of |-> v]
NoMap == <<>>   \* the function with an empty domain

\* Settings with a group that has no ratio, one that is not selectable, a
\* group with two rules; and what an administrator may type over them.
Example ==
  [k \in Keys |->
    Json(CASE k = "GroupRatio" -> "default" :> 2 @@ "vip" :> 1
           [] k = "UserUsableGroups" -> {"default", "svip"}
           [] k = "GroupGroupRatio" -> <<"vip", "default">> :> 0 @@ <<"vip", "vip">> :> 2
           [] k = "AutoGroups" -> <<"default">>
           [] OTHER -> {[user |-> "vip", op |-> "add", target |-> "svip"]})]

Examples == {Example}

Retyped == "GroupRatio" :> Json("vip" :> 0) @@ "AutoGroups" :> Empty
             @@ "GroupGroupRatio" :> Json(NoMap)

VARIABLES
  stored,   \* the options as the server keeps and shows them: [Keys -> text]
  inForce,  \* what the server applies: [Keys -> value]
  inputs, inputsRow, \* the texts of the form and those it compares with
  editMode, \* "visual" or "manual"
  rows,     \* GroupTable: <<[name, ratio, selectable]>>
  items,    \* AutoGroupList: names
  rules,    \* GroupGroupRatioRules: <<[user, using, ratio]>>
  specials, \* GroupSpecialUsableRules: <<[user, op, target]>>
  status,   \* "idle", "saving" or "saved", when success was told
  edits, saves

lists == <<rows, items, rules, specials>>
vars == <<stored, inForce, inputs, inputsRow, editMode, lists, status, edits, saves>>

-----------------------------------------------------------------------------
(* The editors: from an option to rows, and back.  An empty name is "".      *)

parse(text, fallback) == IF text.is = "json" THEN text.of ELSE fallback

Keyed(f) == SetToSeq(DOMAIN f)

buildRows(in) ==
  LET ratio  == parse(in["GroupRatio"], NoMap)
      usable == parse(in["UserUsableGroups"], {})
      names  == SetToSeq(DOMAIN ratio \cup usable)
  IN [i \in DOMAIN names |->
        [name |-> names[i],
         ratio |-> IF names[i] \in DOMAIN ratio THEN ratio[names[i]] ELSE 1,
         selectable |-> names[i] \in usable]]

\* The last of several rows of a name decides its ratio, any of them makes it
\* selectable.
serializeGroupTable(rs) ==
  LET named == {rs[i].name : i \in DOMAIN rs} \ {""}
      last(n) == CHOOSE i \in DOMAIN rs :
                   /\ rs[i].name = n
                   /\ \A j \in DOMAIN rs : rs[j].name = n => j <= i
  IN [ratio  |-> Json([n \in named |-> rs[last(n)].ratio]),
      usable |-> Json({n \in named : \E i \in DOMAIN rs :
                                        rs[i].name = n /\ rs[i].selectable})]

parseAutoGroups(in) == parse(in["AutoGroups"], <<>>)

serializeAutoGroups(is) ==
  LET names == SelectSeq(is, LAMBDA n : n # "")
  IN IF names = <<>> THEN Empty ELSE Json(names)

\* Rules are nested as a function from pairs: of two rules for one pair the
\* later counts.
flattenRules(in) ==
  LET nested == parse(in["GroupGroupRatio"], NoMap)
      pairs  == Keyed(nested)
  IN [i \in DOMAIN pairs |-> [user |-> pairs[i][1], using |-> pairs[i][2],
                              ratio |-> nested[pairs[i]]]]

nestRules(rs) ==
  LET whole == {i \in DOMAIN rs : rs[i].user # "" /\ rs[i].using # ""}
      pair(i) == <<rs[i].user, rs[i].using>>
      last(p) == CHOOSE i \in whole : pair(i) = p /\ \A j \in whole :
                                                       pair(j) = p => j <= i
  IN [p \in {pair(i) : i \in whole} |-> rs[last(p)].ratio]

serializeGroupGroupRatio(rs) ==
  IF nestRules(rs) = NoMap THEN Empty ELSE Json(nestRules(rs))

\* The prefixes "+:" and "-:" are the operations add and remove of a rule,
\* none is append.  Descriptions are left out.
flattenSpecial(in) == SetToSeq(parse(in[Special], {}))

serializeGroupSpecialUsable(rs) ==
  LET whole == {rs[i] : i \in {j \in DOMAIN rs : rs[j].user # "" /\ rs[j].target # ""}}
  IN IF whole = {} THEN Empty ELSE Json(whole)

-----------------------------------------------------------------------------
(* The form.                                                                 *)

ValueOf(k, text) ==
  parse(text, CASE k \in {"UserUsableGroups", Special} -> {} [] OTHER -> <<>>)

Init ==
  /\ stored \in Starts
  /\ inForce = [k \in Keys |-> ValueOf(k, stored[k])]
  /\ inputs = stored /\ inputsRow = stored
  /\ editMode = "visual"
  /\ rows = buildRows(stored)
  /\ items = parseAutoGroups(stored)
  /\ rules = flattenRules(stored)
  /\ specials = flattenSpecial(stored)
  /\ status = "idle"
  /\ edits = 0 /\ saves = 0

Edit(editor) ==
  /\ status = "idle" /\ editMode = "visual"
  /\ editor \in Editors
  /\ edits < MaxEdits /\ edits' = edits + 1
  /\ UNCHANGED <<stored, inForce, inputsRow, editMode, status, saves>>

\* Every change of a list is written to its options at once.
emitRows(rs) ==
  /\ rows' = rs
  /\ inputs' = [inputs EXCEPT !["GroupRatio"] = serializeGroupTable(rs).ratio,
                              !["UserUsableGroups"] = serializeGroupTable(rs).usable]
  /\ UNCHANGED <<items, rules, specials>>

updateRow ==
  /\ Edit("table")
  /\ \E i \in DOMAIN rows :
       \/ \E n \in Groups \cup {""} : emitRows([rows EXCEPT ![i].name = n])
       \/ \E r \in Ratios : emitRows([rows EXCEPT ![i].ratio = r])
       \/ emitRows([rows EXCEPT ![i].selectable = ~@])

\* A new row has the first name that no row has.
addRow ==
  /\ Edit("table") /\ Len(rows) < MaxRows
  /\ emitRows(Append(rows, [name |-> "group_1", ratio |-> 1, selectable |-> TRUE]))
  /\ \A i \in DOMAIN rows : rows[i].name # "group_1"

removeRow ==
  /\ Edit("table")
  /\ \E i \in DOMAIN rows : emitRows(RemoveAt(rows, i))

emitItems(is) ==
  /\ items' = is
  /\ inputs' = [inputs EXCEPT !["AutoGroups"] = serializeAutoGroups(is)]
  /\ UNCHANGED <<rows, rules, specials>>

addItem == Edit("auto") /\ Len(items) < MaxRows /\ emitItems(Append(items, ""))

removeItem == Edit("auto") /\ \E i \in DOMAIN items : emitItems(RemoveAt(items, i))

updateItem ==
  /\ Edit("auto")
  /\ \E i \in DOMAIN items, n \in Groups : emitItems([items EXCEPT ![i] = n])

Swap(s, i) == [s EXCEPT ![i] = s[i + 1], ![i + 1] = s[i]]

\* moveUp of a row is moveDown of the row before it.
moveDown ==
  /\ Edit("auto")
  /\ \E i \in 1 .. Len(items) - 1 : emitItems(Swap(items, i))

emitRules(rs) ==
  /\ rules' = rs
  /\ inputs' = [inputs EXCEPT !["GroupGroupRatio"] = serializeGroupGroupRatio(rs)]
  /\ UNCHANGED <<rows, items, specials>>

updateRule ==
  /\ Edit("rules")
  /\ \E i \in DOMAIN rules :
       \/ \E n \in Groups : emitRules([rules EXCEPT ![i].using = n])
       \/ \E r \in Ratios : emitRules([rules EXCEPT ![i].ratio = r])

\* addNewGroup, and addRuleToGroup for a group that has rules.
addRule ==
  /\ Edit("rules") /\ Len(rules) < MaxRows
  /\ \E n \in Groups :
       emitRules(Append(rules, [user |-> n, using |-> "", ratio |-> 1]))

removeRule ==
  /\ Edit("rules")
  /\ \E i \in DOMAIN rules : emitRules(RemoveAt(rules, i))

\* The rows of a user's group, as the section of that group lists them.
Section(rs, n) == {i \in DOMAIN rs : rs[i].user = n}

LastOf(S) == CHOOSE i \in S : \A j \in S : j <= i

\* The section's delete button calls removeRule for each of its rules.  Each
\* call filters the list that was rendered, so the last one decides.
removeSection(n) ==
  /\ Edit("rules") /\ Section(rules, n) # {}
  /\ emitRules(RemoveAt(rules, LastOf(Section(rules, n))))

emitSpecials(rs) ==
  /\ specials' = rs
  /\ inputs' = [inputs EXCEPT ![Special] = serializeGroupSpecialUsable(rs)]
  /\ UNCHANGED <<rows, items, rules>>

updateSpecial ==
  /\ Edit("special")
  /\ \E i \in DOMAIN specials :
       \/ \E o \in {"add", "remove", "append"} : emitSpecials([specials EXCEPT ![i].op = o])
       \/ \E n \in Groups : emitSpecials([specials EXCEPT ![i].target = n])

addSpecial ==
  /\ Edit("special") /\ Len(specials) < MaxRows
  /\ \E n \in Groups :
       emitSpecials(Append(specials, [user |-> n, op |-> "append", target |-> ""]))

removeSpecial ==
  /\ Edit("special")
  /\ \E i \in DOMAIN specials : emitSpecials(RemoveAt(specials, i))

removeSpecialSection(n) ==
  /\ Edit("special") /\ Section(specials, n) # {}
  /\ emitSpecials(RemoveAt(specials, LastOf(Section(specials, n))))

\* Typing an option's JSON.
TypeText(k, text) ==
  /\ status = "idle" /\ editMode = "manual"
  /\ edits < MaxEdits /\ edits' = edits + 1
  /\ inputs' = [inputs EXCEPT ![k] = text]
  /\ UNCHANGED <<stored, inForce, inputsRow, editMode, lists, status, saves>>

\* The visual editors are made anew from the inputs when they are shown.
setEditMode ==
  /\ status = "idle"
  /\ editMode' = IF editMode = "visual" THEN "manual" ELSE "visual"
  /\ rows' = buildRows(inputs)
  /\ items' = parseAutoGroups(inputs)
  /\ rules' = flattenRules(inputs)
  /\ specials' = flattenSpecial(inputs)
  /\ UNCHANGED <<stored, inForce, inputs, inputsRow, status, edits, saves>>

-----------------------------------------------------------------------------
(* Saving.                                                                   *)

\* The typed form is checked: no JSON, and an empty text other than that of
\* the automatic groups, is refused.  The visual editors are not.
Validates ==
  editMode = "manual" =>
    \A k \in Keys : \/ inputs[k].is = "json"
                    \/ k = "AutoGroups" /\ inputs[k] = Empty

updateArray == {k \in Keys : inputs[k] # inputsRow[k]}

onSubmit ==
  /\ status = "idle" /\ saves < MaxSaves
  /\ Validates /\ updateArray # {}
  /\ saves' = saves + 1
  /\ status' = "saving"
  /\ UNCHANGED <<stored, inForce, inputs, inputsRow, editMode, lists, edits>>

\* The group ratios are checked before they are stored.  The others are stored
\* first; a map or list that does not parse is emptied and refused, while a
\* registered configuration keeps its value and is not refused.
Accepts(k, text) == text.is = "json" \/ k = Special

Stores(k, text) == text.is = "json" \/ k # "GroupRatio"

Applied(k, text) ==
  IF text.is = "json" THEN text.of
  ELSE IF k \in {"GroupRatio", Special} THEN inForce[k]
  ELSE ValueOf(k, text)

\* The requests are answered; those in lost never reached the server.
UpdateOptions(lost) ==
  LET sent == updateArray \ lost
  IN /\ status = "saving"
     /\ lost \subseteq updateArray /\ (lost # {} => "lost" \in Faults)
     /\ stored' = [k \in Keys |-> IF k \in sent /\ Stores(k, inputs[k])
                                  THEN inputs[k] ELSE stored[k]]
     /\ inForce' = [k \in Keys |-> IF k \in sent THEN Applied(k, inputs[k])
                                                 ELSE inForce[k]]
     /\ status' = IF lost = {} /\ \A k \in sent : Accepts(k, inputs[k])
                  THEN "saved" ELSE "idle"
     /\ UNCHANGED <<inputs, inputsRow, editMode, lists, edits, saves>>

\* The effect on the options: the form and its editors are made anew.
refresh ==
  /\ status = "saved"
  /\ status' = "idle"
  /\ inputs' = stored /\ inputsRow' = stored
  /\ rows' = buildRows(stored)
  /\ items' = parseAutoGroups(stored)
  /\ rules' = flattenRules(stored)
  /\ specials' = flattenSpecial(stored)
  /\ UNCHANGED <<stored, inForce, editMode, edits, saves>>

Next ==
  \/ updateRow \/ addRow \/ removeRow
  \/ addItem \/ removeItem \/ updateItem \/ moveDown
  \/ updateRule \/ addRule \/ removeRule
  \/ updateSpecial \/ addSpecial \/ removeSpecial
  \/ \E n \in Groups : removeSection(n) \/ removeSpecialSection(n)
  \/ \E k \in Keys : \/ TypeText(k, Bad)
                     \/ k \in DOMAIN Texts /\ TypeText(k, Texts[k])
  \/ setEditMode
  \/ onSubmit \/ refresh
  \/ \E lost \in SUBSET Keys : UpdateOptions(lost)

Spec == Init /\ [][Next]_vars

-----------------------------------------------------------------------------
(* Properties.                                                               *)

TypeOK ==
  /\ \A k \in Keys : {stored[k].is, inputs[k].is, inputsRow[k].is}
                       \subseteq {"json", "empty", "bad"}
  /\ editMode \in {"visual", "manual"}
  /\ status \in {"idle", "saving", "saved"}
  /\ \A i \in DOMAIN rows : rows[i].ratio \in Nat /\ rows[i].selectable \in BOOLEAN
  /\ \A i \in DOMAIN items : items[i] \in Groups \cup {""}
  /\ \A i \in DOMAIN rules : rules[i].ratio \in Nat

\* The ratios the relay would take from a text of the form.
RatioOf(text, n) == LET m == parse(text, NoMap)
                    IN IF n \in DOMAIN m THEN m[n] ELSE 1

\* A change in the table of groups leaves the ratio of every group alone but
\* the ones the row was and is named after, however the rows are named while
\* they are typed and although groups without a ratio are written with one.
EditTouchesItsGroup ==
  /\ Len(rows') = Len(rows) /\ rows' # rows
  /\ editMode = "visual" /\ editMode' = "visual" /\ status' = "idle" /\ status = "idle"
  => \A n \in Groups \cup {"group_1"} :
       \/ RatioOf(inputs'["GroupRatio"], n) = RatioOf(inputs["GroupRatio"], n)
       \/ \E i \in DOMAIN rows : rows[i] # rows'[i] /\ n \in {rows[i].name, rows'[i].name}

\* The visual editors show what the form would save: opening them anew from
\* the form's texts changes nothing that a save would write.
EditorsShowInputs ==
  editMode = "visual" /\ (\A k \in Keys : inputs[k].is # "bad") =>
    /\ \A n \in Groups : RatioOf(serializeGroupTable(rows).ratio, n)
                           = RatioOf(inputs["GroupRatio"], n)
    /\ serializeGroupTable(rows).usable.of = parse(inputs["UserUsableGroups"], {})
    /\ ValueOf("AutoGroups", serializeAutoGroups(items)) = ValueOf("AutoGroups", inputs["AutoGroups"])
    /\ nestRules(rules) = parse(inputs["GroupGroupRatio"], NoMap)
    /\ ValueOf(Special, serializeGroupSpecialUsable(specials)) = ValueOf(Special, inputs[Special])

\* When a save is announced, the server applies what the form shows.  Special
\* groups that were emptied, or do not parse, stay in force.
AnnouncedIsInForce ==
  status = "saved" =>
    \A k \in updateArray : \/ inForce[k] = ValueOf(k, inputs[k])
                           \/ k = Special /\ inputs[k].is # "json"

\* After the delete button of a user group's rules, which asks "really delete
\* all rules of this group?", the group has no rule (removeRule of
\* GroupGroupRatioRules, called once per rule).
DeletesAllRules == [][\A n \in Groups : removeSection(n) => Section(rules', n) = {}]_vars

=============================================================================
