--------------------------- MODULE ChannelEditor ---------------------------
(* The dialog that creates and edits one upstream channel: its fields by the  *)
(* type of the channel, the side panel of advanced settings, the four ways to *)
(* enter keys, the questions asked before a submission, and what the server   *)
(* stores. A field's value is 0 at its default and a larger number otherwise; *)
(* a few numbers stand for the values the code tells apart.                   *)
EXTENDS Integers, Sequences, SequencesExt

CONSTANTS Chans,      \* channels of the table
          Types,      \* types of channel to check
          Uses,    \* subset of {"fields", "type", "keys", "files", "create", "panel"}
          Configs,    \* sets of fields that a stored channel may have set
          MaxOpens,   \* bound on the number of dialogs opened
          MaxChanges, \* bound on the changes made in one dialog
          MaxSaves,   \* bound on the number of submissions
          Unhurried,  \* TRUE: one request at a time
          None        \* no channel: the dialog creates one

VARIABLES visible,  \* props.visible
          chan,     \* props.editingChannel.id
          inputs,   \* useState(inputs): the type, the key and the fields
          formUrl,  \* base_url in the form, which an unconfirmed /v1 leaves ahead
          base,     \* initialModelsRef, initialModelMappingRef, initialStatusCodeMappingRef
          batch, merge, manual, keyMode, isMulti,
          files,    \* vertexKeys and vertexFileList
          panel,    \* advancedSettingsOpen
          expanded, \* the panel's state in localStorage
          loading, gets, puts,
          ask,      \* the question that is open, with the submission it holds back
          touched,  \* fields the user has changed in this dialog
          keyed,    \* keys the user has entered in this dialog
          stored,   \* the channels on the server
          made,     \* key lists of the channels created
          opens, changes, saves

dialogVars == <<visible, chan, opens>>
formVars == <<inputs, formUrl, touched, keyed, changes>>
keyVars == <<batch, merge, manual, keyMode, isMulti, files>>
panelVars == <<panel, expanded>>
netVars == <<loading, gets, puts, saves>>
serverVars == <<stored, made>>
vars == <<dialogVars, formVars, base, keyVars, panelVars, netVars, ask, serverVars>>

-----------------------------------------------------------------------------
\* Fields of every channel, in the order of the form.
NameFields == {"name", "test_model", "auto_ban"}
AddressFields == {"base_url", "other"}
ModelFields == {"models", "model_mapping"}
GroupFields == {"groups"}
CoreFields == NameFields \cup AddressFields \cup ModelFields \cup GroupFields

\* Fields of the panel.
UpstreamFields == {"check_enabled", "auto_sync", "ignored_models"}
OverrideFields == {"param_override", "header_override"}
StatusFields == {"status_code_mapping"}
BehaviourFields == {"tag", "remark", "priority", "weight"}
ExtraFields == {"thinking_to_content", "pass_through_body_enabled", "proxy", "system_prompt",
                "system_prompt_override"}

\* Fields that only some types show.
OpenAIFields == {"openai_organization"}
OpenAISwitches == {"allow_service_tier", "disable_store", "allow_safety_identifier",
                   "allow_include_obfuscation"}
ClaudeSwitches == {"allow_service_tier", "allow_inference_geo", "allow_speed"}
KeyTypeFields(t) ==
  CASE t = "openrouter" -> {"is_enterprise_account"} [] t = "aws" -> {"aws_key_type"}
    [] t = "vertex" -> {"vertex_key_type"} [] t = "azure" -> {"azure_responses_version"}
    [] OTHER -> {}
Formats(t) == CASE t = "openai" -> {"force_format"} [] t = "claude" -> {"claude_beta_query"} [] OTHER -> {}

\* MODEL_FETCHABLE_CHANNEL_TYPES: these have the part on upstream models.
Fetchable == {"openai", "claude", "openrouter", "vertex"}

PanelFields(t) ==
  UNION {IF t \in Fetchable THEN UpstreamFields ELSE {}, OverrideFields, StatusFields, BehaviourFields,
         ExtraFields, Formats(t),
         CASE t = "openai" -> OpenAISwitches [] t = "claude" -> ClaudeSwitches [] OTHER -> {}}

\* Kept in the stored settings and never shown: what the upstream check last found.
HiddenFields == {"last_detected"}

Fields == CoreFields \cup HiddenFields \cup UNION {KeyTypeFields(t) \cup PanelFields(t) : t \in Types}
            \cup OpenAIFields

\* The fields on the screen.
Shown(t, open) ==
  CoreFields \cup KeyTypeFields(t) \cup (IF t = "openai" THEN OpenAIFields ELSE {})
    \cup (IF open THEN PanelFields(t) ELSE {})

\* originInputs, and what groups and models hold when a channel is created.
Origin(t) == [type |-> t, key |-> <<>>,
              f |-> [f \in Fields |-> IF f \in {"groups", "auto_ban"} THEN 1 ELSE 0]]

\* What may be entered in a field: 2 is a changed value, except that a model
\* mapping 2 names a model that is not in the list of models, a status mapping 2
\* redirects a code that must not be, a mapping 3 cannot be read, an address 3
\* ends with /v1 and 4 is 2 with a slash.
Entered(f) ==
  CASE f = "base_url" -> {0, 2, 3, 4}
    [] f \in {"model_mapping", "status_code_mapping"} -> {0, 2, 3}
    [] f = "vertex_key_type" -> {0, 1}
    [] OTHER -> {0, 2}

\* Keys that may be entered: new ones, and one that the channel already has.
Keys == {<<"new", 1>>, <<"new", 2>>} \cup {<<c, 1>> : c \in Chans}
KeyLists == {<<>>} \cup {<<k>> : k \in Keys} \cup {<<k, l>> : k \in Keys, l \in Keys}

\* The list without the repetitions.
Once(ks) == FoldLeft(LAMBDA acc, k : IF k \in ToSet(acc) THEN acc ELSE Append(acc, k), <<>>, ks)

\* A Vertex channel with JSON keys takes files unless they are typed in.
UsesFiles(in, man) == in.type = "vertex" /\ in.f["vertex_key_type"] = 0 /\ ~man

-----------------------------------------------------------------------------
Init ==
  /\ visible = FALSE /\ chan = None /\ opens = 0 /\ changes = 0 /\ saves = 0
  /\ inputs = Origin(CHOOSE t \in Types : TRUE) /\ formUrl = 0 /\ touched = {} /\ keyed = {}
  /\ base = [models |-> 0, model_mapping |-> 0, status_code_mapping |-> 0]
  /\ batch = FALSE /\ merge = FALSE /\ manual = FALSE /\ keyMode = "append" /\ isMulti = FALSE
  /\ files = <<>> /\ panel = FALSE /\ expanded \in BOOLEAN
  /\ loading = FALSE /\ gets = {} /\ puts = {} /\ ask = <<"no">>
  /\ \E t \in Types, set \in Configs, multi \in BOOLEAN, ionet \in BOOLEAN :
       stored = [c \in Chans |->
                   [type |-> t, multi |-> multi, ionet |-> ionet,
                    keys |-> IF multi THEN <<<<c, 1>>, <<c, 2>>>> ELSE <<<<c, 1>>>>,
                    f |-> [f \in Fields |-> IF f \in set \cup {"name", "models", "groups"} THEN 1 ELSE 0]]]
  /\ made = <<>>

\* setInputs: the effect on the inputs copies them into the form.
SetInputs(in) == inputs' = in /\ formUrl' = in.f["base_url"]

\* Rendered with visible: the channel is loaded, or the form starts from
\* originInputs. A dialog that creates has its panel folded; what it keeps of the
\* dialog before, nothing here resets.
OpenEdit(c) ==
  /\ ~visible /\ opens < MaxOpens /\ (Unhurried => gets = {} /\ puts = {})
  /\ visible' = TRUE /\ chan' = c /\ opens' = opens + 1
  /\ loading' = TRUE /\ gets' = gets \cup {c}
  /\ manual' = FALSE /\ panel' = expanded
  /\ UNCHANGED <<formVars, base, batch, merge, keyMode, isMulti, files, expanded, puts, saves, ask, serverVars>>

OpenCreate ==
  /\ "create" \in Uses
  /\ ~visible /\ opens < MaxOpens /\ (Unhurried => gets = {} /\ puts = {})
  /\ visible' = TRUE /\ chan' = None /\ opens' = opens + 1
  /\ \E t \in Types : SetInputs([Origin(t) EXCEPT !.f["models"] = 1])
  /\ base' = [models |-> 0, model_mapping |-> 0, status_code_mapping |-> 0]
  /\ manual' = FALSE /\ panel' = FALSE
  /\ UNCHANGED <<touched, keyed, changes, batch, merge, keyMode, isMulti, files, expanded, netVars, ask,
                 serverVars>>

\* hasAdvancedValues of loadChannel.
hasAdvancedValues(f) ==
  \E x \in DOMAIN f \cap ({"model_mapping", "param_override", "status_code_mapping", "header_override", "tag",
                           "remark", "priority", "weight", "proxy", "system_prompt", "thinking_to_content",
                           "pass_through_body_enabled", "force_format", "claude_beta_query",
                           "system_prompt_override"}) : f[x] # 0

\* A channel of type 45 without an address gets the default one.
WithDefaultUrl(in) ==
  IF in.type = "ark" /\ in.f["base_url"] = 0 THEN [in EXCEPT !.f["base_url"] = 1] ELSE in

\* loadChannel: the answer fills the form of the dialog that is open now.
LoadChannel(c) ==
  /\ c \in gets /\ gets' = gets \ {c} /\ loading' = FALSE
  /\ LET s == stored[c] IN
       /\ SetInputs(WithDefaultUrl([type |-> s.type, key |-> <<>>, f |-> s.f]))
       /\ base' = [x \in DOMAIN base |-> s.f[x]]
       /\ isMulti' = s.multi /\ batch' = s.multi /\ merge' = s.multi
       /\ panel' = (panel \/ hasAdvancedValues(s.f))
  /\ UNCHANGED <<dialogVars, touched, keyed, changes, manual, keyMode, files, expanded, puts, saves, ask,
                 serverVars>>

\* resetModalState, when the dialog is hidden: the uploaded files stay, and so
\* do the choices of batch and of a single channel for many keys.
ResetModalState ==
  /\ SetInputs(Origin(inputs.type)) /\ touched' = {} /\ keyed' = {} /\ changes' = 0
  /\ keyMode' = "append" /\ panel' = FALSE
  /\ ask' = IF ask[1] = "risk" THEN <<"no">> ELSE ask
  /\ UNCHANGED <<base, batch, merge, manual, isMulti, files, expanded>>

Cancel ==
  /\ visible /\ ask = <<"no">>
  /\ visible' = FALSE /\ ResetModalState
  /\ UNCHANGED <<chan, opens, netVars, serverVars>>

-----------------------------------------------------------------------------
\* The form can be used: no spinner covers it and no question is open.
Usable == visible /\ ~loading /\ ask = <<"no">> /\ changes < MaxChanges

\* isIonetLocked: the type, key and address of a managed deployment stay.
Locked == chan # None /\ stored[chan].ionet

\* handleInputChange and the settings' handlers, of one field.
Change(f, v) ==
  /\ "fields" \in Uses /\ Usable
  /\ f \in Shown(inputs.type, panel) /\ v \in Entered(f)
  /\ f = "base_url" => ~Locked
  /\ changes' = changes + 1 /\ touched' = touched \cup {f}
  /\ IF f = "base_url" /\ v = 3
     THEN formUrl' = 3 /\ ask' = <<"v1">> /\ UNCHANGED inputs
     ELSE SetInputs([inputs EXCEPT !.f[f] = v]) /\ UNCHANGED ask
  /\ IF f = "vertex_key_type" /\ v = 1
     THEN batch' = FALSE /\ manual' = FALSE /\ files' = <<>>
     ELSE UNCHANGED <<batch, manual, files>>
  /\ UNCHANGED <<dialogVars, keyed, base, merge, keyMode, isMulti, panelVars, netVars, serverVars>>

\* The warning on an address that ends with /v1.
AnswerV1(ok) ==
  /\ ask = <<"v1">> /\ ask' = <<"no">>
  /\ inputs' = IF ok THEN [inputs EXCEPT !.f["base_url"] = formUrl] ELSE inputs
  /\ UNCHANGED <<dialogVars, formUrl, touched, keyed, changes, base, keyVars, panelVars, netVars, serverVars>>

\* handleInputChange of the type: models only where there are none.
ChangeType(t) ==
  /\ "type" \in Uses /\ Usable /\ ~Locked /\ t \in Types \ {inputs.type}
  /\ LET models == IF inputs.f["models"] = 0 THEN 1 ELSE inputs.f["models"]
         url == IF t = "ark" THEN 1 ELSE inputs.f["base_url"]
     IN SetInputs([inputs EXCEPT !.type = t, !.f["models"] = models, !.f["base_url"] = url])
  /\ changes' = changes + 1 /\ touched' = touched \cup {"type"}
  /\ manual' = FALSE
  /\ IF t = "codex" THEN batch' = FALSE /\ merge' = FALSE /\ files' = <<>>
     ELSE UNCHANGED <<batch, merge, files>>
  /\ UNCHANGED <<dialogVars, keyed, base, keyMode, isMulti, panelVars, netVars, ask, serverVars>>

\* The fields for keys: a line for each key in a batch, else one.
EnterKeys(ks) ==
  /\ "keys" \in Uses /\ Usable /\ ~Locked
  /\ ~UsesFiles(inputs, manual) /\ (~batch => Len(ks) <= 1)
  /\ SetInputs([inputs EXCEPT !.key = ks])
  /\ keyed' = keyed \cup ToSet(ks) /\ changes' = changes + 1
  /\ UNCHANGED <<dialogVars, touched, base, keyVars, panelVars, netVars, ask, serverVars>>

\* deduplicateKeys.
DeduplicateKeys ==
  /\ Usable /\ batch /\ inputs.type # "vertex" /\ inputs.key # <<>>
  /\ SetInputs([inputs EXCEPT !.key = Once(@)])
  /\ changes' = changes + 1
  /\ UNCHANGED <<dialogVars, touched, keyed, base, keyVars, panelVars, netVars, ask, serverVars>>

\* handleVertexUploadChange: without a batch the last file is kept.
Upload(ks) ==
  /\ "files" \in Uses /\ Usable /\ UsesFiles(inputs, manual)
  /\ ks # <<>> /\ files' = IF batch THEN ks ELSE <<ks[Len(ks)]>>
  /\ keyed' = ToSet(files') /\ changes' = changes + 1
  /\ UNCHANGED <<dialogVars, inputs, formUrl, touched, base, batch, merge, manual, keyMode, isMulti, panelVars,
                 netVars, ask, serverVars>>

\* The two buttons above the key of a Vertex channel; each clears the other's input.
TypeKeysIn(man) ==
  /\ "files" \in Uses /\ Usable /\ ~batch
  /\ inputs.type = "vertex" /\ inputs.f["vertex_key_type"] = 0
  /\ manual' = man /\ changes' = changes + 1
  /\ files' = IF man THEN <<>> ELSE files
  /\ SetInputs(IF man THEN inputs ELSE [inputs EXCEPT !.key = <<>>])
  /\ UNCHANGED <<dialogVars, touched, keyed, base, batch, merge, keyMode, isMulti, panelVars, netVars, ask,
                 serverVars>>

\* The checkbox of a batch, of a dialog that creates: unchecked with several
\* files, it asks and keeps the first one.
ToggleBatch ==
  /\ "keys" \in Uses /\ Usable /\ chan = None /\ inputs.type # "codex"
  /\ changes' = changes + 1
  /\ IF batch
     THEN /\ batch' = FALSE /\ merge' = FALSE /\ UNCHANGED <<manual, inputs, formUrl>>
          /\ files' = IF Len(files) > 1 THEN <<files[1]>> ELSE files
     ELSE /\ batch' = TRUE /\ manual' = FALSE /\ UNCHANGED <<merge, files>>
          /\ SetInputs(IF inputs.type = "vertex" THEN [inputs EXCEPT !.key = <<>>] ELSE inputs)
  /\ UNCHANGED <<dialogVars, touched, keyed, base, keyMode, isMulti, panelVars, netVars, ask, serverVars>>

ToggleMerge ==
  /\ "keys" \in Uses /\ Usable /\ chan = None /\ batch
  /\ merge' = ~merge /\ changes' = changes + 1
  /\ UNCHANGED <<dialogVars, inputs, formUrl, touched, keyed, base, batch, manual, keyMode, isMulti, files,
                 panelVars, netVars, ask, serverVars>>

SetKeyMode(m) ==
  /\ "keys" \in Uses /\ Usable /\ chan # None /\ isMulti /\ m # keyMode
  /\ keyMode' = m /\ changes' = changes + 1
  /\ UNCHANGED <<dialogVars, inputs, formUrl, touched, keyed, base, batch, merge, manual, isMulti, files,
                 panelVars, netVars, ask, serverVars>>

\* toggleAdvancedSettings, and the panel's close button, which is not remembered.
TogglePanel ==
  /\ "panel" \in Uses /\ visible /\ ask = <<"no">>
  /\ panel' = ~panel /\ (expanded' = panel' \/ (panel /\ expanded' = expanded))
  /\ UNCHANGED <<dialogVars, formVars, base, keyVars, netVars, ask, serverVars>>

-----------------------------------------------------------------------------
\* The key of a submission.
KeyToSend ==
  IF UsesFiles(inputs, manual)
  THEN IF files = <<>> \/ batch THEN files ELSE <<files[1]>>
  ELSE inputs.key

\* submit reads the form and the state of its closure.
Submission ==
  [id |-> chan, type |-> inputs.type, f |-> [inputs.f EXCEPT !["base_url"] = formUrl], key |-> KeyToSend,
   mode |-> IF chan # None THEN IF isMulti THEN keyMode ELSE "none"
            ELSE IF ~batch THEN "single" ELSE IF merge THEN "multi_to_single" ELSE "batch",
   touched |-> touched, keyed |-> keyed, n |-> saves]

\* The early returns before the first question.
Incomplete(p) ==
  \/ p.type = "codex" /\ batch
  \/ p.id = None /\ (p.f["name"] = 0 \/ p.key = <<>>)
  \/ p.f["models"] = 0
  \/ p.type = "ark" /\ p.f["base_url"] = 0
  \/ p.f["model_mapping"] = 3

\* missingModels and hasModelConfigChanged.
MissingModels(p) ==
  /\ p.f["model_mapping"] = 2 /\ p.f["models"] # 3
  /\ p.id = None \/ \E x \in {"models", "model_mapping"} : p.f[x] # base[x]

\* collectNewDisallowedStatusCodeRedirects.
RiskyRedirects(p) == p.f["status_code_mapping"] = 2 /\ base["status_code_mapping"] # 2

\* What is sent of the fields.
Sent(p) ==
  [f \in Fields |->
     CASE f = "base_url" /\ p.f[f] = 4 -> 2
       [] f = "other" /\ p.f[f] = 0 /\ p.type = "xunfei" -> 1
       [] f = "vertex_key_type" /\ p.type # "vertex" -> 0
       [] f \in {"auto_sync", "last_detected"} /\ p.f["check_enabled"] = 0 -> 0
       [] OTHER -> p.f[f]]

\* submit, from the status codes to the request.
Proceed(p) ==
  IF p.f["status_code_mapping"] = 3 THEN ask' = <<"no">> /\ UNCHANGED puts
  ELSE IF RiskyRedirects(p) THEN ask' = <<"risk", p>> /\ UNCHANGED puts
  ELSE ask' = <<"no">> /\ puts' = puts \cup {p}

Submit ==
  /\ visible /\ ask = <<"no">> /\ ~loading /\ saves < MaxSaves
  /\ Unhurried => gets = {} /\ puts = {}
  /\ ~Incomplete(Submission)
  /\ saves' = saves + 1
  /\ IF MissingModels(Submission) THEN ask' = <<"missing", Submission>> /\ UNCHANGED puts
     ELSE Proceed(Submission)
  /\ UNCHANGED <<dialogVars, formVars, base, keyVars, panelVars, loading, gets, serverVars>>

\* confirmMissingModelMappings: cancel, submit as it is, or add the models.
AnswerMissing(a) ==
  /\ ask[1] = "missing"
  /\ LET p == ask[2] IN
       \/ a = "cancel" /\ ask' = <<"no">> /\ UNCHANGED <<puts, inputs, formUrl>>
       \/ a = "submit" /\ Proceed(p) /\ UNCHANGED <<inputs, formUrl>>
       \/ a = "add" /\ Proceed([p EXCEPT !.f["models"] = 3]) /\ SetInputs([inputs EXCEPT !.f["models"] = 3])
  /\ UNCHANGED <<dialogVars, touched, keyed, changes, base, keyVars, panelVars, loading, gets, saves, serverVars>>

\* resolveStatusCodeRiskConfirm.
AnswerRisk(ok) ==
  /\ ask[1] = "risk" /\ ask' = <<"no">>
  /\ puts' = IF ok THEN puts \cup {ask[2]} ELSE puts
  /\ UNCHANGED <<dialogVars, formVars, base, keyVars, panelVars, loading, gets, saves, serverVars>>

\* UpdateChannel: empty texts are not written, an absent key keeps the keys, and
\* of keys to append the ones already there are left out.
UpdatedField(f, v, old) == IF v = 0 /\ f \in {"name", "groups", "other"} THEN old ELSE v

UpdatedKeys(p, s) ==
  CASE p.key = <<>> -> s.keys
    [] p.mode = "append" /\ s.multi -> s.keys \o SelectSeq(Once(p.key), LAMBDA k : k \notin ToSet(s.keys))
    [] OTHER -> p.key

\* AddChannel: one channel, or one for each key.
CreatedKeys(p) == IF p.mode = "batch" THEN [i \in DOMAIN p.key |-> <<p.key[i]>>] ELSE <<p.key>>

Applies(p) ==
  IF p.id = None
  THEN made' = made \o CreatedKeys(p) /\ UNCHANGED stored
  ELSE /\ stored' = [stored EXCEPT ![p.id] =
                       [@ EXCEPT !.type = p.type, !.keys = UpdatedKeys(p, stored[p.id]),
                                 !.f = [f \in Fields |-> UpdatedField(f, Sent(p)[f], @[f])]]]
       /\ UNCHANGED made

\* submit, after the request.
Saved(p) ==
  /\ p \in puts /\ puts' = puts \ {p}
  /\ Applies(p)
  /\ visible' = FALSE /\ ResetModalState
  /\ UNCHANGED <<chan, opens, loading, gets, saves>>

SaveRefused(p) ==
  /\ p \in puts /\ puts' = puts \ {p}
  /\ UNCHANGED <<dialogVars, formVars, base, keyVars, panelVars, loading, gets, saves, ask, serverVars>>

Next ==
  \/ \E c \in Chans : OpenEdit(c)
  \/ \E c \in Chans : LoadChannel(c)
  \/ OpenCreate \/ Cancel \/ DeduplicateKeys \/ ToggleBatch \/ ToggleMerge \/ TogglePanel \/ Submit
  \/ \E f \in Fields : \E v \in Entered(f) : Change(f, v)
  \/ \E ok \in BOOLEAN : AnswerV1(ok)
  \/ \E t \in Types : ChangeType(t)
  \/ \E ks \in KeyLists : EnterKeys(ks)
  \/ \E ks \in KeyLists : Upload(ks)
  \/ \E man \in BOOLEAN : TypeKeysIn(man)
  \/ \E m \in {"append", "replace"} : SetKeyMode(m)
  \/ \E a \in {"cancel", "submit", "add"} : AnswerMissing(a)
  \/ \E ok \in BOOLEAN : AnswerRisk(ok)
  \/ \E p \in puts : Saved(p)
  \/ \E p \in puts : SaveRefused(p)

Spec == Init /\ [][Next]_vars

-----------------------------------------------------------------------------
TypeOK ==
  /\ visible \in BOOLEAN /\ chan \in Chans \cup {None} /\ inputs.type \in Types
  /\ DOMAIN inputs.f = Fields /\ formUrl \in 0..4 /\ touched \subseteq Fields \cup {"type"}
  /\ ask[1] \in {"no", "v1", "missing", "risk"} /\ keyMode \in {"append", "replace"}
  /\ gets \subseteq Chans /\ \A c \in Chans : stored[c].type \in Types /\ stored[c].keys # <<>>

\* Once the channel is loaded, every field the user has left alone is as the
\* server holds it.
FormIsChannels ==
  visible /\ ~loading /\ chan # None =>
    /\ "type" \in touched \/ inputs.type = stored[chan].type
    /\ \A f \in Fields \ touched :
         \/ inputs.f[f] = stored[chan].f[f]
         \/ f = "base_url" /\ (stored[chan].type = "ark" \/ "type" \in touched)
         \/ f = "models" /\ inputs.f[f] = 3

\* A save changes the channel its dialog was opened for and of its fields those
\* the user changed, and the ones that follow: the switches below a check that is
\* off, the key type of a channel that is no longer Vertex's, the version of type
\* 18, the address once a type is chosen or of type 45, the models the user agreed to add. It gives the
\* user's changes, but an emptied name, version or list of groups stays.
SaveIsExact ==
  \A c \in Chans, p \in puts \ puts' :
    p.id = c /\ visible /\ ~visible' =>
      /\ stored'[c].type = IF "type" \in p.touched THEN p.type ELSE stored[c].type
      /\ \A f \in Fields :
           \/ stored'[c].f[f] = IF f \in p.touched THEN p.f[f] ELSE stored[c].f[f]
           \/ f \in {"auto_sync", "last_detected"} /\ p.f["check_enabled"] = 0
           \/ f = "vertex_key_type" /\ p.type # "vertex"
           \/ f = "other" /\ (p.type = "xunfei" \/ p.f[f] = 0)
           \/ f \in {"name", "groups"} /\ p.f[f] = 0
           \/ f = "base_url" /\ (p.type = "ark" \/ "type" \in p.touched \/ p.f[f] = 4)
           \/ f = "models" /\ p.f[f] = 3

\* Nothing else changes a channel.
OnlySavesWrite ==
  \A c \in Chans : stored'[c] # stored[c] => \E p \in puts \ puts' : p.id = c

\* A channel gets only keys that were entered in the dialog that saves it; keys
\* are appended behind the old ones and none twice; and without an entry
\* the keys stay.
KeysAreEnteredHere ==
  \A c \in Chans : stored'[c].keys # stored[c].keys =>
    \E p \in puts \ puts' :
      /\ p.id = c /\ ToSet(stored'[c].keys) \ ToSet(stored[c].keys) \subseteq p.keyed
      /\ stored[c].multi /\ p.mode = "append" =>
           IsPrefix(stored[c].keys, stored'[c].keys) /\ Once(stored'[c].keys) = stored'[c].keys
      /\ p.mode # "append" => ToSet(stored'[c].keys) \subseteq p.keyed

=============================================================================
