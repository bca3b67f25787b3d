--------------------------- MODULE SystemSettings ---------------------------
(***************************************************************************)
(* The system and the other settings (components/settings/SystemSetting,   *)
(* OtherSetting): many cards on one page, each with its own button.  The   *)
(* options are read once, when the page opens.  Nothing is disabled while  *)
(* a card is saved, so saves overlap each other and the typing; a save     *)
(* that ends writes the inputs of the render it was started from back.     *)
(***************************************************************************)
EXTENDS Naturals, FiniteSets

CONSTANTS Cards,     \* cards on the page
          Kinds,     \* the cards a card may be
          Faults,    \* subset of {"refuse", "reject"}
          MaxSaves

\* fields: what the card holds; diff: only what differs from the values first read is sent;
\* blank: when an empty secret is sent too; busy: its button loads during its save; own: a
\* save writes back its own option only.
Card(fields, diff) ==
  [fields |-> fields, diff |-> diff, blank |-> "never", busy |-> FALSE, own |-> FALSE]

\* A switch of a card is saved by itself (handleCheckboxChange), so it is not a field here.
ServerCard == {"text"}
WorkerCard == {"text", "switch", "secret"}
SSRFCard == {"text"}
LoginCard == {"switch"}
PasskeyCard == {"text"}
EmailDomainCard == {"text"}
SMTPCard == {"text", "secret"}
OIDCCard == {"text", "secret"}
GitHubCard == {"text", "secret"}
DiscordCard == {"text", "secret"}
LinuxDOCard == {"text", "secret"}
WeChatCard == {"text", "secret"}
TelegramCard == {"text", "secret"}
TurnstileCard == {"text", "secret"}

submitServerAddress == Card(ServerCard, FALSE)
submitWorker == [Card(WorkerCard, FALSE) EXCEPT !.blank = "noText"]
submitSSRF == Card(SSRFCard, FALSE)
submitPasskeySettings == Card(PasskeyCard, FALSE)
submitEmailDomainWhitelist == Card(EmailDomainCard, FALSE)
submitTelegramSettings == [Card(TelegramCard, FALSE) EXCEPT !.blank = "always"]
submitSMTP == Card(SMTPCard, TRUE)
submitWeChat == Card(WeChatCard, TRUE)
submitGitHubOAuth == Card(GitHubCard, TRUE)
submitDiscordOAuth == Card(DiscordCard, TRUE)
submitOIDCSettings == Card(OIDCCard, TRUE)
submitLinuxDOOAuth == Card(LinuxDOCard, TRUE)
submitTurnstile == Card(TurnstileCard, TRUE)
handleCheckboxChange == Card(LoginCard, FALSE)

\* The other settings: one option and one loading flag per button.
NoticeCard == {"text"}
PersonalCard == {"text"}
submitNotice == [Card(NoticeCard, FALSE) EXCEPT !.busy = TRUE, !.own = TRUE]
submitSystemName == [Card(PersonalCard, FALSE) EXCEPT !.busy = TRUE, !.own = TRUE]

SystemCards ==
  {submitServerAddress, submitWorker, submitSSRF, submitPasskeySettings, submitEmailDomainWhitelist,
   submitTelegramSettings, submitSMTP, submitWeChat, submitGitHubOAuth, submitDiscordOAuth,
   submitOIDCSettings, submitLinuxDOOAuth, submitTurnstile, handleCheckboxChange}
OtherCards == {submitNotice, submitSystemName}

-----------------------------------------------------------------------------
VARIABLES card,     \* card -> its kind
          server, origin, \* card -> field -> value stored, value first read
          form, inputs,   \* value on screen, value a submit uses
          saves,    \* saves under way
          count,    \* saves so far
          toast,    \* card -> "none", "saved" or "failed"
          claimed,  \* history: card -> field -> value of the save last reported
          overlap,  \* history: cards two saves of which were under way at once
          lag       \* history: a save has ended since the last edit

vars == <<card, server, origin, form, inputs, saves, count, toast, claimed, overlap, lag>>

Fields(c) == card[c].fields
Values(v) == [c \in Cards |-> [k \in Fields(c) |-> v]]

\* onValueChange hands over all the values of the form.
Edit(c, k, n) ==
  /\ form[c][k] # n
  /\ form' = [form EXCEPT ![c][k] = n]
  /\ inputs' = form'
  /\ lag' = FALSE
  /\ UNCHANGED <<card, server, origin, saves, count, toast, claimed, overlap>>

\* An empty secret field means that the stored secret is kept, on most cards.
BlankSent(c) == card[c].blank = "always" \/ (card[c].blank = "noText" /\ inputs[c]["text"] = 0)

\* The options a button sends.
Options(c) ==
  {k \in Fields(c) : /\ card[c].diff => inputs[c][k] # origin[c][k]
                     /\ k = "secret" => inputs[c][k] # 0 \/ BlankSent(c)}

\* updateOptions: the switches one by one, then the others all at once.
submit(c) ==
  /\ count < MaxSaves /\ Options(c) # {}
  /\ card[c].busy => ~\E s \in saves : s.card = c
  /\ LET O == Options(c)
         S == O \cap {"switch"}
     IN saves' = saves \cup {[id |-> count, card |-> c, opts |-> O, caps |-> inputs, seen |-> form,
                              lagged |-> lag, fly |-> IF S # {} THEN S ELSE O, then |-> IF S # {} THEN O \ S ELSE {}]}
  /\ count' = count + 1
  /\ overlap' = IF \E s \in saves : s.card = c THEN overlap \cup {c} ELSE overlap
  /\ toast' = [toast EXCEPT ![c] = "none"]
  /\ UNCHANGED <<card, server, origin, form, inputs, claimed, lag>>

\* One PUT is answered; success: false on a switch ends the save, on another option it is
\* reported and the save goes on.
PutAnswers(s, k, ok) ==
  /\ k \in s.fly /\ (ok \/ "refuse" \in Faults)
  /\ server' = IF ok THEN [server EXCEPT ![s.card][k] = s.caps[s.card][k]] ELSE server
  /\ saves' = IF ~ok /\ k = "switch" THEN saves \ {s}
              ELSE (saves \ {s}) \cup
                   {[s EXCEPT !.fly = IF s.fly = {k} THEN s.then ELSE s.fly \ {k},
                              !.then = IF s.fly = {k} THEN {} ELSE s.then]}
  /\ UNCHANGED <<card, origin, form, inputs, count, toast, claimed, overlap, lag>>

\* The inputs after a save: those of its render, or with its own option only.
WrittenBack(s) == IF card[s.card].own THEN [inputs EXCEPT ![s.card] = s.caps[s.card]] ELSE s.caps

SaveEnds(s) ==
  /\ s.fly = {}
  /\ saves' = saves \ {s}
  /\ toast' = [toast EXCEPT ![s.card] = "saved"]
  /\ claimed' = [claimed EXCEPT ![s.card] = [k \in s.opts |-> s.caps[s.card][k]]]
  /\ inputs' = WrittenBack(s)
  /\ lag' = TRUE
  /\ UNCHANGED <<card, server, origin, form, count, overlap>>

\* A request rejects: the save ends, the others of it may still be stored.
SaveRejects(s) ==
  /\ "reject" \in Faults /\ s.fly # {}
  /\ \E A \in SUBSET s.fly :
       server' = [server EXCEPT ![s.card] = [k \in Fields(s.card) |-> IF k \in A THEN s.caps[s.card][k] ELSE @[k]]]
  /\ saves' = saves \ {s}
  /\ toast' = [toast EXCEPT ![s.card] = "failed"]
  /\ UNCHANGED <<card, origin, form, inputs, count, claimed, overlap, lag>>

-----------------------------------------------------------------------------
\* getOptions has answered.
Init ==
  /\ card \in [Cards -> Kinds]
  /\ server = Values(0) /\ origin = Values(0) /\ form = Values(0) /\ inputs = Values(0)
  /\ saves = {} /\ count = 0 /\ toast = [c \in Cards |-> "none"]
  /\ claimed = [c \in Cards |-> <<>>] /\ overlap = {} /\ lag = FALSE

Next ==
  \/ \E c \in Cards : submit(c) \/ \E k \in Fields(c), n \in 0..1 : Edit(c, k, n)
  \/ \E s \in saves : SaveEnds(s) \/ SaveRejects(s) \/ \E k \in s.fly, ok \in BOOLEAN : PutAnswers(s, k, ok)

Spec == Init /\ [][Next]_vars

-----------------------------------------------------------------------------
TypeOK ==
  /\ \A c \in Cards : \A k \in Fields(c) : {server[c][k], form[c][k], inputs[c][k]} \subseteq 0..1
  /\ \A s \in saves : s.fly \subseteq s.opts /\ s.then \subseteq s.opts
  /\ toast \in [Cards -> {"none", "saved", "failed"}]

\* A save sends what the screen showed when its button was pressed, unless another save
\* ended between the last edit and the button and put its older inputs back.
SendsWhatIsShown ==
  \A s \in saves : ~s.lagged => \A k \in s.opts : s.caps[s.card][k] = s.seen[s.card][k]

\* A card reported as saved is stored as reported, whatever else was saved at the same time,
\* unless the same card was saved twice at once: "更新成功" (SystemSetting.jsx).
SavedIsStored ==
  \A c \in Cards : (toast[c] = "saved" /\ c \notin overlap) =>
    \A k \in DOMAIN claimed[c] : server[c][k] = claimed[c][k]

\* A stored secret is never replaced by an empty one, on the cards that send a secret only
\* when it was typed.
SecretsAreNotErased ==
  \A c \in Cards : ("secret" \in Fields(c) /\ card[c].blank = "never") => server'[c]["secret"] >= server[c]["secret"]

=============================================================================
