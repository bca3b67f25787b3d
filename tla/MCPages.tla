------------------------------ MODULE MCPages -------------------------------
\* The pages that users work with: the Mujian workspace, the playground with the thoughts of its
\* answers, the top-up page, the credit wallet, and the bills of the usage log.  A behaviour is
\* one scenario; what the user does in it is bounded by a plan or by a number of calls.
EXTENDS Naturals, Sequences, FiniteSets

CONSTANTS None

VARIABLES scenario,
          proj, loc, req, loading, ws, chat, image, confirm, pend, flights, due, exists, stored,
          updated, gstat, gsession, answered, left,  \* Workspace
          message, saved, messageId, requests, asked, source, timer, modal, editing, strayed,
          playLeft,  \* Playground
          status, content, reasoning, isThinkingComplete, hasAutoCollapsed, isReasoningExpanded,  \* ThinkTags
          page, account, buy, server, orders, calls, made,  \* TopUp
          order, credited, gateway, notes, walletPage, walletCalls,  \* WalletOrders
          entry, usage, price, display, format  \* BillingDisplay

workspaceVars == <<proj, loc, req, loading, ws, chat, image, confirm, pend, flights, due,
      exists, stored, updated, gstat, gsession, answered, left>>
playVars == <<message, saved, messageId, requests, asked, source, timer, modal, editing,
      strayed, playLeft>>
thinkVars == <<status, content, reasoning, isThinkingComplete, hasAutoCollapsed,
      isReasoningExpanded>>
payVars == <<page, account, buy, server, orders, calls, made>>
walletVars == <<order, credited, gateway, notes, walletPage, walletCalls>>
billVars == <<entry, usage, price, display, format>>
vars == <<scenario, workspaceVars, playVars, thinkVars, payVars, walletVars, billVars>>

Owners == [s \in {"s1", "s2", "q1"} |-> IF s = "q1" THEN "p2" ELSE "p1"]
\* How often the user navigates, starts a message, starts an image prompt, uses the session
\* menu, adds attachments, regenerates, changes the project, and how many requests fail; one
\* dialog is answered.
Plan(n, t, i, s, r, g, p, f) ==
  [navigate |-> n, type |-> t, prompt |-> i, session |-> s, answer |-> 1,
   read |-> r, regen |-> g, project |-> p, fail |-> f]
\* How often the user sends, retries, deletes, toggles, edits, stops, clears and reloads.
Conversation(s, r, d, t, e, p, c, l) ==
  [send |-> s, reset |-> r, delete |-> d, toggle |-> t, edit |-> e, stop |-> p, clear |-> c, reload |-> l]

Chat == INSTANCE Workspace WITH Projects <- {"p1"}, Sessions <- {"s1", "s2", "s3"}, Owner <- [s
    \in {"s1", "s2", "s3"} |-> "p1"], FirstSessions <- {"s1", "s2"}, Gens <- {}, Turns <- {"t1"},
    MaxUpdates <- 1, Opened <- {None, "s1"}, Budget <- Plan(1, 1, 0, 1, 1, 0, 0, 0),
    Gone <- "gone"
Images == INSTANCE Workspace WITH Projects <- {"p1"}, Sessions <- {"s1", "s2"}, Owner <- [s \in
    {"s1", "s2"} |-> "p1"], FirstSessions <- {"s1", "s2"}, Gens <- {"g1", "g2"}, Turns <- {},
    MaxUpdates <- 1, Opened <- {"s1"}, Budget <- Plan(0, 0, 1, 1, 0, 1, 0, 0), Gone <- "gone"
TwoProjects == INSTANCE Workspace WITH Projects <- {"p1", "p2"}, Sessions <- {"s1", "s2", "q1"},
    Owner <- Owners, FirstSessions <- {"s1", "q1"}, Gens <- {}, Turns <- {"t1"}, MaxUpdates <- 1,
    Opened <- {None, "gone", "s1"}, Budget <- Plan(0, 1, 0, 1, 0, 0, 1, 1), Gone <- "gone"
Talk == INSTANCE Playground WITH MaxMessages <- 6, MaxRequests <- 2, Budget <- Conversation(2, 1,
    1, 1, 1, 1, 1, 0), left <- playLeft
Reopen == INSTANCE Playground WITH MaxMessages <- 6, MaxRequests <- 3, Budget <- Conversation(1,
    1, 1, 0, 0, 1, 0, 1), left <- playLeft
Thoughts == INSTANCE ThinkTags WITH Text <- {"a", "b"}, MaxContent <- 5, MaxReasoning <- 1
Pay == INSTANCE TopUp WITH Uses <- {"pay", "waffo", "creem"}, Enabled <- {"online", "stripe",
    "waffo", "creem"}, Counts <- {1, 2, 3}, Price <- 2, StripeUnitPrice <- 3,
    TopupGroupRatio <- 2, AmountDiscount <- <<10, 10, 5>>, MinTopUp <- 2, StripeMinTopUp <- 3,
    WaffoMinTopUp <- 2, Codes <- {}, Plans <- {}, PlanLimit <- 1, Prefs <- {"subscription_first",
    "wallet_only"}, Faults <- {"refused"}, Unhurried <- TRUE, MaxCalls <- 8
Account == INSTANCE TopUp WITH Uses <- {"redeem", "transfer", "pref", "plans"},
    Enabled <- {"online", "stripe", "waffo", "creem"}, Counts <- {1, 2, 3}, Price <- 2,
    StripeUnitPrice <- 3, TopupGroupRatio <- 2, AmountDiscount <- <<10, 10, 5>>, MinTopUp <- 2,
    StripeMinTopUp <- 3, WaffoMinTopUp <- 2, Codes <- {"c1", "c2"}, Plans <- {"p"},
    PlanLimit <- 1, Prefs <- {"subscription_first", "wallet_only"}, Faults <- {"refused"},
    Unhurried <- TRUE, MaxCalls <- 8
BuyPlans == INSTANCE TopUp WITH Uses <- {"plans"}, Enabled <- {"online", "stripe", "waffo",
    "creem"}, Counts <- {1, 2, 3}, Price <- 2, StripeUnitPrice <- 3, TopupGroupRatio <- 2,
    AmountDiscount <- <<10, 10, 5>>, MinTopUp <- 2, StripeMinTopUp <- 3, WaffoMinTopUp <- 2,
    Codes <- {}, Plans <- {"p"}, PlanLimit <- 1, Prefs <- {"subscription_first", "wallet_only"},
    Faults <- {"lost"}, Unhurried <- FALSE, MaxCalls <- 5
Orders == INSTANCE WalletOrders WITH Ids <- {1, 2}, Methods <- {"wechat", "alipay"},
    Faults <- {"prepay"}, Unhurried <- TRUE, MaxNotes <- 2, MaxCalls <- 2, page <- walletPage,
    calls <- walletCalls
OrdersHurried == INSTANCE WalletOrders WITH Ids <- {1}, Methods <- {"wechat", "alipay"},
    Faults <- {"prepay", "lost", "admin"}, Unhurried <- FALSE, MaxNotes <- 2, MaxCalls <- 2,
    page <- walletPage, calls <- walletCalls
AnyBill == INSTANCE BillingDisplay WITH Semantics <- {}, Features <- {}, Ratios <- {}
Bills == INSTANCE BillingDisplay WITH Semantics <- AnyBill!AllSemantics,
    Features <- AnyBill!AllFeatures, Ratios <- {<<1, 3, 1>>, <<0, 2, 1>>, <<3, 0, 1>>, <<3, 2,
    0>>}

\* In a scenario of one component the others are absent and stay so.
NoWorkspace == proj = None /\ loc = None /\ req = None /\ loading = None /\ ws = None
      /\ chat = None /\ image = None /\ confirm = None /\ pend = None /\ flights = None
      /\ due = None /\ exists = None /\ stored = None /\ updated = None /\ gstat = None
      /\ gsession = None /\ answered = None /\ left = None
NoPlay == message = None /\ saved = None /\ messageId = None /\ requests = None /\ asked = None
      /\ source = None /\ timer = None /\ modal = None /\ editing = None /\ strayed = None
      /\ playLeft = None
NoThink == status = None /\ content = None /\ reasoning = None /\ isThinkingComplete = None
      /\ hasAutoCollapsed = None /\ isReasoningExpanded = None
NoPay == page = None /\ account = None /\ buy = None /\ server = None /\ orders = None
      /\ calls = None /\ made = None
NoWallet == order = None /\ credited = None /\ gateway = None /\ notes = None
      /\ walletPage = None /\ walletCalls = None
NoBill == entry = None /\ usage = None /\ price = None /\ display = None /\ format = None

Init ==
  \/ scenario = "chat" /\ Chat!Init /\ NoPlay /\ NoThink /\ NoPay /\ NoWallet /\ NoBill
  \/ scenario = "images" /\ Images!Init /\ NoPlay /\ NoThink /\ NoPay /\ NoWallet /\ NoBill
  \/ scenario = "projects" /\ TwoProjects!Init /\ NoPlay /\ NoThink /\ NoPay /\ NoWallet /\ NoBill
  \/ scenario = "talk" /\ Talk!Init /\ NoWorkspace /\ NoThink /\ NoPay /\ NoWallet /\ NoBill
  \/ scenario = "reopen" /\ Reopen!Init /\ NoWorkspace /\ NoThink /\ NoPay /\ NoWallet /\ NoBill
  \/ scenario = "thoughts" /\ Thoughts!Init /\ NoWorkspace /\ NoPlay /\ NoPay /\ NoWallet /\ NoBill
  \/ scenario = "pay" /\ Pay!Init /\ NoWorkspace /\ NoPlay /\ NoThink /\ NoWallet /\ NoBill
  \/ scenario = "account" /\ Account!Init /\ NoWorkspace /\ NoPlay /\ NoThink /\ NoWallet /\ NoBill
  \/ scenario = "plans" /\ BuyPlans!Init /\ NoWorkspace /\ NoPlay /\ NoThink /\ NoWallet /\ NoBill
  \/ scenario = "wallet" /\ Orders!Init /\ NoWorkspace /\ NoPlay /\ NoThink /\ NoPay /\ NoBill
  \/ scenario = "wallet_hurried" /\ OrdersHurried!Init /\ NoWorkspace /\ NoPlay /\ NoThink /\ NoPay /\ NoBill
  \/ scenario = "bills" /\ Bills!Init /\ NoWorkspace /\ NoPlay /\ NoThink /\ NoPay /\ NoWallet

Next ==
  \/ scenario = "chat" /\ Chat!Next /\ UNCHANGED <<scenario, playVars, thinkVars, payVars, walletVars, billVars>>
  \/ scenario = "images" /\ Images!Next /\ UNCHANGED <<scenario, playVars, thinkVars, payVars, walletVars, billVars>>
  \/ scenario = "projects" /\ TwoProjects!Next /\ UNCHANGED <<scenario, playVars, thinkVars, payVars, walletVars, billVars>>
  \/ scenario = "talk" /\ Talk!Next /\ UNCHANGED <<scenario, workspaceVars, thinkVars, payVars, walletVars, billVars>>
  \/ scenario = "reopen" /\ Reopen!Next /\ UNCHANGED <<scenario, workspaceVars, thinkVars, payVars, walletVars, billVars>>
  \/ scenario = "thoughts" /\ Thoughts!Next /\ UNCHANGED <<scenario, workspaceVars, playVars, payVars, walletVars, billVars>>
  \/ scenario = "pay" /\ Pay!Next /\ UNCHANGED <<scenario, workspaceVars, playVars, thinkVars, walletVars, billVars>>
  \/ scenario = "account" /\ Account!Next /\ UNCHANGED <<scenario, workspaceVars, playVars, thinkVars, walletVars, billVars>>
  \/ scenario = "plans" /\ BuyPlans!Next /\ UNCHANGED <<scenario, workspaceVars, playVars, thinkVars, walletVars, billVars>>
  \/ scenario = "wallet" /\ Orders!Next /\ UNCHANGED <<scenario, workspaceVars, playVars, thinkVars, payVars, billVars>>
  \/ scenario = "wallet_hurried" /\ OrdersHurried!Next /\ UNCHANGED <<scenario, workspaceVars, playVars, thinkVars, payVars, billVars>>
  \/ scenario = "bills" /\ Bills!Next /\ UNCHANGED <<scenario, workspaceVars, playVars, thinkVars, payVars, walletVars>>

Spec == Init /\ [][Next]_vars

-----------------------------------------------------------------------------
\* Every variable of the scenario's component keeps its type.
TypeOK ==
  /\ scenario = "chat" => Chat!TypeOK
  /\ scenario = "talk" => Talk!TypeOK
  /\ scenario = "thoughts" => Thoughts!TypeOK
  /\ scenario = "pay" => Pay!TypeOK
  /\ scenario = "wallet" => Orders!TypeOK
  /\ scenario = "bills" => Bills!TypeOK

\* What is shown belongs where it is shown: an answer, an event or a poll of another session
\* never lands in the visible one (the scope checks of index.jsx), and an answer of the
\* playground holds text of its own request only, unless the user cleared the list, edited a
\* question or pressed Stop while a request was under way.
ShownBelongsHere ==
  /\ scenario = "images" => Images!ShownBelongsToSession
  /\ scenario = "talk" => Talk!AnswerIsOwn

\* What is shown as under way has its request, also after a change of project and after a
\* failure: a streaming message its stream, an unfinished image task its poll; a session change,
\* a send and an image submission exclude each other; only the last message of the playground
\* is being generated, so that Stop finds it.
WaitingHasRequest ==
  /\ scenario = "chat" => Chat!StreamingHasRequest /\ Chat!OperationsExclude
  /\ scenario = "projects" => TwoProjects!StreamingHasRequest
  /\ scenario = "images" => Images!UnfinishedIsPolled
  /\ scenario = "talk" => Talk!GeneratingIsLast

\* Stopping an answer stores what was on the screen, whatever tags had arrived.
StopKeepsDisplay == scenario = "thoughts" => Thoughts!StopKeepsDisplay

\* Money is what the pages say it is: a payment is made for the amount that was shown; the
\* balances and the preference shown are the server's once the page has settled, and
\* no plan is bought beyond its limit; an order is credited once however often its payment is
\* notified, fails or is completed by hand, and is announced when it is in the balance; a bill of
\* the usage log adds up to what was charged, with the exceptions BillingDisplay names.
MoneyIsAsShown ==
  /\ scenario = "pay" => Pay!ChargedAsShown /\ Pay!AccountIsServers
  /\ scenario = "account" => Account!AccountIsServers /\ Account!WithinLimit
  /\ scenario = "plans" => BuyPlans!WithinLimit
  /\ scenario = "wallet" => Orders!CreditedOnce /\ Orders!AnnouncedIsInBalance
  /\ scenario = "wallet_hurried" => OrdersHurried!CreditedOnce
  /\ scenario = "bills" => Bills!ShownIsBilled /\ Bills!SumIsTotal /\ Bills!PricesAgree

\* Nothing is lost or changed behind the user's back: a chat draft goes only by being sent, by a
\* change of project or by consent; the network never changes an answer that has ended; nothing
\* restored from localStorage is left spinning; the page closes thoughts once, then only the
\* reader opens and closes them; a QR code is put away for its own order only.
NothingLostUnasked ==
  [][/\ scenario = "chat" => Chat!DraftLostOnlyByConsent
     /\ scenario = "talk" => Talk!FinishedIsFinal
     /\ scenario = "reopen" => Reopen!NothingRestoredSpins
     /\ scenario = "thoughts" => Thoughts!ReaderDecides
     /\ scenario = "wallet" => Orders!QrClosesForItsOrder]_vars

=============================================================================
