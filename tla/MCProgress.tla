----------------------------- MODULE MCProgress -----------------------------
\* What must happen in the end, on small instances: the browser renders and runs effects and
\* timers, and every request is answered or fails; the user need not do anything.
EXTENDS Naturals, Sequences, FiniteSets

CONSTANTS None, Unread, o1

VARIABLES scenario,
          proj, loc, req, loading, ws, chat, image, confirm, pend, flights, due, exists, stored,
          updated, gstat, gsession, answered, left,  \* Workspace
          shown, isBatchTesting, stop, testing, results, loops, tests, singles, finished,  \* ModelTest
          page, server, inputs, row, saving, puts, get, toast, claimed, saves, joined,  \* OptionForms
          order, credited, gateway, notes, walletPage, calls  \* WalletOrders

workspaceVars == <<proj, loc, req, loading, ws, chat, image, confirm, pend, flights, due,
      exists, stored, updated, gstat, gsession, answered, left>>
testVars == <<shown, isBatchTesting, stop, testing, results, loops, tests, singles, finished>>
optionVars == <<page, server, inputs, row, saving, puts, get, toast, claimed, saves, joined>>
walletVars == <<order, credited, gateway, notes, walletPage, calls>>
vars == <<scenario, workspaceVars, testVars, optionVars, walletVars>>

\* Two navigations and one message; one dialog is answered.
Wandering == [navigate |-> 2, type |-> 1, prompt |-> 0, session |-> 0, answer |-> 1,
              read |-> 0, regen |-> 0, project |-> 0, fail |-> 0]

Settles == INSTANCE Workspace WITH Projects <- {"p1"}, Sessions <- {"s1", "s2", "s3"}, Owner <- [s
    \in {"s1", "s2", "s3"} |-> "p1"], FirstSessions <- {"s1", "s2", "s3"}, Gens <- {},
    Turns <- {"t1"}, MaxUpdates <- 1, Opened <- {"gone", "s1"}, Budget <- Wandering,
    Gone <- "gone"
Batch == INSTANCE ModelTest WITH Channels <- {"c1", "c2"}, Count <- 3, Limit <- 2, MaxLoops <- 2,
    MaxSingles <- 1
AnyForm == INSTANCE OptionForms WITH Forms <- {"f1"}, Pages <- {}, Faults <- {}, MaxSaves <- 1
\* A form with one field of its page, or two (with the switch that gates them).
SmallPages == UNION {{[p EXCEPT !.fields = F, !.gated = @ \cap F] :
     F \in {G \in SUBSET p.fields : Cardinality(G) \in 1..2 /\ (p.gated \cap G # {} => "switch" \in G)}} :
     p \in AnyForm!OptionPages}
Save == INSTANCE OptionForms WITH Forms <- {"f1"}, Pages <- SmallPages, Faults <- {"refuse",
    "reject"}, MaxSaves <- 2
Orders == INSTANCE WalletOrders WITH Ids <- {o1}, Methods <- {"wechat", "alipay"},
    Faults <- {"prepay", "admin"}, Unhurried <- TRUE, MaxNotes <- 2, MaxCalls <- 2,
    page <- walletPage

\* In a scenario of one component the others are absent and stay so.
NoWorkspace == proj = None /\ loc = None /\ req = None /\ loading = None /\ ws = None
      /\ chat = None /\ image = None /\ confirm = None /\ pend = None /\ flights = None
      /\ due = None /\ exists = None /\ stored = None /\ updated = None /\ gstat = None
      /\ gsession = None /\ answered = None /\ left = None
NoTest == shown = None /\ isBatchTesting = None /\ stop = None /\ testing = None
      /\ results = None /\ loops = None /\ tests = None /\ singles = None /\ finished = None
NoOption == page = None /\ server = None /\ inputs = None /\ row = None /\ saving = None
      /\ puts = None /\ get = None /\ toast = None /\ claimed = None /\ saves = None
      /\ joined = None
NoWallet == order = None /\ credited = None /\ gateway = None /\ notes = None
      /\ walletPage = None /\ calls = None

Init ==
  \/ scenario = "settles" /\ Settles!Init /\ NoTest /\ NoOption /\ NoWallet
  \/ scenario = "batch" /\ Batch!Init /\ NoWorkspace /\ NoOption /\ NoWallet
  \/ scenario = "save" /\ Save!Init /\ NoWorkspace /\ NoTest /\ NoWallet
  \/ scenario = "wallet" /\ Orders!Init /\ NoWorkspace /\ NoTest /\ NoOption

Next ==
  \/ scenario = "settles" /\ Settles!Next /\ UNCHANGED <<scenario, testVars, optionVars, walletVars>>
  \/ scenario = "batch" /\ Batch!Next /\ UNCHANGED <<scenario, workspaceVars, optionVars, walletVars>>
  \/ scenario = "save" /\ Save!Next /\ UNCHANGED <<scenario, workspaceVars, testVars, walletVars>>
  \/ scenario = "wallet" /\ Orders!Next /\ UNCHANGED <<scenario, workspaceVars, testVars, optionVars>>

Spec == Init /\ [][Next]_vars

FairSpec ==
  /\ Spec
  /\ WF_workspaceVars(scenario = "settles" /\ Settles!Effects)
  /\ WF_workspaceVars(scenario = "settles" /\ Settles!CommitUrl)
  /\ \A k \in {"load", "meta", "read", "poll", "switch", "create", "clear", "send", "image", "regen"} :
       WF_workspaceVars(scenario = "settles" /\ \E f \in flights : f.kind = k /\ (Settles!Serve(f) \/ Settles!Arrives(f)))
  /\ WF_testVars(scenario = "batch" /\ Batch!LoopStep)
  /\ WF_testVars(scenario = "batch" /\ \E t \in tests : Batch!TestArrives(t))
  /\ WF_optionVars(scenario = "save" /\ \E p \in puts : \E at \in {"done", "refused", "rejected"} : Save!PutAnswers(p, at))
  /\ WF_optionVars(scenario = "save" /\ \E f \in {"f1"} : Save!BatchResolves(f) \/ Save!BatchRejects(f))
  /\ WF_walletVars(scenario = "wallet" /\ Orders!Notify(o1))
  /\ WF_walletVars(scenario = "wallet" /\ Orders!refreshQrOrder)
  /\ \A c \in 1..4 : WF_walletVars(scenario = "wallet" /\ c \in DOMAIN calls
                                  /\ (Orders!Read(c) \/ Orders!Return(c) \/ Orders!InsertOrder(c)))

-----------------------------------------------------------------------------
\* Once the user stops navigating, the address bar and the page agree, or a dialog is open.
UrlSettles == scenario = "settles" => Settles!UrlSettles

\* What the page waits for ends: a form that sends its options gets its buttons back, whatever
\* fails, and a batch of model tests that is started ends.  An order that is paid at the gateway
\* is credited, and the QR code of a credited order is put away.
WaitingEnds ==
  /\ scenario = "save" /\ saving # [f \in {"f1"} |-> 0] ~> saving = [f \in {"f1"} |-> 0]
  /\ scenario = "batch" /\ isBatchTesting = TRUE ~> isBatchTesting = FALSE
  /\ scenario = "wallet" /\ gateway[o1] = "paid" ~> scenario = "wallet" /\ credited[o1] = 1
  /\ scenario = "wallet" /\ walletPage.qr = o1 /\ credited[o1] = 1
       ~> scenario = "wallet" /\ walletPage.qr # o1

=============================================================================
