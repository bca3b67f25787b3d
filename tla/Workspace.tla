------------------------------ MODULE Workspace ------------------------------
(***************************************************************************)
(* The creation workspace page (web/src/pages/MujianWorkspace): one project *)
(* at a time, one active agent session in it, a chat composer that streams *)
(* answers, an image composer whose tasks are polled, a session menu, and  *)
(* the session_id parameter of the address bar.                            *)
(*                                                                         *)
(* Every request of the page is a record in `flights'.  An abort makes the *)
(* promise reject as cancelled, and every continuation ignores a cancelled *)
(* request, so an aborted request leaves `flights' - except that the server *)
(* may still carry out what it asked for (live = FALSE).  Each `ref' of the *)
(* component (sessionRequest, agentRequest, ...) is therefore the live     *)
(* flight of its kinds: every line that nulls a ref also aborts it.        *)
(*                                                                         *)
(* The address bar is in two parts: `loc' is window.location, written at   *)
(* once by setSearchParams; `req' is the searchParams of the last render,  *)
(* which a transition brings up to date later.  setSearchParams, and with  *)
(* it setSessionInUrl and load, are new functions after every change of    *)
(* the parameters (react-router-dom 6.28, bun.lock), so the effect that    *)
(* calls load runs again then.                                             *)
(***************************************************************************)
EXTENDS Naturals, FiniteSets

CONSTANTS Projects, Sessions,   \* ids
          Owner,                \* session -> its project
          FirstSessions,        \* sessions that exist when the page opens
          Opened,               \* the session_id the page may be opened with
          Gens,                 \* ids of image generations
          Turns,                \* ids of chat turns
          None,                 \* no session, no dialog, no workspace
          Gone,                 \* the id of a session that was removed
          MaxUpdates,           \* bound on server updates of one session
          Budget                \* how often the user does each thing

VARIABLES proj,      \* the project of the route
          loc,       \* session_id in window.location
          req,       \* session_id of the rendered searchParams
          loading,   \* the state `loading'
          ws,        \* the state `workspace'
          chat,      \* the chat draft: None, or the session it was written in
          image,     \* the image draft, likewise
          confirm,   \* the open confirmation dialog
          pend,      \* pendingUrlSession
          flights,   \* requests under way
          due,       \* effects the last commit scheduled
          exists, stored, updated, gstat, gsession,   \* the server
          answered,  \* turns whose completed event the page has taken
          left       \* remaining user actions

client == <<proj, loc, req, loading, ws, chat, image, confirm, pend, due, answered>>
server == <<exists, stored, updated, gstat, gsession>>
vars   == <<client, flights, server, left>>

\* queued and running are one status here, succeeded and failed the other.
Unfinished == {"running"}
SessionKinds == {"switch", "create", "clear"}
Mutating == {"create", "clear", "send", "image", "regen"}
Flights == [kind : {"load", "meta", "read", "poll"} \cup SessionKinds \cup Mutating,
            project : Projects, session : Sessions \cup {None, Gone},
            item : Turns \cup Gens \cup {None},
            byUrl : BOOLEAN, asked : BOOLEAN, live : BOOLEAN]

-----------------------------------------------------------------------------
(* What the page asks and what the guards read.                            *)

\* A request that starts now, for session s and item i (a turn or generation).
Request(kind, p, s, i, url, ask) ==
  [kind |-> kind, project |-> p, session |-> s, item |-> i,
   byUrl |-> url, asked |-> ask, live |-> TRUE, answer |-> None]

Live(kinds) == {f \in flights : f.live /\ f.kind \in kinds}

\* controller.abort() on each request of S.
Abort(fs, S) ==
  (fs \ S) \cup {[f EXCEPT !.live = FALSE] : f \in {g \in S : g.kind \in Mutating /\ g.answer = None}}

Visible == ws # None /\ ws.project = proj
Active  == IF Visible THEN ws.active ELSE None
\* Mutant: hasWorkspaceDraft forgets the chat message.
ImageDraftOnly == image # None

HasDraft == chat # None \/ image # None

\* The requests that keep switchSession, createSession and clearSession away.
SessionBusy == Live(SessionKinds \cup {"send", "image", "regen", "read"}) # {}

\* The menu and its buttons are disabled while anything is under way.
SessionControlsBusy == loading \/ ~Visible \/ SessionBusy

\* The composers are disabled by a session change, a send or an image submission.
OperationBusy == Live(SessionKinds \cup {"send", "image"}) # {}

\* A dialog covers the page.
Masked == confirm # None

Spend(what) == left[what] > 0 /\ left' = [left EXCEPT ![what] = @ - 1]

-----------------------------------------------------------------------------
(* The server, as the page uses it.                                        *)

ShownMessages(s) == {[turn |-> t, session |-> s, stored |-> TRUE] : t \in stored[s]}

\* GET workspace, POST sessions and DELETE messages answer with this.
WorkspaceOf(p, s) ==
  [project |-> p, active |-> s,
   sessions |-> [x \in {y \in exists : Owner[y] = p} |-> updated[x]],
   messages |-> ShownMessages(s),
   gens |-> [g \in {h \in Gens : gsession[h] = s} |-> gstat[g]]]

AnswerWith(f, a) ==
  flights' = (flights \ {f}) \cup (IF f.live THEN {[f EXCEPT !.answer = a]} ELSE {})

ServerReads(f) ==
  /\ f.kind \in {"load", "switch", "meta"}
  /\ \E s \in exists :
       /\ Owner[s] = f.project
       /\ f.session \in exists => s = f.session
       /\ AnswerWith(f, WorkspaceOf(f.project, s))
  /\ UNCHANGED server

\* Mutant: the answer lists the sessions from before the insert.
ServerCreatesStaleList(f) ==
  /\ f.kind = "create"
  /\ \E s \in Sessions \ exists :
       /\ Owner[s] = f.project
       /\ exists' = exists \cup {s}
       /\ AnswerWith(f, WorkspaceOf(f.project, s))
  /\ UNCHANGED <<stored, updated, gstat, gsession>>

ServerCreates(f) ==
  /\ f.kind = "create"
  /\ \E s \in Sessions \ exists :
       /\ Owner[s] = f.project
       /\ exists' = exists \cup {s}
       /\ AnswerWith(f, [WorkspaceOf(f.project, s) EXCEPT
                          !.sessions = [x \in DOMAIN @ \cup {s} |-> updated[x]]])
  /\ UNCHANGED <<stored, updated, gstat, gsession>>

ServerClears(f) ==
  /\ f.kind = "clear"
  /\ updated[f.session] < MaxUpdates
  /\ stored' = [stored EXCEPT ![f.session] = {}]
  /\ updated' = [updated EXCEPT ![f.session] = @ + 1]
  /\ AnswerWith(f, [WorkspaceOf(f.project, f.session) EXCEPT
                     !.messages = {}, !.sessions[f.session] = @ + 1])
  /\ UNCHANGED <<exists, gstat, gsession>>

\* The turn is persisted before the completed event leaves.
ServerCompletes(f) ==
  /\ f.kind = "send"
  /\ updated[f.session] < MaxUpdates
  /\ stored' = [stored EXCEPT ![f.session] = @ \cup {f.item}]
  /\ updated' = [updated EXCEPT ![f.session] = @ + 1]
  /\ AnswerWith(f, [turn |-> f.item, session |-> f.session, stored |-> TRUE])
  /\ UNCHANGED <<exists, gstat, gsession>>

\* A submission, or the regeneration of an old task, is a new queued task.
ServerQueues(f) ==
  /\ f.kind \in {"image", "regen"}
  /\ updated[f.session] < MaxUpdates
  /\ \E g \in {h \in Gens : gsession[h] = None} :
       /\ gsession' = [gsession EXCEPT ![g] = f.session]
       /\ gstat' = [gstat EXCEPT ![g] = "running"]
       /\ updated' = [updated EXCEPT ![f.session] = @ + 1]
       /\ AnswerWith(f, [id |-> g, session |-> f.session, status |-> "running"])
  /\ UNCHANGED <<exists, stored>>

ServerPolled(f) ==
  /\ f.kind = "poll"
  /\ AnswerWith(f, [id |-> f.item, session |-> gsession[f.item], status |-> gstat[f.item]])
  /\ UNCHANGED server

\* The request reaches the server, which acts on it and fixes its answer.
Serve(f) ==
  /\ f.answer = None
  /\ \/ ServerReads(f) \/ ServerCreates(f) \/ ServerClears(f)
     \/ ServerCompletes(f) \/ ServerQueues(f) \/ ServerPolled(f)
  /\ UNCHANGED <<client, left>>

\* The image worker ends a task, either way.
WorkerEnds(g) ==
  /\ gstat[g] \in Unfinished
  /\ gstat' = [gstat EXCEPT ![g] = "ended"]
  /\ UNCHANGED <<client, flights, exists, stored, updated, gsession, left>>

-----------------------------------------------------------------------------
(* Effects.  One flush runs the load effect, the address effect and the    *)
(* polling effect of the last commit, in this order.                       *)

\* The load effect: its cleanup aborts the load under way, then load() reads
\* the address bar.  The cancelled load's finally clears `loading' again.
AfterLoadEffect ==
  IF "load" \in due
  THEN Abort(flights, Live({"load"})) \cup {Request("load", proj, loc, None, FALSE, FALSE)}
  ELSE flights

LoadingAfterEffect ==
  IF "load" \in due THEN ~\E f \in Live({"load"}) : f.project = proj ELSE loading

Dialog(kind, target) == [kind |-> kind, target |-> target, from |-> Active, busy |-> FALSE]

\* The address effect: follow the address bar, or put it back.  When it aborts a
\* switch it had started for an older address, that switch's finish() runs after
\* the effect and clears pendingUrlSession, whatever it holds by then.
UrlEffect(fs) ==
  LET changing == {f \in fs : f.live /\ f.kind \in SessionKinds}
      stale    == pend # None /\ pend # req
      fs1      == IF stale THEN Abort(fs, changing) ELSE fs
      pend1    == IF stale THEN None ELSE pend
      confirm1 == IF stale THEN None ELSE confirm
      finished == stale /\ \E f \in changing : f.byUrl
      busy     == \E f \in fs1 : f.live /\ f.kind \in SessionKinds \cup {"send", "image", "regen", "read"}
      put(l)   == [loc |-> l, pend |-> pend1, confirm |-> confirm1, flights |-> fs1]
      pend2    == IF finished THEN None ELSE req
  IN IF req \notin DOMAIN ws.sessions THEN put(ws.active)
     ELSE IF req = ws.active \/ pend1 = req THEN put(loc)
     ELSE IF busy THEN put(ws.active)
     ELSE IF HasDraft
          THEN [loc |-> loc, pend |-> pend2, confirm |-> Dialog("url", req), flights |-> fs1]
          ELSE [loc |-> loc, pend |-> pend2, confirm |-> confirm1,
                flights |-> fs1 \cup {Request("switch", proj, req, None, TRUE, FALSE)}]

AfterUrlEffect(fs) ==
  IF "url" \in due /\ Visible
  THEN UrlEffect(fs)
  ELSE [loc |-> loc, pend |-> pend, confirm |-> confirm, flights |-> fs]

\* The polling effect: one poll for each unfinished task that has none.
AfterPollEffect(fs) ==
  IF "poll" \in due /\ Visible
  THEN fs \cup {Request("poll", proj, ws.active, g, FALSE, FALSE) :
                g \in {h \in DOMAIN ws.gens :
                        /\ ws.gens[h] \in Unfinished
                        /\ ~\E f \in fs : /\ f.kind = "poll"
                                          /\ f.session = ws.active
                                          /\ f.item = h}}
  ELSE fs

Effects ==
  /\ due # {}
  /\ LET url == AfterUrlEffect(AfterLoadEffect)
     IN /\ loc' = url.loc
        /\ pend' = url.pend
        /\ confirm' = url.confirm
        /\ flights' = AfterPollEffect(url.flights)
  /\ loading' = LoadingAfterEffect
  /\ due' = {}
  /\ UNCHANGED <<proj, req, ws, chat, image, answered, server, left>>

\* Mutant: no effect depends on the requested session.
CommitUrlUnnoticed ==
  /\ req # loc
  /\ req' = loc
  /\ UNCHANGED <<proj, loc, loading, ws, chat, image, confirm, pend, due, answered, flights, server, left>>

\* The transition that setSearchParams or the browser's buttons started renders.
CommitUrl ==
  /\ req # loc
  /\ req' = loc
  /\ due' = due \cup {"load", "url"}
  /\ UNCHANGED <<proj, loc, loading, ws, chat, image, confirm, pend, answered, flights, server, left>>

-----------------------------------------------------------------------------
(* What the user does.                                                     *)

\* Back, forward, or an edited address; never twice within one render.
Navigate(s) ==
  /\ s # loc /\ req = loc
  /\ Spend("navigate")
  /\ loc' = s
  /\ UNCHANGED <<proj, req, loading, ws, chat, image, confirm, pend, due, answered, flights, server>>

\* Another project: the layout effect aborts and resets everything; the load of the
\* old project is only aborted by the cleanup of the load effect.
ChangeProject(p) ==
  /\ p # proj
  /\ Spend("project")
  /\ proj' = p
  /\ loc' = None /\ req' = None /\ loading' = TRUE /\ ws' = None
  /\ chat' = None /\ image' = None /\ confirm' = None /\ pend' = None
  /\ flights' = Abort(flights, {f \in flights : f.live /\ f.kind # "load"})
  /\ due' = {"load", "url", "poll"}
  /\ UNCHANGED <<answered, server>>

\* A draft changes confirmDraftDiscard, on which the address effect depends.
TypeMessage ==
  /\ Active # None /\ ~Masked /\ ~OperationBusy /\ chat = None
  /\ Spend("type")
  /\ chat' = Active
  /\ due' = due \cup {"url"}
  /\ UNCHANGED <<proj, loc, req, loading, ws, image, confirm, pend, answered, flights, server>>

TypePrompt ==
  /\ Active # None /\ ~Masked /\ ~OperationBusy /\ image = None
  /\ Spend("prompt")
  /\ image' = Active
  /\ due' = due \cup {"url"}
  /\ UNCHANGED <<proj, loc, req, loading, ws, chat, confirm, pend, answered, flights, server>>

AddAttachments ==
  /\ Active # None /\ ~Masked /\ ~OperationBusy
  /\ Live({"read", "send"} \cup SessionKinds) = {}
  /\ Spend("read")
  /\ flights' = flights \cup {Request("read", proj, Active, None, FALSE, FALSE)}
  /\ UNCHANGED <<client, server>>

\* confirmDraftDiscard: straight on without a draft, through the dialog with one.
RequestSession(kind, s) ==
  /\ ~SessionControlsBusy /\ ~Masked
  /\ kind = "clear" => ws.messages # {}
  /\ Spend("session")
  /\ IF HasDraft \/ kind = "clear"
     THEN /\ confirm' = Dialog(kind, s)
          /\ UNCHANGED flights
     ELSE /\ flights' = flights \cup {Request(kind, proj, s, None, FALSE, FALSE)}
          /\ UNCHANGED confirm
  /\ UNCHANGED <<proj, loc, req, loading, ws, chat, image, pend, due, answered, server>>

RequestSessionSwitch(s) == Visible /\ s \in DOMAIN ws.sessions \ {ws.active} /\ RequestSession("switch", s)
RequestNewSession == Visible /\ RequestSession("create", None)
RequestClearSession == Visible /\ RequestSession("clear", ws.active)

\* The dialog stays, busy, until what it started ends.
ConfirmOk ==
  /\ confirm # None /\ ~confirm.busy /\ Spend("answer")
  /\ LET kind == IF confirm.kind = "url" THEN "switch" ELSE confirm.kind
         target == IF kind = "clear" THEN Active ELSE confirm.target
     IN IF Active = None \/ SessionBusy \/ (kind = "switch" /\ target = Active)
        THEN /\ confirm' = None
             /\ pend' = IF confirm.kind = "url" THEN None ELSE pend
             /\ UNCHANGED flights
        ELSE /\ confirm' = [confirm EXCEPT !.busy = TRUE]
             /\ flights' = flights \cup {Request(kind, proj, target, None, confirm.kind = "url", TRUE)}
             /\ UNCHANGED pend
  /\ UNCHANGED <<proj, loc, req, loading, ws, chat, image, due, answered, server>>

ConfirmCancel ==
  /\ confirm # None /\ ~confirm.busy /\ Spend("answer")
  /\ confirm' = None
  /\ loc' = IF confirm.kind = "url" THEN confirm.from ELSE loc
  /\ pend' = IF confirm.kind = "url" THEN None ELSE pend
  /\ UNCHANGED <<proj, req, loading, ws, chat, image, due, answered, flights, server>>

\* sendMessage: the draft becomes an optimistic pair of messages.
SendMessage(t) ==
  /\ chat # None /\ Active # None /\ ~Masked
  /\ Live(SessionKinds \cup {"send", "image", "read"}) = {}
  /\ t \notin answered \cup {f.item : f \in flights} \cup UNION {stored[s] : s \in Sessions}
  /\ flights' = flights \cup {Request("send", proj, Active, t, FALSE, FALSE)}
  /\ ws' = [ws EXCEPT !.messages = @ \cup {[turn |-> t, session |-> Active, stored |-> FALSE]}]
  /\ chat' = None
  /\ due' = due \cup {"url"}
  /\ UNCHANGED <<proj, loc, req, loading, image, confirm, pend, answered, server, left>>

SubmitImageGeneration ==
  /\ image # None /\ Active # None /\ ~Masked
  /\ Live(SessionKinds \cup {"send", "image"}) = {}
  /\ flights' = flights \cup {Request("image", proj, Active, None, FALSE, FALSE)}
  /\ UNCHANGED <<client, server, left>>

RegenerateGeneration(g) ==
  /\ Active # None /\ ~Masked /\ g \in DOMAIN ws.gens
  /\ ws.gens[g] \notin Unfinished
  /\ Live(SessionKinds) = {}
  /\ ~\E f \in Live({"regen"}) : f.session = Active /\ f.item = g
  /\ Spend("regen")
  /\ flights' = flights \cup {Request("regen", proj, Active, g, FALSE, FALSE)}
  /\ UNCHANGED <<client, server>>


-----------------------------------------------------------------------------
(* Continuations: a live request ends.                                     *)

Ended(f) == flights \ {f}

\* refreshAgentSessionMetadata aborts the refresh under way and starts another.
WithMetadataRefresh(fs, s) ==
  (fs \ {f \in fs : f.kind = "meta"}) \cup {Request("meta", proj, s, None, FALSE, FALSE)}

\* Mutant: the update does not look at the session it is for.
UpdateAnySession(f, a) ==
  IF Visible /\ ws.project = f.project
  THEN /\ ws' = [ws EXCEPT !.gens = [g \in DOMAIN @ \cup {a.id} |-> IF g = a.id THEN a.status ELSE @[g]]]
       /\ due' = due \cup {"url", "poll"}
  ELSE UNCHANGED <<ws, due>>

\* Mutant: the list is changed in place, so the polling effect does not run.
UpdateInPlace(f, a) ==
  IF Visible /\ ws.project = f.project /\ ws.active = f.session
  THEN /\ ws' = [ws EXCEPT !.gens = [g \in DOMAIN @ \cup {a.id} |-> IF g = a.id THEN a.status ELSE @[g]]]
       /\ due' = due \cup {"url"}
  ELSE UNCHANGED <<ws, due>>

\* updateGeneration: only into the workspace of the task's own project and session.
UpdateGeneration(f, a) ==
  IF Visible /\ ws.project = f.project /\ ws.active = f.session
  THEN /\ ws' = [ws EXCEPT !.gens = [g \in DOMAIN @ \cup {a.id} |-> IF g = a.id THEN a.status ELSE @[g]]]
       /\ due' = due \cup {"url", "poll"}
  ELSE UNCHANGED <<ws, due>>

LoadArrives(f) ==
  /\ f.kind = "load" /\ f.answer # None
  /\ flights' = Ended(f)
  /\ IF f.project = proj
     THEN /\ ws' = f.answer
          /\ loc' = IF f.answer.active # f.session THEN f.answer.active ELSE loc
          /\ loading' = FALSE
          /\ due' = due \cup {"url", "poll"}
     ELSE UNCHANGED <<ws, loc, loading, due>>
  /\ UNCHANGED <<proj, req, chat, image, confirm, pend, answered, server, left>>

\* switchSession and createSession: the new session replaces the old one, its image
\* requests are aborted, the draft and the reading of attachments are dropped.
SessionArrives(f) ==
  /\ f.kind \in {"switch", "create"} /\ f.live /\ f.answer # None
  /\ f.kind = "switch" => f.answer.active = f.session
  /\ flights' = Abort(Ended(f), {g \in Ended(f) : g.live /\ g.kind \in {"poll", "regen", "image", "read"}})
  /\ ws' = IF ws.project = f.answer.project THEN f.answer ELSE ws
  /\ chat' = None /\ image' = None
  /\ loc' = IF f.byUrl THEN loc ELSE f.answer.active
  /\ pend' = IF f.byUrl THEN None ELSE pend
  /\ confirm' = IF f.asked THEN None ELSE confirm
  /\ due' = due \cup {"url", "poll"}
  /\ UNCHANGED <<proj, req, loading, answered, server, left>>

ClearArrives(f) ==
  /\ f.kind = "clear" /\ f.live /\ f.answer # None
  /\ flights' = Ended(f)
  /\ ws' = f.answer
  /\ confirm' = None
  /\ due' = due \cup {"url", "poll"}
  /\ UNCHANGED <<proj, loc, req, loading, chat, image, pend, answered, server, left>>

\* A delta, a reasoning delta or a started event rewrites the streaming message.
StreamDelta(f) ==
  /\ f.kind = "send" /\ f.live
  /\ f.session = Active /\ "url" \notin due
  /\ due' = due \cup {"url"}
  /\ UNCHANGED <<proj, loc, req, loading, ws, chat, image, confirm, pend, answered, flights, server, left>>

\* The completed event replaces the optimistic pair by the stored one, if it is there.
StreamCompletes(f) ==
  /\ f.kind = "send" /\ f.live /\ f.answer # None
  /\ IF f.session = Active
     THEN /\ ws' = [ws EXCEPT !.messages = {IF m.turn = f.item THEN f.answer ELSE m : m \in @}]
          /\ answered' = answered \cup {f.item}
          /\ flights' = WithMetadataRefresh(Ended(f), f.session)
          /\ due' = due \cup {"url"}
     ELSE flights' = Ended(f) /\ UNCHANGED <<ws, answered, due>>
  /\ UNCHANGED <<proj, loc, req, loading, chat, image, confirm, pend, server, left>>

ImageArrives(f) ==
  /\ f.kind \in {"image", "regen"} /\ f.live /\ f.answer # None
  /\ IF f.session = Active
     THEN /\ UpdateGeneration(f, f.answer)
          /\ flights' = WithMetadataRefresh(Ended(f), f.session)
          /\ image' = IF f.kind = "image" THEN None ELSE image
     ELSE flights' = Ended(f) /\ UNCHANGED <<ws, due, image>>
  /\ UNCHANGED <<proj, loc, req, loading, chat, confirm, pend, answered, server, left>>

\* pollGeneration: an unfinished task is asked for again after the interval.
PollArrives(f) ==
  /\ f.kind = "poll" /\ f.answer # None
  /\ UpdateGeneration(f, f.answer)
  /\ flights' = IF f.answer.status \in Unfinished
                THEN Ended(f) \cup {[f EXCEPT !.answer = None]}
                ELSE Ended(f)
  /\ UNCHANGED <<proj, loc, req, loading, chat, image, confirm, pend, answered, server, left>>

\* mergeAuthoritativeSessionMetadata: nothing newer on the page is overwritten.
MetadataArrives(f) ==
  /\ f.kind = "meta" /\ f.answer # None
  /\ flights' = Ended(f)
  /\ IF /\ f.session = Active
        /\ f.answer.active = f.session
        /\ \A s \in DOMAIN ws.sessions :
             s \in DOMAIN f.answer.sessions /\ ws.sessions[s] <= f.answer.sessions[s]
     THEN ws' = [ws EXCEPT !.sessions = f.answer.sessions] /\ due' = due \cup {"url"}
     ELSE UNCHANGED <<ws, due>>
  /\ UNCHANGED <<proj, loc, req, loading, chat, image, confirm, pend, answered, server, left>>

AttachmentsArrive(f) ==
  /\ f.kind = "read"
  /\ flights' = Ended(f)
  /\ \/ chat' = IF chat = None THEN f.session ELSE chat
     \/ UNCHANGED chat
  /\ due' = due \cup {"url"}
  /\ UNCHANGED <<proj, loc, req, loading, ws, image, confirm, pend, answered, server, left>>

\* The server refuses, the network fails, or the stream ends early.
RequestFails(f) ==
  /\ f.live /\ f.answer = None /\ f.kind # "read"
  /\ Spend("fail")
  /\ flights' = Ended(f)
  /\ loading' = IF f.kind = "load" /\ f.project = proj THEN FALSE ELSE loading
  /\ loc' = IF f.kind = "switch" /\ f.byUrl THEN Active ELSE loc
  /\ pend' = IF f.byUrl THEN None ELSE pend
  /\ confirm' = IF f.asked THEN None ELSE confirm
  /\ IF f.kind = "send" /\ f.session = Active
     THEN /\ ws' = [ws EXCEPT !.messages = {m \in @ : m.turn # f.item}]
          /\ chat' = f.session
          /\ due' = due \cup {"url"}
     ELSE UNCHANGED <<ws, chat, due>>
  /\ UNCHANGED <<proj, req, image, answered, server>>

-----------------------------------------------------------------------------
Init ==
  /\ proj \in Projects
  /\ loc \in {s \in Opened : s \in Sessions => Owner[s] = proj}
  /\ req = loc
  /\ loading = TRUE /\ ws = None /\ chat = None /\ image = None
  /\ confirm = None /\ pend = None /\ flights = {} /\ due = {"load", "url", "poll"}
  /\ exists = FirstSessions
  /\ stored = [s \in Sessions |-> {}] /\ updated = [s \in Sessions |-> 0]
  /\ gstat = [g \in Gens |-> "none"] /\ gsession = [g \in Gens |-> None]
  /\ answered = {} /\ left = Budget

User ==
  \/ \E s \in exists : Owner[s] = proj /\ Navigate(s)
  \/ \E p \in Projects : ChangeProject(p)
  \/ TypeMessage \/ TypePrompt \/ AddAttachments
  \/ \E s \in Sessions : RequestSessionSwitch(s)
  \/ RequestNewSession \/ RequestClearSession
  \/ ConfirmOk \/ ConfirmCancel
  \/ \E t \in Turns : SendMessage(t)
  \/ SubmitImageGeneration
  \/ \E g \in Gens : RegenerateGeneration(g)

Arrives(f) ==
  \/ LoadArrives(f) \/ SessionArrives(f) \/ ClearArrives(f)
  \/ StreamCompletes(f) \/ ImageArrives(f) \/ PollArrives(f)
  \/ MetadataArrives(f) \/ AttachmentsArrive(f)

Next ==
  \/ User \/ Effects \/ CommitUrl
  \/ \E g \in Gens : WorkerEnds(g)
  \/ \E f \in flights : Serve(f) \/ Arrives(f) \/ StreamDelta(f) \/ RequestFails(f)

Spec == Init /\ [][Next]_vars

-----------------------------------------------------------------------------
(* Properties.                                                             *)

TypeOK ==
  /\ proj \in Projects
  /\ {loc, req, pend} \subseteq Sessions \cup {None, Gone}
  /\ {chat, image} \subseteq Sessions \cup {None}
  /\ loading \in BOOLEAN /\ due \subseteq {"load", "url", "poll"}
  /\ {[x \in DOMAIN f \ {"answer"} |-> f[x]] : f \in flights} \subseteq Flights
  /\ ws # None => ws.active \in DOMAIN ws.sessions /\ DOMAIN ws.sessions \subseteq Sessions
  /\ exists \subseteq Sessions /\ answered \subseteq Turns
  /\ stored \in [Sessions -> SUBSET Turns] /\ updated \in [Sessions -> 0..MaxUpdates]

\* What is shown belongs to the session it is shown in: an answer, an event or a poll
\* of another session or project never lands in the visible one (index.jsx scope checks).
ShownBelongsToSession ==
  Visible =>
    /\ Owner[ws.active] = ws.project
    /\ \A m \in ws.messages : m.session = ws.active
    /\ \A g \in DOMAIN ws.gens : gsession[g] = ws.active

\* A session change, a send and an image submission exclude each other, and no
\* session changes while a task is regenerated or attachments are read.
OperationsExclude ==
  /\ Cardinality(Live(SessionKinds \cup {"send", "image"})) <= 1
  /\ Live(SessionKinds) # {} => Live({"regen", "read"}) = {}

\* A message still marked as streaming has its request: none is left spinning.
StreamingHasRequest ==
  Visible => \A m \in ws.messages :
    m.stored \/ \E f \in Live({"send"}) : f.item = m.turn /\ f.session = m.session

\* An unfinished task on the page is polled, as long as no poll was refused.
UnfinishedIsPolled ==
  Visible /\ due = {} /\ left["fail"] = Budget["fail"] =>
    \A g \in DOMAIN ws.gens :
      ws.gens[g] \in Unfinished =>
        \E f \in flights : f.kind = "poll" /\ f.session = ws.active /\ f.item = g

\* A chat draft goes only by being sent, by a change of project, or by a session
\* change the user agreed to in the dialog.
DraftLostOnlyByConsent ==
  chat # None /\ chat' = None =>
       \/ proj' # proj
       \/ \E f \in flights' \ flights : f.kind = "send"
       \/ \E f \in flights \ flights' : f.kind \in {"switch", "create"} /\ f.asked

\* Once the user stops, the address bar and the page agree, or a dialog is open.
UrlSettles == <>[](confirm # None \/ (Visible /\ loc = req /\ req = ws.active))

=============================================================================
