--------------------------- MODULE WorkspaceProofs ---------------------------
(***************************************************************************)
(* The creation workspace page, for any number of projects, sessions,      *)
(* chat turns and image tasks, and for any plan of the user: what is shown *)
(* belongs to the session it is shown in, the operations exclude each      *)
(* other, nothing is left spinning or unpolled, and a draft is lost only   *)
(* by consent.                                                             *)
(*                                                                         *)
(* The argument is about the requests under way.  Each keeps the project   *)
(* and the session it was started for, its answer is about these, and no   *)
(* request of another project but a load is alive (GoodFlight); with that  *)
(* the scope checks of the continuations are enough.                       *)
(***************************************************************************)
EXTENDS Workspace, TLAPS, FiniteSetTheorems

\* What the page is configured with: ids of their kinds, and a count for every user action.
PageAssumption ==
  /\ None \notin Sessions
  /\ Owner \in [Sessions -> Projects]
  /\ FirstSessions \subseteq Sessions
  /\ Opened \subseteq Sessions \cup {None, Gone}
  /\ MaxUpdates \in Nat
  /\ Budget \in [{"navigate", "type", "prompt", "session", "answer", "read", "regen",
                  "project", "fail"} -> Nat]

(***************************************************************************)
(* The inductive invariant, on the parts of the state: w a workspace, fs   *)
(* the requests, ex and gs the server's sessions and the sessions of its   *)
(* tasks, pj the project of the route.                                     *)
(***************************************************************************)
Kinds == {"load", "meta", "read", "poll"} \cup SessionKinds \cup Mutating
Exclusive == SessionKinds \cup {"send", "image"}

GoodWorkspace(w, ex, gs) ==
  /\ w = [project |-> w.project, active |-> w.active, sessions |-> w.sessions,
          messages |-> w.messages, gens |-> w.gens]
  /\ w.active \in DOMAIN w.sessions /\ DOMAIN w.sessions \subseteq ex
  /\ Owner[w.active] = w.project
  /\ \A m \in w.messages : m.session = w.active
  /\ \A g \in DOMAIN w.gens : g \in Gens /\ gs[g] = w.active

AllStored(w) == \A m \in w.messages : m.stored = TRUE

\* What a request asks, and for whom.
GoodRequest(f, ex, gs, pj) ==
  /\ f = [kind |-> f.kind, project |-> f.project, session |-> f.session, item |-> f.item,
          byUrl |-> f.byUrl, asked |-> f.asked, live |-> f.live, answer |-> f.answer]
  /\ f.kind \in Kinds /\ f.project \in Projects /\ f.session \in Sessions \cup {None, Gone}
  /\ f.item \in Turns \cup Gens \cup {None}
  /\ f.byUrl \in BOOLEAN /\ f.asked \in BOOLEAN /\ f.live \in BOOLEAN
  /\ ~f.live => f.kind \in Mutating
  /\ f.live /\ f.kind # "load" => f.project = pj
  /\ f.kind \in {"clear", "send", "image", "regen", "poll", "read"} =>
       f.session \in ex /\ Owner[f.session] = f.project
  /\ f.kind = "send" => f.item \in Turns
  /\ f.kind = "poll" => f.item \in Gens /\ gs[f.item] = f.session

\* What its answer tells.
GoodAnswer(f, a, ex, gs) ==
  /\ f.kind \in {"load", "switch", "create", "clear", "meta"} =>
       GoodWorkspace(a, ex, gs) /\ a.project = f.project /\ AllStored(a)
  /\ f.kind = "send" => a.turn = f.item /\ a.session = f.session /\ a.stored = TRUE
  /\ f.kind \in {"image", "regen"} => a.id \in Gens /\ gs[a.id] = f.session
  /\ f.kind = "poll" => a.id = f.item

GoodFlight(f, ex, gs, pj) ==
  GoodRequest(f, ex, gs, pj) /\ (f.answer # None => GoodAnswer(f, f.answer, ex, gs))

GoodFlights(fs, ex, gs, pj) == \A f \in fs : GoodFlight(f, ex, gs, pj)

\* The page shows a workspace of the route's project, or none.
Shown(w, ex, gs, pj) == w # None => GoodWorkspace(w, ex, gs) /\ w.project = pj

Exclude(fs) ==
  /\ \A f, g \in fs : f.live /\ g.live /\ f.kind \in Exclusive /\ g.kind \in Exclusive => f = g
  /\ \A f, g \in fs : f.live /\ g.live /\ f.kind \in SessionKinds => g.kind \notin {"regen", "read"}

Streaming(w, fs) ==
  w # None => \A m \in w.messages :
    m.stored \/ \E f \in fs : f.live /\ f.kind = "send" /\ f.item = m.turn /\ f.session = m.session

Polled(w, fs, du, fails) ==
  w # None /\ "poll" \notin du /\ fails = Budget["fail"] =>
    \A g \in DOMAIN w.gens :
      w.gens[g] \in Unfinished =>
        \E f \in fs : f.kind = "poll" /\ f.session = w.active /\ f.item = g

\* A session change without a dialog was asked for when there was no draft, and none came since.
Unasked(fs, ch) ==
  \A f \in fs : f.live /\ f.kind \in {"switch", "create"} => f.asked \/ ch = None

Dialogs == [kind : {"url", "switch", "create", "clear"}, target : Sessions \cup {None, Gone},
            from : Sessions \cup {None, Gone}, busy : BOOLEAN]

Base ==
  /\ proj \in Projects
  /\ loc \in Sessions \cup {None, Gone} /\ req \in Sessions \cup {None, Gone}
  /\ pend \in Sessions \cup {None, Gone}
  /\ chat \in Sessions \cup {None} /\ image \in Sessions \cup {None}
  /\ loading \in BOOLEAN /\ due \subseteq {"load", "url", "poll"}
  /\ confirm # None => confirm \in Dialogs
  /\ exists \subseteq Sessions /\ answered \subseteq Turns
  /\ stored \in [Sessions -> SUBSET Turns] /\ updated \in [Sessions -> 0..MaxUpdates]
  /\ gsession \in [Gens -> Sessions \cup {None}] /\ DOMAIN gstat = Gens
  /\ left \in [DOMAIN Budget -> Nat] /\ left["fail"] <= Budget["fail"]

IInv ==
  /\ Base
  /\ GoodFlights(flights, exists, gsession, proj)
  /\ Shown(ws, exists, gsession, proj)
  /\ Exclude(flights)
  /\ Streaming(ws, flights)
  /\ Polled(ws, flights, due, left["fail"])
  /\ Unasked(flights, chat)

-----------------------------------------------------------------------------
(* The parts of the invariant under changes of the set of requests.        *)

\* What a request is about, whatever was answered.
SameRequest(f, g) ==
  /\ g.kind = f.kind /\ g.project = f.project /\ g.session = f.session /\ g.item = f.item
  /\ g.byUrl = f.byUrl /\ g.asked = f.asked

\* An answer, and an abort, change one field of a request.
LEMMA FieldChanges ==
  ASSUME NEW f, NEW ex, NEW gs, NEW pj, GoodRequest(f, ex, gs, pj), NEW a, NEW b
  PROVE  /\ [f EXCEPT !.answer = a] =
              [kind |-> f.kind, project |-> f.project, session |-> f.session, item |-> f.item,
               byUrl |-> f.byUrl, asked |-> f.asked, live |-> f.live, answer |-> a]
         /\ [f EXCEPT !.live = b] =
              [kind |-> f.kind, project |-> f.project, session |-> f.session, item |-> f.item,
               byUrl |-> f.byUrl, asked |-> f.asked, live |-> b, answer |-> f.answer]
<1>1. PICK r : r = f
  OBVIOUS
<1>2. r \in [kind : {f.kind}, project : {f.project}, session : {f.session}, item : {f.item},
             byUrl : {f.byUrl}, asked : {f.asked}, live : {f.live, b}, answer : {f.answer, a}]
  BY <1>1 DEF GoodRequest
<1>3. [r EXCEPT !.answer = a] =
              [kind |-> r.kind, project |-> r.project, session |-> r.session, item |-> r.item,
               byUrl |-> r.byUrl, asked |-> r.asked, live |-> r.live, answer |-> a]
  BY <1>2
<1>4. [r EXCEPT !.live = b] =
              [kind |-> r.kind, project |-> r.project, session |-> r.session, item |-> r.item,
               byUrl |-> r.byUrl, asked |-> r.asked, live |-> b, answer |-> r.answer]
  BY <1>2
<1>5. QED  BY <1>1, <1>3, <1>4, Zenon

\* An answered request is as good as its answer.
LEMMA AnsweredIsGood ==
  ASSUME NEW f, NEW ex, NEW gs, NEW pj, GoodRequest(f, ex, gs, pj),
         NEW a, a # None => GoodAnswer(f, a, ex, gs)
  PROVE  /\ GoodFlight([f EXCEPT !.answer = a], ex, gs, pj)
         /\ SameRequest(f, [f EXCEPT !.answer = a])
         /\ [f EXCEPT !.answer = a].live = f.live
<1> DEFINE h == [kind |-> f.kind, project |-> f.project, session |-> f.session, item |-> f.item,
                 byUrl |-> f.byUrl, asked |-> f.asked, live |-> f.live, answer |-> a]
<1>1. [f EXCEPT !.answer = a] = h
  BY FieldChanges
<1>2. /\ h.kind = f.kind /\ h.project = f.project /\ h.session = f.session /\ h.item = f.item
      /\ h.byUrl = f.byUrl /\ h.asked = f.asked /\ h.live = f.live /\ h.answer = a
  OBVIOUS
<1>3. h = [kind |-> h.kind, project |-> h.project, session |-> h.session, item |-> h.item,
           byUrl |-> h.byUrl, asked |-> h.asked, live |-> h.live, answer |-> h.answer]
  OBVIOUS
<1> HIDE DEF h
<1>4. GoodRequest(h, ex, gs, pj)
  BY <1>2, <1>3 DEF GoodRequest
<1>5. a # None => GoodAnswer(h, a, ex, gs)
  BY <1>2 DEF GoodAnswer
<1>6. QED  BY <1>1, <1>2, <1>4, <1>5 DEF GoodFlight, SameRequest

\* What is left of an aborted request is good in any project.
LEMMA DeadIsGood ==
  ASSUME NEW f, NEW ex, NEW gs, NEW pj, NEW pk, GoodRequest(f, ex, gs, pj),
         f.kind \in Mutating, f.answer = None
  PROVE  GoodFlight([f EXCEPT !.live = FALSE], ex, gs, pk) /\ ~[f EXCEPT !.live = FALSE].live
<1> DEFINE h == [kind |-> f.kind, project |-> f.project, session |-> f.session, item |-> f.item,
                 byUrl |-> f.byUrl, asked |-> f.asked, live |-> FALSE, answer |-> f.answer]
<1>1. [f EXCEPT !.live = FALSE] = h
  BY FieldChanges
<1>2. /\ h.kind = f.kind /\ h.project = f.project /\ h.session = f.session /\ h.item = f.item
      /\ h.byUrl = f.byUrl /\ h.asked = f.asked /\ h.live = FALSE /\ h.answer = f.answer
  OBVIOUS
<1>3. h = [kind |-> h.kind, project |-> h.project, session |-> h.session, item |-> h.item,
           byUrl |-> h.byUrl, asked |-> h.asked, live |-> h.live, answer |-> h.answer]
  OBVIOUS
<1> HIDE DEF h
<1>4. GoodRequest(h, ex, gs, pk)
  BY <1>2, <1>3 DEF GoodRequest
<1>5. QED  BY <1>1, <1>2, <1>4 DEF GoodFlight

\* The requests as a whole.
Flying(fs, ex, gs, pj, ch) == GoodFlights(fs, ex, gs, pj) /\ Exclude(fs) /\ Unasked(fs, ch)

\* Requests end.
LEMMA Fewer ==
  ASSUME NEW fs, NEW ex, NEW gs, NEW pj, NEW ch, Flying(fs, ex, gs, pj, ch),
         NEW some \in SUBSET fs
  PROVE  Flying(some, ex, gs, pj, ch)
  BY DEF Flying, GoodFlights, Exclude, Unasked

\* An abort leaves the other requests as they were, and no living one of its own.
LEMMA AbortMembers ==
  ASSUME NEW fs, NEW ex, NEW gs, NEW pj, NEW pk, GoodFlights(fs, ex, gs, pj),
         NEW S \in SUBSET fs
  PROVE  /\ fs \ S \subseteq Abort(fs, S)
         /\ \A f \in Abort(fs, S) : f \in fs \ S \/ (GoodFlight(f, ex, gs, pk) /\ ~f.live)
<1>1. fs \ S \subseteq Abort(fs, S)
  BY DEF Abort
<1>2. ASSUME NEW f \in Abort(fs, S), f \notin fs \ S
      PROVE  GoodFlight(f, ex, gs, pk) /\ ~f.live
  <2>1. f \in {[h EXCEPT !.live = FALSE] : h \in {g \in S : g.kind \in Mutating /\ g.answer = None}}
    BY <1>2, Zenon DEF Abort
  <2>2. PICK g \in S : g.kind \in Mutating /\ g.answer = None /\ f = [g EXCEPT !.live = FALSE]
    BY <2>1, Zenon
  <2>3. GoodRequest(g, ex, gs, pj)
    BY DEF GoodFlights, GoodFlight
  <2>4. QED  BY <2>2, <2>3, DeadIsGood, Zenon
<1>3. QED  BY <1>1, <1>2

LEMMA Aborted ==
  ASSUME NEW fs, NEW ex, NEW gs, NEW pj, NEW ch, Flying(fs, ex, gs, pj, ch),
         NEW S \in SUBSET fs
  PROVE  Flying(Abort(fs, S), ex, gs, pj, ch)
<1>1. \A f \in Abort(fs, S) : f \in fs \/ (GoodFlight(f, ex, gs, pj) /\ ~f.live)
  BY AbortMembers DEF Flying
<1>2. QED  BY <1>1 DEF Flying, GoodFlights, Exclude, Unasked

\* A request starts.
LEMMA OneMore ==
  ASSUME NEW fs, NEW ex, NEW gs, NEW pj, NEW ch, Flying(fs, ex, gs, pj, ch),
         NEW r, GoodFlight(r, ex, gs, pj),
         r.kind \in Exclusive => \A f \in fs : f.live => f.kind \notin Exclusive,
         r.kind \in SessionKinds => \A f \in fs : f.live => f.kind \notin {"regen", "read"},
         r.kind \in {"regen", "read"} => \A f \in fs : f.live => f.kind \notin SessionKinds,
         r.kind \in {"switch", "create"} => r.asked \/ ch = None
  PROVE  Flying(fs \cup {r}, ex, gs, pj, ch)
<1>1. GoodFlights(fs \cup {r}, ex, gs, pj)
  BY DEF Flying, GoodFlights
<1>2. Exclude(fs \cup {r})
  BY DEF Flying, Exclude, Exclusive, SessionKinds
<1>3. Unasked(fs \cup {r}, ch)
  BY DEF Flying, Unasked
<1>4. QED  BY <1>1, <1>2, <1>3 DEF Flying

\* A request is answered, or asks again.
LEMMA OneChanged ==
  ASSUME NEW fs, NEW ex, NEW gs, NEW pj, NEW ch, Flying(fs, ex, gs, pj, ch),
         NEW f \in fs, NEW h, GoodFlight(h, ex, gs, pj), SameRequest(f, h), h.live = f.live
  PROVE  Flying((fs \ {f}) \cup {h}, ex, gs, pj, ch)
<1>1. GoodFlights((fs \ {f}) \cup {h}, ex, gs, pj)
  BY DEF Flying, GoodFlights
<1>2. Exclude((fs \ {f}) \cup {h})
  BY DEF Flying, Exclude, Exclusive, SessionKinds, SameRequest
<1>3. Unasked((fs \ {f}) \cup {h}, ch)
  BY DEF Flying, Unasked, SameRequest
<1>4. QED  BY <1>1, <1>2, <1>3 DEF Flying

\* The server's sessions and tasks only become more.
Grows(ex, gs, ex2, gs2) == ex \subseteq ex2 /\ \A g \in Gens : gs[g] # None => gs2[g] = gs[g]

LEMMA WorkspaceStaysGood ==
  ASSUME PageAssumption, NEW w, NEW ex, NEW gs, NEW ex2, NEW gs2, ex \subseteq Sessions,
         GoodWorkspace(w, ex, gs), Grows(ex, gs, ex2, gs2)
  PROVE  GoodWorkspace(w, ex2, gs2)
  BY DEF GoodWorkspace, Grows, PageAssumption

LEMMA FlightStaysGood ==
  ASSUME PageAssumption, NEW f, NEW ex, NEW gs, NEW ex2, NEW gs2, NEW pj, ex \subseteq Sessions,
         GoodFlight(f, ex, gs, pj), Grows(ex, gs, ex2, gs2)
  PROVE  GoodFlight(f, ex2, gs2, pj)
<1>1. GoodRequest(f, ex2, gs2, pj)
  <2>1. GoodRequest(f, ex, gs, pj)
    BY DEF GoodFlight
  <2>2. f.kind \in {"clear", "send", "image", "regen", "poll", "read"} => f.session \in ex2 /\ f.session # None
    BY <2>1 DEF GoodRequest, Grows, PageAssumption
  <2>3. f.kind = "poll" => gs2[f.item] = f.session
    BY <2>1, <2>2 DEF GoodRequest, Grows
  <2>4. QED  BY <2>1, <2>2, <2>3 DEF GoodRequest
<1>2. f.answer # None => GoodAnswer(f, f.answer, ex2, gs2)
  <2>1. SUFFICES ASSUME f.answer # None PROVE GoodAnswer(f, f.answer, ex2, gs2)
    OBVIOUS
  <2>2. GoodAnswer(f, f.answer, ex, gs) /\ GoodRequest(f, ex, gs, pj)
    BY <2>1 DEF GoodFlight
  <2>3. f.kind \in {"load", "switch", "create", "clear", "meta"} => GoodWorkspace(f.answer, ex2, gs2)
    BY <2>2, WorkspaceStaysGood DEF GoodAnswer
  <2>4. f.kind \in {"image", "regen"} => gs2[f.answer.id] = f.session
    BY <2>2 DEF GoodAnswer, GoodRequest, Grows, PageAssumption
  <2>5. QED  BY <2>2, <2>3, <2>4 DEF GoodAnswer
<1>3. QED  BY <1>1, <1>2 DEF GoodFlight

LEMMA FlightsStayGood ==
  ASSUME PageAssumption, NEW fs, NEW ex, NEW gs, NEW ex2, NEW gs2, NEW pj, NEW ch, ex \subseteq Sessions,
         Flying(fs, ex, gs, pj, ch), Grows(ex, gs, ex2, gs2)
  PROVE  Flying(fs, ex2, gs2, pj, ch)
  BY FlightStaysGood DEF Flying, GoodFlights

-----------------------------------------------------------------------------
(* What is shown, under changes of the requests.                           *)

\* The living sends are still there, and the polls.
KeepsSends(fs, fs2) ==
  \A f \in fs : f.live /\ f.kind = "send" =>
    \E g \in fs2 : g.live /\ g.kind = "send" /\ g.item = f.item /\ g.session = f.session

KeepsPolls(fs, fs2) ==
  \A f \in fs : f.kind = "poll" =>
    \E g \in fs2 : g.kind = "poll" /\ g.item = f.item /\ g.session = f.session

LEMMA StreamingStays ==
  ASSUME NEW w, NEW fs, NEW fs2, Streaming(w, fs), KeepsSends(fs, fs2)
  PROVE  Streaming(w, fs2)
  BY DEF Streaming, KeepsSends

LEMMA PolledStays ==
  ASSUME NEW w, NEW fs, NEW fs2, NEW du, NEW du2, NEW fails,
         Polled(w, fs, du, fails), KeepsPolls(fs, fs2), du \subseteq du2
  PROVE  Polled(w, fs2, du2, fails)
  BY DEF Polled, KeepsPolls

\* A request of another kind than a poll or a send ends.
LEMMA EndKeeps ==
  ASSUME NEW fs, NEW f
  PROVE  /\ f.kind # "send" => KeepsSends(fs, fs \ {f})
         /\ f.kind # "poll" => KeepsPolls(fs, fs \ {f})
  BY DEF KeepsSends, KeepsPolls

LEMMA MoreKeeps ==
  ASSUME NEW fs, NEW fs2, fs \subseteq fs2
  PROVE  KeepsSends(fs, fs2) /\ KeepsPolls(fs, fs2)
  BY DEF KeepsSends, KeepsPolls

LEMMA KeepsTwice ==
  ASSUME NEW a, NEW b, NEW c
  PROVE  /\ KeepsSends(a, b) /\ KeepsSends(b, c) => KeepsSends(a, c)
         /\ KeepsPolls(a, b) /\ KeepsPolls(b, c) => KeepsPolls(a, c)
  BY DEF KeepsSends, KeepsPolls

LEMMA AbortKeeps ==
  ASSUME NEW fs, NEW S \in SUBSET fs
  PROVE  /\ (\A f \in S : f.kind # "send") => KeepsSends(fs, Abort(fs, S))
         /\ (\A f \in S : f.kind # "poll") => KeepsPolls(fs, Abort(fs, S))
<1>1. fs \ S \subseteq Abort(fs, S)
  BY DEF Abort
<1>2. QED  BY <1>1 DEF KeepsSends, KeepsPolls

\* The requests and what is shown, as the invariant has them.
LEMMA Parts ==
  IInv <=> /\ Base
           /\ Flying(flights, exists, gsession, proj, chat)
           /\ Shown(ws, exists, gsession, proj)
           /\ Streaming(ws, flights)
           /\ Polled(ws, flights, due, left["fail"])
  BY DEF IInv, Flying

\* What Visible and Active come to.
LEMMA ActiveIs ==
  ASSUME IInv
  PROVE  /\ Visible <=> ws # None
         /\ ws # None => Active = ws.active /\ GoodWorkspace(ws, exists, gsession) /\ ws.project = proj
         /\ ws = None => Active = None
  BY DEF IInv, Shown, Visible, Active

-----------------------------------------------------------------------------
(* The server answers.                                                     *)

\* The request that the server answers keeps its place; what the server did before is still so.
LEMMA ServeStep ==
  ASSUME PageAssumption, IInv, NEW f \in flights, NEW a, AnswerWith(f, a), UNCHANGED <<client, left>>,
         Base', Grows(exists, gsession, exists', gsession'), GoodAnswer(f, a, exists', gsession')
  PROVE  IInv'
<1> DEFINE h == [f EXCEPT !.answer = a]
<1>0. UNCHANGED <<proj, chat, ws, due, left>>
  BY DEF client
<1>1. Flying(flights, exists', gsession', proj, chat)
  BY FlightsStayGood, Parts DEF Base
<1>2. GoodFlight(f, exists', gsession', proj)
  BY <1>1 DEF Flying, GoodFlights
<1>3. /\ GoodFlight(h, exists', gsession', proj) /\ SameRequest(f, h) /\ h.live = f.live
  BY <1>2, AnsweredIsGood, Zenon DEF GoodFlight
<1> HIDE DEF h
<1>4. \/ f.live /\ flights' = (flights \ {f}) \cup {h}
      \/ ~f.live /\ flights' = flights \ {f}
  BY DEF AnswerWith, h
<1>5. Flying(flights', exists', gsession', proj, chat)
  BY <1>1, <1>3, <1>4, Fewer, OneChanged
<1>6. Shown(ws, exists', gsession', proj)
  BY WorkspaceStaysGood, Parts DEF Shown, Base
<1>7. ~f.live => f.kind # "poll"
  BY <1>2 DEF GoodFlight, GoodRequest, Mutating
<1>8. KeepsSends(flights, flights') /\ KeepsPolls(flights, flights')
  BY <1>3, <1>4, <1>7 DEF KeepsSends, KeepsPolls, SameRequest
<1>9. Streaming(ws, flights') /\ Polled(ws, flights', due, left["fail"])
  BY <1>8, StreamingStays, PolledStays, Parts
<1>10. QED  BY <1>0, <1>5, <1>6, <1>9 DEF IInv, Flying

IsRecord(w) == w = [project |-> w.project, active |-> w.active, sessions |-> w.sessions,
                    messages |-> w.messages, gens |-> w.gens]

\* A workspace with one field changed.
LEMMA WorkspaceChanges ==
  ASSUME NEW w, IsRecord(w), NEW x
  PROVE  /\ [w EXCEPT !.sessions = x] =
              [project |-> w.project, active |-> w.active, sessions |-> x,
               messages |-> w.messages, gens |-> w.gens]
         /\ [w EXCEPT !.messages = x] =
              [project |-> w.project, active |-> w.active, sessions |-> w.sessions,
               messages |-> x, gens |-> w.gens]
         /\ [w EXCEPT !.gens = x] =
              [project |-> w.project, active |-> w.active, sessions |-> w.sessions,
               messages |-> w.messages, gens |-> x]
<1>1. PICK r : r = w
  OBVIOUS
<1>2. r \in [project : {w.project}, active : {w.active}, sessions : {w.sessions, x},
             messages : {w.messages, x}, gens : {w.gens, x}]
  BY <1>1 DEF IsRecord
<1>3. [r EXCEPT !.sessions = x] =
        [project |-> r.project, active |-> r.active, sessions |-> x,
         messages |-> r.messages, gens |-> r.gens]
  BY <1>2
<1>4. [r EXCEPT !.messages = x] =
        [project |-> r.project, active |-> r.active, sessions |-> r.sessions,
         messages |-> x, gens |-> r.gens]
  BY <1>2
<1>5. [r EXCEPT !.gens = x] =
        [project |-> r.project, active |-> r.active, sessions |-> r.sessions,
         messages |-> r.messages, gens |-> x]
  BY <1>2
<1>6. QED  BY <1>1, <1>3, <1>4, <1>5, Zenon

LEMMA WorkspaceCleared ==
  ASSUME NEW w, IsRecord(w), NEW k
  PROVE  [w EXCEPT !.messages = {}, !.sessions[k] = @ + 1] =
           [project |-> w.project, active |-> w.active,
            sessions |-> [w.sessions EXCEPT ![k] = @ + 1], messages |-> {}, gens |-> w.gens]
<1>1. [w EXCEPT !.messages = {}, !.sessions[k] = @ + 1] =
        [[w EXCEPT !.messages = {}] EXCEPT
           !.sessions = [[w EXCEPT !.messages = {}].sessions EXCEPT ![k] = w.sessions[k] + 1]]
  BY SMT
<1>2. PICK q : q = [w EXCEPT !.messages = {}]
  OBVIOUS
<1>3. q = [project |-> w.project, active |-> w.active, sessions |-> w.sessions,
           messages |-> {}, gens |-> w.gens]
  BY <1>2, WorkspaceChanges, Zenon
<1>4. IsRecord(q) /\ q.sessions = w.sessions
  BY <1>3 DEF IsRecord
<1>5. [q EXCEPT !.sessions = [q.sessions EXCEPT ![k] = w.sessions[k] + 1]] =
        [project |-> q.project, active |-> q.active,
         sessions |-> [q.sessions EXCEPT ![k] = w.sessions[k] + 1],
         messages |-> q.messages, gens |-> q.gens]
  BY <1>4, WorkspaceChanges, Zenon
<1>6. /\ q.project = w.project /\ q.active = w.active /\ q.messages = {} /\ q.gens = w.gens
  BY <1>3
<1>7. QED  BY <1>1, <1>2, <1>4, <1>5, <1>6, Zenon

\* The fields of WorkspaceOf, also for a session that is only being created.
LEMMA WorkspaceFields ==
  ASSUME NEW p, NEW s, NEW w, w = WorkspaceOf(p, s)
  PROVE  /\ IsRecord(w) /\ w.project = p /\ w.active = s
         /\ \A y : y \in DOMAIN w.sessions <=> y \in exists /\ Owner[y] = p
         /\ AllStored(w) /\ \A m \in w.messages : m.session = s
         /\ \A h : h \in DOMAIN w.gens <=> h \in Gens /\ gsession[h] = s
<1>1. w = [project |-> p, active |-> s,
           sessions |-> [x \in {y \in exists : Owner[y] = p} |-> updated[x]],
           messages |-> ShownMessages(s),
           gens |-> [g \in {h \in Gens : gsession[h] = s} |-> gstat[g]]]
  BY DEF WorkspaceOf
<1>2. /\ w.project = p /\ w.active = s
      /\ w.sessions = [x \in {y \in exists : Owner[y] = p} |-> updated[x]]
      /\ w.messages = ShownMessages(s)
      /\ w.gens = [g \in {h \in Gens : gsession[h] = s} |-> gstat[g]]
  BY <1>1
<1>3. IsRecord(w)
  BY <1>1 DEF IsRecord
<1>4. \A m \in ShownMessages(s) : m.session = s /\ m.stored = TRUE
  BY DEF ShownMessages
<1>5. QED  BY <1>2, <1>3, <1>4 DEF AllStored

\* GET workspace answers with a workspace of that project.
LEMMA WorkspaceIsGood ==
  ASSUME NEW p, NEW s \in exists, Owner[s] = p, NEW w, w = WorkspaceOf(p, s)
  PROVE  GoodWorkspace(w, exists, gsession) /\ w.project = p /\ AllStored(w)
<1>1. IsRecord(w) /\ w.project = p /\ w.active = s /\ AllStored(w)
  BY WorkspaceFields
<1>2. \A y : y \in DOMAIN w.sessions <=> y \in exists /\ Owner[y] = p
  BY WorkspaceFields
<1>3. \A m \in w.messages : m.session = s
  BY WorkspaceFields
<1>4. \A h : h \in DOMAIN w.gens <=> h \in Gens /\ gsession[h] = s
  BY WorkspaceFields
<1>5. QED  BY <1>1, <1>2, <1>3, <1>4 DEF GoodWorkspace, IsRecord

LEMMA ServeReads ==
  ASSUME PageAssumption, IInv, NEW f \in flights, f.answer = None, ServerReads(f), UNCHANGED <<client, left>>
  PROVE  IInv'
<1>1. PICK s \in exists : Owner[s] = f.project /\ AnswerWith(f, WorkspaceOf(f.project, s))
  BY DEF ServerReads
<1>2. UNCHANGED <<exists, gsession>> /\ f.kind \in {"load", "switch", "meta"}
  BY DEF ServerReads, server
<1>3. Base'
  BY DEF IInv, Base, client, ServerReads, server
<1>4. Base
  BY DEF IInv
<1>5. GoodAnswer(f, WorkspaceOf(f.project, s), exists, gsession)
  BY <1>1, <1>2, <1>4, WorkspaceIsGood DEF GoodAnswer
<1>6. Grows(exists, gsession, exists', gsession')
  BY <1>2 DEF Grows
<1>7. QED  BY <1>1, <1>2, <1>3, <1>5, <1>6, ServeStep

LEMMA ServeCreates ==
  ASSUME PageAssumption, IInv, NEW f \in flights, f.answer = None, ServerCreates(f), UNCHANGED <<client, left>>
  PROVE  IInv'
<1>1. PICK s \in Sessions \ exists :
        /\ Owner[s] = f.project /\ exists' = exists \cup {s}
        /\ AnswerWith(f, [WorkspaceOf(f.project, s) EXCEPT
                           !.sessions = [x \in DOMAIN @ \cup {s} |-> updated[x]]])
  BY DEF ServerCreates
<1>2. PICK w : w = WorkspaceOf(f.project, s)
  OBVIOUS
<1>3. PICK a : a = [w EXCEPT !.sessions = [x \in DOMAIN w.sessions \cup {s} |-> updated[x]]]
  OBVIOUS
<1>4. AnswerWith(f, a)
  BY <1>1, <1>2, <1>3, Zenon
<1>5. /\ IsRecord(w) /\ w.project = f.project /\ w.active = s /\ AllStored(w)
      /\ \A y : y \in DOMAIN w.sessions <=> y \in exists /\ Owner[y] = f.project
      /\ \A m \in w.messages : m.session = s
      /\ \A h : h \in DOMAIN w.gens <=> h \in Gens /\ gsession[h] = s
  <2>1. IsRecord(w) /\ w.project = f.project /\ w.active = s /\ AllStored(w)
    BY <1>2, WorkspaceFields
  <2>2. \A y : y \in DOMAIN w.sessions <=> y \in exists /\ Owner[y] = f.project
    BY <1>2, WorkspaceFields
  <2>3. \A m \in w.messages : m.session = s
    BY <1>2, WorkspaceFields
  <2>4. \A h : h \in DOMAIN w.gens <=> h \in Gens /\ gsession[h] = s
    BY <1>2, WorkspaceFields
  <2>5. QED  BY <2>1, <2>2, <2>3, <2>4
<1>6. a = [project |-> w.project, active |-> w.active,
           sessions |-> [x \in DOMAIN w.sessions \cup {s} |-> updated[x]],
           messages |-> w.messages, gens |-> w.gens]
  BY <1>3, <1>5, WorkspaceChanges, Zenon
<1>7. /\ IsRecord(a) /\ a.project = f.project /\ a.active = s
      /\ \A y : y \in DOMAIN a.sessions <=> y = s \/ (y \in exists /\ Owner[y] = f.project)
      /\ a.messages = w.messages /\ a.gens = w.gens
  BY <1>5, <1>6 DEF IsRecord
<1>8. GoodWorkspace(a, exists', gsession) /\ AllStored(a)
  BY <1>1, <1>5, <1>7 DEF GoodWorkspace, AllStored, IsRecord
<1>9. UNCHANGED <<stored, updated, gstat, gsession>> /\ f.kind = "create"
  BY DEF ServerCreates
<1>10. GoodAnswer(f, a, exists', gsession')
  BY <1>7, <1>8, <1>9 DEF GoodAnswer
<1>11. Base'
  BY <1>1, <1>9 DEF IInv, Base, client
<1>12. Grows(exists, gsession, exists', gsession')
  BY <1>1, <1>9 DEF Grows
<1>13. QED  BY <1>4, <1>10, <1>11, <1>12, ServeStep

LEMMA ServeClears ==
  ASSUME PageAssumption, IInv, NEW f \in flights, f.answer = None, ServerClears(f), UNCHANGED <<client, left>>
  PROVE  IInv'
<1>1. /\ f.kind = "clear" /\ updated[f.session] < MaxUpdates
      /\ stored' = [stored EXCEPT ![f.session] = {}]
      /\ updated' = [updated EXCEPT ![f.session] = @ + 1]
      /\ UNCHANGED <<exists, gstat, gsession>>
  BY DEF ServerClears
<1>2. AnswerWith(f, [WorkspaceOf(f.project, f.session) EXCEPT !.messages = {}, !.sessions[f.session] = @ + 1])
  BY DEF ServerClears
<1>3. f.session \in exists /\ Owner[f.session] = f.project
  BY <1>1 DEF IInv, GoodFlights, GoodFlight, GoodRequest
<1>4. Base
  BY DEF IInv
<1>5. Base'
  <2>1. f.session \in Sessions
    BY <1>3, <1>4 DEF Base
  <2>2. stored' \in [Sessions -> SUBSET Turns]
    BY <1>1, <1>4 DEF Base
  <2>3. updated' \in [Sessions -> 0..MaxUpdates]
    BY <1>1, <1>4, <2>1 DEF Base, PageAssumption
  <2>4. QED  BY <1>1, <1>4, <2>2, <2>3 DEF Base, client
<1>6. PICK w : w = WorkspaceOf(f.project, f.session)
  OBVIOUS
<1>7. PICK a : a = [w EXCEPT !.messages = {}, !.sessions[f.session] = @ + 1]
  OBVIOUS
<1>8. AnswerWith(f, a)
  BY <1>2, <1>6, <1>7, Zenon
<1>9. /\ IsRecord(w) /\ w.project = f.project /\ w.active = f.session
      /\ \A y : y \in DOMAIN w.sessions <=> y \in exists /\ Owner[y] = f.project
      /\ \A h : h \in DOMAIN w.gens <=> h \in Gens /\ gsession[h] = f.session
  <2>1. IsRecord(w) /\ w.project = f.project /\ w.active = f.session
    BY <1>6, WorkspaceFields
  <2>2. \A y : y \in DOMAIN w.sessions <=> y \in exists /\ Owner[y] = f.project
    BY <1>6, WorkspaceFields
  <2>3. \A h : h \in DOMAIN w.gens <=> h \in Gens /\ gsession[h] = f.session
    BY <1>6, WorkspaceFields
  <2>4. QED  BY <2>1, <2>2, <2>3
<1>10. a = [project |-> w.project, active |-> w.active,
            sessions |-> [w.sessions EXCEPT ![f.session] = @ + 1], messages |-> {}, gens |-> w.gens]
  BY <1>7, <1>9, WorkspaceCleared, Zenon
<1>11. /\ IsRecord(a) /\ a.project = f.project /\ a.active = f.session
       /\ DOMAIN a.sessions = DOMAIN w.sessions
       /\ a.messages = {} /\ a.gens = w.gens
  BY <1>9, <1>10 DEF IsRecord
<1>12. GoodWorkspace(a, exists, gsession) /\ AllStored(a)
  BY <1>3, <1>9, <1>11 DEF GoodWorkspace, AllStored, IsRecord
<1>13. GoodAnswer(f, a, exists', gsession')
  BY <1>1, <1>11, <1>12 DEF GoodAnswer
<1>14. Grows(exists, gsession, exists', gsession')
  BY <1>1 DEF Grows
<1>15. QED  BY <1>5, <1>8, <1>13, <1>14, ServeStep

LEMMA ServeCompletes ==
  ASSUME PageAssumption, IInv, NEW f \in flights, f.answer = None, ServerCompletes(f), UNCHANGED <<client, left>>
  PROVE  IInv'
<1>1. /\ f.kind = "send" /\ updated[f.session] < MaxUpdates
      /\ stored' = [stored EXCEPT ![f.session] = @ \cup {f.item}]
      /\ updated' = [updated EXCEPT ![f.session] = @ + 1]
      /\ UNCHANGED <<exists, gstat, gsession>>
      /\ AnswerWith(f, [turn |-> f.item, session |-> f.session, stored |-> TRUE])
  BY DEF ServerCompletes
<1>2. f.session \in exists /\ f.item \in Turns
  BY <1>1 DEF IInv, GoodFlights, GoodFlight, GoodRequest
<1>3. Base'
  <2>1. Base /\ f.session \in Sessions
    BY <1>2 DEF IInv, Base
  <2>2. stored' \in [Sessions -> SUBSET Turns]
    BY <1>1, <1>2, <2>1 DEF Base
  <2>3. updated' \in [Sessions -> 0..MaxUpdates]
    BY <1>1, <2>1 DEF Base, PageAssumption
  <2>4. QED  BY <1>1, <2>1, <2>2, <2>3 DEF Base, client
<1>4. GoodAnswer(f, [turn |-> f.item, session |-> f.session, stored |-> TRUE], exists', gsession')
  BY <1>1 DEF GoodAnswer
<1>5. Grows(exists, gsession, exists', gsession')
  BY <1>1 DEF Grows
<1>6. QED  BY <1>1, <1>3, <1>4, <1>5, ServeStep

LEMMA ServeQueues ==
  ASSUME PageAssumption, IInv, NEW f \in flights, f.answer = None, ServerQueues(f), UNCHANGED <<client, left>>
  PROVE  IInv'
<1>1. PICK g \in Gens :
        /\ gsession[g] = None
        /\ gsession' = [gsession EXCEPT ![g] = f.session]
        /\ gstat' = [gstat EXCEPT ![g] = "running"]
        /\ updated' = [updated EXCEPT ![f.session] = @ + 1]
        /\ AnswerWith(f, [id |-> g, session |-> f.session, status |-> "running"])
  BY DEF ServerQueues
<1>2. f.kind \in {"image", "regen"} /\ updated[f.session] < MaxUpdates /\ UNCHANGED <<exists, stored>>
  BY DEF ServerQueues
<1>3. f.session \in exists
  BY <1>2 DEF IInv, GoodFlights, GoodFlight, GoodRequest
<1>4. Base /\ f.session \in Sessions
  BY <1>3 DEF IInv, Base
<1>5. Base'
  <2>1. updated' \in [Sessions -> 0..MaxUpdates]
    BY <1>1, <1>2, <1>4 DEF Base, PageAssumption
  <2>2. gsession' \in [Gens -> Sessions \cup {None}] /\ DOMAIN gstat' = Gens
    BY <1>1, <1>4 DEF Base
  <2>3. QED  BY <1>2, <1>4, <2>1, <2>2 DEF Base, client
<1>6. GoodAnswer(f, [id |-> g, session |-> f.session, status |-> "running"], exists', gsession')
  BY <1>1, <1>2, <1>4 DEF GoodAnswer, Base
<1>7. Grows(exists, gsession, exists', gsession')
  BY <1>1, <1>2, <1>4 DEF Grows, Base
<1>8. QED  BY <1>1, <1>5, <1>6, <1>7, ServeStep

LEMMA ServePolled ==
  ASSUME PageAssumption, IInv, NEW f \in flights, f.answer = None, ServerPolled(f), UNCHANGED <<client, left>>
  PROVE  IInv'
<1>1. /\ f.kind = "poll" /\ UNCHANGED server
      /\ AnswerWith(f, [id |-> f.item, session |-> gsession[f.item], status |-> gstat[f.item]])
  BY DEF ServerPolled
<1>2. Base' /\ UNCHANGED <<exists, gsession>>
  BY <1>1 DEF IInv, Base, client, server
<1>3. GoodAnswer(f, [id |-> f.item, session |-> gsession[f.item], status |-> gstat[f.item]], exists', gsession')
  BY <1>1 DEF GoodAnswer
<1>4. Grows(exists, gsession, exists', gsession')
  BY <1>2 DEF Grows
<1>5. QED  BY <1>1, <1>2, <1>3, <1>4, ServeStep

LEMMA ServeKeeps ==
  ASSUME PageAssumption, IInv, NEW f \in flights, Serve(f)
  PROVE  IInv'
  BY ServeReads, ServeCreates, ServeClears, ServeCompletes, ServeQueues, ServePolled DEF Serve

-----------------------------------------------------------------------------
(* The user, the renders and the worker.                                   *)

\* Something the user does is taken from the plan.
LEMMA SpendKeeps ==
  ASSUME PageAssumption, Base, NEW what \in DOMAIN Budget, Spend(what)
  PROVE  /\ left' \in [DOMAIN Budget -> Nat] /\ left'["fail"] <= Budget["fail"]
         /\ what # "fail" => left'["fail"] = left["fail"]
         /\ what = "fail" => left'["fail"] # Budget["fail"]
  BY DEF PageAssumption, Base, Spend

\* Steps that touch neither the requests nor what is shown, and write no draft.
LEMMA Still ==
  ASSUME IInv, Base', UNCHANGED <<flights, ws, exists, gsession, proj>>,
         chat' = chat \/ \A f \in flights : f.live => f.kind \notin {"switch", "create"},
         due \subseteq due', left'["fail"] = left["fail"]
  PROVE  IInv'
<1>1. Unasked(flights', chat')
  BY DEF IInv, Unasked
<1>2. Polled(ws', flights', due', left'["fail"])
  BY DEF IInv, Polled
<1>3. QED  BY <1>1, <1>2 DEF IInv

\* Steps that start one request.
LEMMA Starts ==
  ASSUME PageAssumption, IInv, Base', UNCHANGED <<ws, chat, exists, gsession, proj>>,
         due \subseteq due', left'["fail"] = left["fail"],
         NEW r, flights' = flights \cup {r}, GoodFlight(r, exists, gsession, proj),
         r.kind \in Exclusive => \A f \in flights : f.live => f.kind \notin Exclusive,
         r.kind \in SessionKinds => \A f \in flights : f.live => f.kind \notin {"regen", "read"},
         r.kind \in {"regen", "read"} => \A f \in flights : f.live => f.kind \notin SessionKinds,
         r.kind \in {"switch", "create"} => r.asked \/ chat = None
  PROVE  IInv'
<1>1. Flying(flights, exists, gsession, proj, chat) /\ Streaming(ws, flights) /\ Shown(ws, exists, gsession, proj)
      /\ Polled(ws, flights, due, left["fail"])
  BY Parts
<1>2. Flying(flights \cup {r}, exists, gsession, proj, chat)
  BY <1>1, OneMore
<1>3. KeepsSends(flights, flights') /\ KeepsPolls(flights, flights')
  BY MoreKeeps
<1>4. Streaming(ws, flights') /\ Polled(ws, flights', due', left["fail"])
  BY <1>1, <1>3, StreamingStays, PolledStays
<1>5. QED  BY <1>1, <1>2, <1>4 DEF IInv, Flying

LEMMA WorkerKeeps ==
  ASSUME PageAssumption, IInv, NEW g \in Gens, WorkerEnds(g)
  PROVE  IInv'
<1>1. Base'
  BY DEF IInv, Base, WorkerEnds, client
<1>2. QED  BY <1>1, Still DEF WorkerEnds, client

LEMMA CommitKeeps ==
  ASSUME PageAssumption, IInv, CommitUrl
  PROVE  IInv'
<1>1. Base'
  BY DEF IInv, Base, CommitUrl, server
<1>2. QED  BY <1>1, Still DEF CommitUrl, server

LEMMA NavigateKeeps ==
  ASSUME PageAssumption, IInv, NEW s \in exists, Navigate(s)
  PROVE  IInv'
<1>1. Base /\ Spend("navigate") /\ "navigate" \in DOMAIN Budget
  BY DEF IInv, Navigate, PageAssumption
<1>2. left' \in [DOMAIN Budget -> Nat] /\ left'["fail"] <= Budget["fail"] /\ left'["fail"] = left["fail"]
  BY <1>1, SpendKeeps
<1>3. Base'
  BY <1>1, <1>2 DEF Base, Navigate, server
<1>4. QED  BY <1>2, <1>3, Still DEF Navigate, server

LEMMA TypeKeeps ==
  ASSUME PageAssumption, IInv, TypeMessage
  PROVE  IInv'
<1>1. Base /\ Spend("type") /\ "type" \in DOMAIN Budget
  BY DEF IInv, TypeMessage, PageAssumption
<1>2. left' \in [DOMAIN Budget -> Nat] /\ left'["fail"] <= Budget["fail"] /\ left'["fail"] = left["fail"]
  BY <1>1, SpendKeeps
<1>3. Active \in Sessions
  BY <1>1, ActiveIs DEF TypeMessage, GoodWorkspace, Base
<1>4. Base'
  BY <1>1, <1>2, <1>3 DEF Base, TypeMessage, server
<1>5. \A f \in flights : f.live => f.kind \notin {"switch", "create"}
  BY DEF TypeMessage, OperationBusy, Live, SessionKinds
<1>6. QED  BY <1>2, <1>4, <1>5, Still DEF TypeMessage, server

LEMMA PromptKeeps ==
  ASSUME PageAssumption, IInv, TypePrompt
  PROVE  IInv'
<1>1. Base /\ Spend("prompt") /\ "prompt" \in DOMAIN Budget
  BY DEF IInv, TypePrompt, PageAssumption
<1>2. left' \in [DOMAIN Budget -> Nat] /\ left'["fail"] <= Budget["fail"] /\ left'["fail"] = left["fail"]
  BY <1>1, SpendKeeps
<1>3. Active \in Sessions
  BY <1>1, ActiveIs DEF TypePrompt, GoodWorkspace, Base
<1>4. Base'
  BY <1>1, <1>2, <1>3 DEF Base, TypePrompt, server
<1>5. QED  BY <1>2, <1>4, Still DEF TypePrompt, server

\* The session in front, when there is one, exists and is of the route's project.
LEMMA ActiveExists ==
  ASSUME PageAssumption, IInv, Active # None
  PROVE  /\ ws # None /\ Active = ws.active /\ Active \in exists /\ Active \in Sessions
         /\ Owner[Active] = proj /\ proj \in Projects
  BY ActiveIs DEF GoodWorkspace, IInv, Base

LEMMA AttachKeeps ==
  ASSUME PageAssumption, IInv, AddAttachments
  PROVE  IInv'
<1>1. Base /\ Spend("read") /\ "read" \in DOMAIN Budget
  BY DEF IInv, AddAttachments, PageAssumption
<1>2. left' \in [DOMAIN Budget -> Nat] /\ left'["fail"] <= Budget["fail"] /\ left'["fail"] = left["fail"]
  BY <1>1, SpendKeeps
<1>3. Active \in exists /\ Active \in Sessions /\ Owner[Active] = proj /\ proj \in Projects
  BY ActiveExists DEF AddAttachments
<1>4. Base'
  BY <1>1, <1>2 DEF Base, AddAttachments, client, server
<1>5. PICK r : r = Request("read", proj, Active, None, FALSE, FALSE)
  OBVIOUS
<1>6. GoodFlight(r, exists, gsession, proj) /\ r.kind = "read"
  BY <1>3, <1>5 DEF Request, GoodFlight, GoodRequest, Kinds, Mutating
<1>7. \A f \in flights : f.live => f.kind \notin SessionKinds
  BY DEF AddAttachments, Live
<1>8. flights' = flights \cup {r}
  BY <1>5 DEF AddAttachments
<1>9. UNCHANGED <<ws, chat, exists, gsession, proj, due>>
  BY DEF AddAttachments, client, server
<1>10. QED  BY <1>2, <1>4, <1>6, <1>7, <1>8, <1>9, Starts DEF Exclusive, SessionKinds

LEMMA RegenerateKeeps ==
  ASSUME PageAssumption, IInv, NEW g \in Gens, RegenerateGeneration(g)
  PROVE  IInv'
<1>1. Base /\ Spend("regen") /\ "regen" \in DOMAIN Budget
  BY DEF IInv, RegenerateGeneration, PageAssumption
<1>2. left' \in [DOMAIN Budget -> Nat] /\ left'["fail"] <= Budget["fail"] /\ left'["fail"] = left["fail"]
  BY <1>1, SpendKeeps
<1>3. Active \in exists /\ Active \in Sessions /\ Owner[Active] = proj /\ proj \in Projects
  BY ActiveExists DEF RegenerateGeneration
<1>4. Base'
  BY <1>1, <1>2 DEF Base, RegenerateGeneration, client, server
<1>5. PICK r : r = Request("regen", proj, Active, g, FALSE, FALSE)
  OBVIOUS
<1>6. GoodFlight(r, exists, gsession, proj) /\ r.kind = "regen"
  BY <1>3, <1>5 DEF Request, GoodFlight, GoodRequest, Kinds, Mutating
<1>7. \A f \in flights : f.live => f.kind \notin SessionKinds
  BY DEF RegenerateGeneration, Live
<1>8. flights' = flights \cup {r}
  BY <1>5 DEF RegenerateGeneration
<1>9. UNCHANGED <<ws, chat, exists, gsession, proj, due>>
  BY DEF RegenerateGeneration, client, server
<1>10. QED  BY <1>2, <1>4, <1>6, <1>7, <1>8, <1>9, Starts DEF Exclusive, SessionKinds

LEMMA SubmitKeeps ==
  ASSUME PageAssumption, IInv, SubmitImageGeneration
  PROVE  IInv'
<1>1. Base'
  BY DEF IInv, Base, SubmitImageGeneration, client, server
<1>2. Active \in exists /\ Active \in Sessions /\ Owner[Active] = proj /\ proj \in Projects
  BY ActiveExists DEF SubmitImageGeneration
<1>3. PICK r : r = Request("image", proj, Active, None, FALSE, FALSE)
  OBVIOUS
<1>4. GoodFlight(r, exists, gsession, proj) /\ r.kind = "image"
  BY <1>2, <1>3 DEF Request, GoodFlight, GoodRequest, Kinds, Mutating
<1>5. \A f \in flights : f.live => f.kind \notin Exclusive
  BY DEF SubmitImageGeneration, Live, Exclusive
<1>6. flights' = flights \cup {r}
  BY <1>3 DEF SubmitImageGeneration
<1>7. UNCHANGED <<ws, chat, exists, gsession, proj, due, left>>
  BY DEF SubmitImageGeneration, client, server
<1>8. QED  BY <1>1, <1>4, <1>5, <1>6, <1>7, Starts DEF SessionKinds

\* Only loads of the old project survive a change of project, and the dead.
LEMMA ChangeProjectKeeps ==
  ASSUME PageAssumption, IInv, NEW p \in Projects, ChangeProject(p)
  PROVE  IInv'
<1> DEFINE S == {f \in flights : f.live /\ f.kind # "load"}
<1>1. Base /\ Spend("project") /\ "project" \in DOMAIN Budget
  BY DEF IInv, ChangeProject, PageAssumption
<1>2. left' \in [DOMAIN Budget -> Nat] /\ left'["fail"] <= Budget["fail"]
  BY <1>1, SpendKeeps
<1>3. Base'
  BY <1>1, <1>2 DEF Base, ChangeProject, server
<1>4. flights' = Abort(flights, S) /\ UNCHANGED <<exists, gsession>> /\ ws' = None /\ proj' = p
  BY DEF ChangeProject, server
<1>5. \A f \in flights' : f \in flights \ S \/ (GoodFlight(f, exists, gsession, p) /\ ~f.live)
  BY <1>4, AbortMembers DEF IInv
<1>6. ASSUME NEW f \in flights \ S
      PROVE  GoodFlight(f, exists, gsession, p) /\ (~f.live \/ f.kind = "load")
  BY DEF IInv, GoodFlights, GoodFlight, GoodRequest
<1> HIDE DEF S
<1>7. \A f \in flights' : GoodFlight(f, exists, gsession, p) /\ (~f.live \/ f.kind = "load")
  BY <1>5, <1>6
<1>8. GoodFlights(flights', exists, gsession, p) /\ Exclude(flights') /\ Unasked(flights', chat')
  BY <1>7 DEF GoodFlights, Exclude, Unasked, Exclusive, SessionKinds
<1>9. Shown(ws', exists, gsession, p) /\ Streaming(ws', flights') /\ Polled(ws', flights', due', left'["fail"])
  BY <1>4 DEF Shown, Streaming, Polled
<1>10. QED  BY <1>3, <1>4, <1>8, <1>9 DEF IInv

LEMMA RequestSessionKeeps ==
  ASSUME PageAssumption, IInv, Visible, NEW kind, NEW s, RequestSession(kind, s),
         \/ kind = "switch" /\ s \in Sessions
         \/ kind = "create" /\ s = None
         \/ kind = "clear" /\ s = ws.active
  PROVE  IInv'
<1>1. Base /\ Spend("session") /\ "session" \in DOMAIN Budget
  BY DEF IInv, RequestSession, PageAssumption
<1>2. left' \in [DOMAIN Budget -> Nat] /\ left'["fail"] <= Budget["fail"] /\ left'["fail"] = left["fail"]
  BY <1>1, SpendKeeps
<1>3. /\ ws # None /\ Active = ws.active /\ ws.active \in exists /\ ws.active \in Sessions
      /\ Owner[ws.active] = proj /\ proj \in Projects
  BY <1>1, ActiveIs DEF GoodWorkspace, Base
<1>4. s \in Sessions \cup {None, Gone}
  BY <1>3
<1>5. UNCHANGED <<proj, ws, chat, due, exists, gsession>>
  BY DEF RequestSession, server
<1>6. CASE confirm' = Dialog(kind, s) /\ UNCHANGED flights
  <2>1. confirm' \in Dialogs
    BY <1>3, <1>4, <1>6 DEF Dialog, Dialogs
  <2>2. Base'
    BY <1>1, <1>2, <2>1 DEF Base, RequestSession, server
  <2>3. QED  BY <1>2, <1>5, <1>6, <2>2, Still
<1>7. CASE ~HasDraft /\ flights' = flights \cup {Request(kind, proj, s, None, FALSE, FALSE)} /\ UNCHANGED confirm
  <2>1. Base'
    BY <1>1, <1>2, <1>7 DEF Base, RequestSession, server
  <2>2. PICK r : r = Request(kind, proj, s, None, FALSE, FALSE)
    OBVIOUS
  <2>3. GoodFlight(r, exists, gsession, proj) /\ r.kind = kind
    BY <1>3, <1>4, <2>2 DEF Request, GoodFlight, GoodRequest, Kinds, Mutating, SessionKinds
  <2>4. \A f \in flights : f.live => f.kind \notin SessionKinds \cup {"send", "image", "regen", "read"}
    BY DEF RequestSession, SessionControlsBusy, SessionBusy, Live
  <2>5. chat = None
    BY <1>7 DEF HasDraft
  <2>6. flights' = flights \cup {r}
    BY <1>7, <2>2
  <2>7. QED  BY <1>2, <1>5, <2>1, <2>3, <2>4, <2>5, <2>6, Starts DEF Exclusive
<1>8. QED  BY <1>6, <1>7 DEF RequestSession

LEMMA SwitchKeeps ==
  ASSUME PageAssumption, IInv, NEW s \in Sessions, RequestSessionSwitch(s)
  PROVE  IInv'
  BY RequestSessionKeeps DEF RequestSessionSwitch

LEMMA NewSessionKeeps ==
  ASSUME PageAssumption, IInv, RequestNewSession
  PROVE  IInv'
  BY RequestSessionKeeps DEF RequestNewSession

LEMMA ClearKeeps ==
  ASSUME PageAssumption, IInv, RequestClearSession
  PROVE  IInv'
<1>1. PICK s : s = ws.active
  OBVIOUS
<1>2. Visible /\ RequestSession("clear", s)
  BY <1>1 DEF RequestClearSession
<1>3. QED  BY <1>1, <1>2, RequestSessionKeeps

\* The dialog does what it asked about, if that is still possible.
LEMMA ConfirmOkKeeps ==
  ASSUME PageAssumption, IInv, ConfirmOk
  PROVE  IInv'
<1> DEFINE kind == IF confirm.kind = "url" THEN "switch" ELSE confirm.kind
           target == IF kind = "clear" THEN Active ELSE confirm.target
<1>1. Base /\ Spend("answer") /\ "answer" \in DOMAIN Budget
  BY DEF IInv, ConfirmOk, PageAssumption
<1>2. left' \in [DOMAIN Budget -> Nat] /\ left'["fail"] <= Budget["fail"] /\ left'["fail"] = left["fail"]
  BY <1>1, SpendKeeps
<1>3. confirm \in Dialogs
  BY <1>1 DEF Base, ConfirmOk
<1>4. UNCHANGED <<proj, ws, chat, due, exists, gsession>>
  BY DEF ConfirmOk, server
<1>5. CASE confirm' = None /\ pend' \in {None, pend} /\ UNCHANGED flights
  <2>1. Base'
    BY <1>1, <1>2, <1>5 DEF Base, ConfirmOk, server
  <2>2. QED  BY <1>2, <1>4, <1>5, <2>1, Still
<1>6. CASE /\ Active # None /\ ~SessionBusy
           /\ confirm' = [confirm EXCEPT !.busy = TRUE]
           /\ flights' = flights \cup {Request(kind, proj, target, None, confirm.kind = "url", TRUE)}
           /\ UNCHANGED pend
  <2>1. confirm' \in Dialogs
    BY <1>3, <1>6 DEF Dialogs
  <2>2. Base'
    BY <1>1, <1>2, <1>6, <2>1 DEF Base, ConfirmOk, server
  <2>3. Active \in exists /\ Active \in Sessions /\ Owner[Active] = proj /\ proj \in Projects
    BY <1>6, ActiveExists
  <2>4. kind \in {"switch", "create", "clear"} /\ target \in Sessions \cup {None, Gone}
        /\ (kind = "clear" => target = Active)
    BY <1>3, <2>3 DEF Dialogs
  <2>5. PICK k, t, u : k = kind /\ t = target /\ u = (confirm.kind = "url")
    OBVIOUS
  <2> HIDE DEF kind, target
  <2>6. PICK r : r = Request(k, proj, t, None, u, TRUE)
    OBVIOUS
  <2>7. u \in BOOLEAN
    BY <2>5
  <2>8. GoodFlight(r, exists, gsession, proj) /\ r.kind = k /\ r.asked
    BY <2>3, <2>4, <2>5, <2>6, <2>7 DEF Request, GoodFlight, GoodRequest, Kinds, Mutating, SessionKinds
  <2>9. \A f \in flights : f.live => f.kind \notin SessionKinds \cup {"send", "image", "regen", "read"}
    BY <1>6 DEF SessionBusy, Live
  <2>10. flights' = flights \cup {r}
    BY <1>6, <2>5, <2>6
  <2>11. QED  BY <1>2, <1>4, <2>2, <2>8, <2>9, <2>10, Starts DEF Exclusive
<1>7. QED  BY <1>5, <1>6 DEF ConfirmOk

LEMMA ConfirmCancelKeeps ==
  ASSUME PageAssumption, IInv, ConfirmCancel
  PROVE  IInv'
<1>1. Base /\ Spend("answer") /\ "answer" \in DOMAIN Budget
  BY DEF IInv, ConfirmCancel, PageAssumption
<1>2. left' \in [DOMAIN Budget -> Nat] /\ left'["fail"] <= Budget["fail"] /\ left'["fail"] = left["fail"]
  BY <1>1, SpendKeeps
<1>3. confirm.from \in Sessions \cup {None, Gone}
  BY <1>1 DEF Base, ConfirmCancel, Dialogs
<1>4. Base'
  BY <1>1, <1>2, <1>3 DEF Base, ConfirmCancel, server
<1>5. QED  BY <1>2, <1>4, Still DEF ConfirmCancel, server

\* Workspace v is w with other messages.
OtherMessages(v, w, ms) ==
  /\ IsRecord(v) /\ v.messages = ms /\ v.project = w.project
  /\ v.active = w.active /\ v.gens = w.gens /\ v.sessions = w.sessions

LEMMA MessagesChange ==
  ASSUME NEW w, IsRecord(w), NEW ms, NEW v, v = [w EXCEPT !.messages = ms]
  PROVE  OtherMessages(v, w, ms)
<1>1. v = [project |-> w.project, active |-> w.active, sessions |-> w.sessions, messages |-> ms, gens |-> w.gens]
  BY WorkspaceChanges, Zenon
<1>2. QED  BY <1>1 DEF IsRecord, OtherMessages

LEMMA MessagesOfSession ==
  ASSUME NEW w, NEW ex, NEW gs, GoodWorkspace(w, ex, gs), NEW ms, \A m \in ms : m.session = w.active,
         NEW v, OtherMessages(v, w, ms)
  PROVE  GoodWorkspace(v, ex, gs)
  BY DEF GoodWorkspace, IsRecord, OtherMessages

\* Polled does not depend on the messages.
LEMMA PolledOther ==
  ASSUME NEW w, NEW v, NEW fs, NEW fs2, NEW du, NEW du2, NEW fails, w # None,
         Polled(w, fs, du, fails), KeepsPolls(fs, fs2), du \subseteq du2,
         v.active = w.active, v.gens = w.gens
  PROVE  Polled(v, fs2, du2, fails)
  BY DEF Polled, KeepsPolls

LEMMA SendKeeps ==
  ASSUME PageAssumption, IInv, NEW t \in Turns, SendMessage(t)
  PROVE  IInv'
<1>1. Base'
  BY DEF IInv, Base, SendMessage, server
<1>2. /\ ws # None /\ Active = ws.active /\ Active \in exists /\ Active \in Sessions
      /\ Owner[Active] = proj /\ proj \in Projects
  BY ActiveExists DEF SendMessage
<1>3. PICK r, m : /\ r = Request("send", proj, Active, t, FALSE, FALSE)
                  /\ m = [turn |-> t, session |-> Active, stored |-> FALSE]
  OBVIOUS
<1>4. GoodFlight(r, exists, gsession, proj) /\ r.kind = "send" /\ r.item = t /\ r.session = Active /\ r.live
  BY <1>2, <1>3 DEF Request, GoodFlight, GoodRequest, Kinds, Mutating
<1>5. UNCHANGED <<proj, exists, gsession, left>> /\ chat' = None /\ due \subseteq due'
  BY DEF SendMessage, server
<1>6. flights' = flights \cup {r}
  BY <1>3 DEF SendMessage
<1>7. PICK ms : ms = ws.messages \cup {m}
  OBVIOUS
<1>8. ws' = [ws EXCEPT !.messages = ms]
  BY <1>3, <1>7, Zenon DEF SendMessage
<1>9. GoodWorkspace(ws, exists, gsession) /\ ws.project = proj
  BY <1>2, ActiveIs
<1>10. \A x \in ms : x.session = ws.active
  BY <1>2, <1>3, <1>7, <1>9 DEF GoodWorkspace
<1>11. /\ GoodWorkspace(ws', exists, gsession) /\ ws'.messages = ms /\ ws'.project = ws.project
       /\ ws'.active = ws.active /\ ws'.gens = ws.gens
  <2>1. OtherMessages(ws', ws, ms)
    BY <1>8, <1>9, MessagesChange, Zenon DEF GoodWorkspace, IsRecord
  <2>2. GoodWorkspace(ws', exists, gsession)
    BY <1>9, <1>10, <2>1, MessagesOfSession, Zenon
  <2>3. QED  BY <2>1, <2>2 DEF OtherMessages
<1>12. Flying(flights', exists, gsession, proj, None)
  <2>1. Flying(flights, exists, gsession, proj, None)
    BY Parts DEF Flying, Unasked
  <2>2. \A f \in flights : f.live => f.kind \notin Exclusive
    BY DEF SendMessage, Live, Exclusive
  <2>3. QED  BY <1>4, <1>6, <2>1, <2>2, OneMore DEF SessionKinds
<1>13. KeepsSends(flights, flights') /\ KeepsPolls(flights, flights')
  BY <1>6, MoreKeeps
<1>14. Streaming(ws, flights') /\ Polled(ws', flights', due', left["fail"])
  BY <1>2, <1>5, <1>11, <1>13, StreamingStays, PolledOther, Parts
<1>15. Streaming(ws', flights')
  <2>1. \A x \in ms : x \in ws.messages \/ x = m
    BY <1>7
  <2>2. m.turn = t /\ m.session = Active
    BY <1>3
  <2>3. \E f \in flights' : f.live /\ f.kind = "send" /\ f.item = m.turn /\ f.session = m.session
    BY <1>4, <1>6, <2>2
  <2>4. QED  BY <1>2, <1>11, <1>14, <2>1, <2>3 DEF Streaming
<1>16. Shown(ws', exists, gsession, proj)
  BY <1>9, <1>11 DEF Shown
<1>17. QED  BY <1>1, <1>5, <1>12, <1>14, <1>15, <1>16 DEF IInv, Flying

-----------------------------------------------------------------------------
(* Effects.                                                                *)

LEMMA LoadEffectKeeps ==
  ASSUME PageAssumption, IInv
  PROVE  /\ Flying(AfterLoadEffect, exists, gsession, proj, chat)
         /\ KeepsSends(flights, AfterLoadEffect) /\ KeepsPolls(flights, AfterLoadEffect)
<1>1. Flying(flights, exists, gsession, proj, chat) /\ proj \in Projects /\ loc \in Sessions \cup {None, Gone}
  BY Parts DEF Base
<1>2. CASE "load" \in due
  <2>1. PICK S : S = Live({"load"})
    OBVIOUS
  <2>2. S \in SUBSET flights /\ \A f \in S : f.kind = "load"
    BY <2>1 DEF Live
  <2>3. PICK r : r = Request("load", proj, loc, None, FALSE, FALSE)
    OBVIOUS
  <2>4. GoodFlight(r, exists, gsession, proj) /\ r.kind = "load"
    BY <1>1, <2>3 DEF Request, GoodFlight, GoodRequest, Kinds, Mutating
  <2>5. PICK fs : fs = Abort(flights, S)
    OBVIOUS
  <2>6. Flying(fs, exists, gsession, proj, chat)
    BY <1>1, <2>2, <2>5, Aborted
  <2>7. Flying(fs \cup {r}, exists, gsession, proj, chat)
    BY <2>4, <2>6, OneMore DEF Exclusive, SessionKinds
  <2>8. KeepsSends(flights, fs) /\ KeepsPolls(flights, fs)
    BY <2>2, <2>5, AbortKeeps
  <2>9. KeepsSends(fs, fs \cup {r}) /\ KeepsPolls(fs, fs \cup {r})
    BY MoreKeeps
  <2>10. AfterLoadEffect = fs \cup {r}
    BY <1>2, <2>1, <2>3, <2>5 DEF AfterLoadEffect
  <2>11. QED  BY <2>7, <2>8, <2>9, <2>10, KeepsTwice
<1>3. CASE "load" \notin due
  BY <1>1, <1>3, MoreKeeps DEF AfterLoadEffect
<1>4. QED  BY <1>2, <1>3

\* What the address effect may leave.
UrlOutcome(u) ==
  /\ u.loc \in Sessions \cup {None, Gone} /\ u.pend \in Sessions \cup {None, Gone}
  /\ u.confirm # None => u.confirm \in Dialogs
  /\ Flying(u.flights, exists, gsession, proj, chat)

LEMMA UrlEffectKeeps ==
  ASSUME PageAssumption, IInv, Visible, NEW fs, Flying(fs, exists, gsession, proj, chat)
  PROVE  /\ UrlOutcome(UrlEffect(fs))
         /\ KeepsSends(fs, UrlEffect(fs).flights) /\ KeepsPolls(fs, UrlEffect(fs).flights)
<1> DEFINE changing == {f \in fs : f.live /\ f.kind \in SessionKinds}
           stale    == pend # None /\ pend # req
           fs1      == IF stale THEN Abort(fs, changing) ELSE fs
           pend1    == IF stale THEN None ELSE pend
           confirm1 == IF stale THEN None ELSE confirm
           finished == stale /\ \E f \in changing : f.byUrl
           busy     == \E f \in fs1 : f.live /\ f.kind \in SessionKinds \cup {"send", "image", "regen", "read"}
           pend2    == IF finished THEN None ELSE req
           r        == Request("switch", proj, req, None, TRUE, FALSE)
           put(l)   == [loc |-> l, pend |-> pend1, confirm |-> confirm1, flights |-> fs1]
           asks     == [loc |-> loc, pend |-> pend2, confirm |-> Dialog("url", req), flights |-> fs1]
           goes     == [loc |-> loc, pend |-> pend2, confirm |-> confirm1, flights |-> fs1 \cup {r}]
<1>1. UrlEffect(fs) =
        IF req \notin DOMAIN ws.sessions THEN put(ws.active)
        ELSE IF req = ws.active \/ pend1 = req THEN put(loc)
        ELSE IF busy THEN put(ws.active)
        ELSE IF HasDraft THEN asks ELSE goes
  BY DEF UrlEffect
<1>2. Base /\ ws # None /\ Active = ws.active /\ ws.active \in Sessions /\ proj \in Projects
  BY ActiveIs DEF IInv, Base, GoodWorkspace
<1>3. pend1 \in Sessions \cup {None, Gone} /\ pend2 \in Sessions \cup {None, Gone}
  BY <1>2 DEF Base
<1>4. confirm1 # None => confirm1 \in Dialogs
  BY <1>2 DEF Base
<1>5. Flying(fs1, exists, gsession, proj, chat) /\ KeepsSends(fs, fs1) /\ KeepsPolls(fs, fs1)
  <2>1. changing \in SUBSET fs /\ \A f \in changing : f.kind # "send" /\ f.kind # "poll"
    BY DEF SessionKinds
  <2> HIDE DEF changing
  <2>2. CASE stale
    <3>1. Flying(Abort(fs, changing), exists, gsession, proj, chat)
      BY <2>1, Aborted
    <3>2. KeepsSends(fs, Abort(fs, changing)) /\ KeepsPolls(fs, Abort(fs, changing))
      BY <2>1, AbortKeeps
    <3>3. QED  BY <2>2, <3>1, <3>2
  <2>3. CASE ~stale
    BY <2>3, MoreKeeps
  <2>4. QED  BY <2>2, <2>3
<1> HIDE DEF changing, stale, fs1, pend1, confirm1, finished, pend2
<1>6. ASSUME NEW l \in Sessions \cup {None, Gone}, UrlEffect(fs) = put(l)
      PROVE  UrlOutcome(UrlEffect(fs)) /\ UrlEffect(fs).flights = fs1
  BY <1>3, <1>4, <1>5, <1>6 DEF UrlOutcome
<1>7. ASSUME UrlEffect(fs) = asks
      PROVE  UrlOutcome(UrlEffect(fs)) /\ UrlEffect(fs).flights = fs1
  <2>1. Dialog("url", req) \in Dialogs
    BY <1>2 DEF Dialog, Dialogs, Base
  <2>2. QED  BY <1>2, <1>3, <1>5, <1>7, <2>1 DEF UrlOutcome, Base
<1>8. ASSUME UrlEffect(fs) = goes, ~busy, ~HasDraft
      PROVE  UrlOutcome(UrlEffect(fs)) /\ UrlEffect(fs).flights = fs1 \cup {r}
  <2>1. GoodFlight(r, exists, gsession, proj) /\ r.kind = "switch"
    BY <1>2 DEF Request, GoodFlight, GoodRequest, Kinds, Mutating, SessionKinds, Base
  <2>2. \A f \in fs1 : f.live => f.kind \notin SessionKinds \cup {"send", "image", "regen", "read"}
    BY <1>8
  <2>3. chat = None
    BY <1>8 DEF HasDraft
  <2> HIDE DEF r, busy
  <2>4. Flying(fs1 \cup {r}, exists, gsession, proj, chat)
    BY <1>5, <2>1, <2>2, <2>3, OneMore DEF Exclusive
  <2>5. QED  BY <1>2, <1>3, <1>4, <1>8, <2>4 DEF UrlOutcome, Base
<1>9. UrlOutcome(UrlEffect(fs)) /\ fs1 \subseteq UrlEffect(fs).flights
  <2> HIDE DEF put, asks, goes, busy, r
  <2>1. \/ UrlEffect(fs) = put(ws.active) \/ UrlEffect(fs) = put(loc)
        \/ UrlEffect(fs) = asks \/ (UrlEffect(fs) = goes /\ ~busy /\ ~HasDraft)
    BY <1>1
  <2>2. ws.active \in Sessions \cup {None, Gone} /\ loc \in Sessions \cup {None, Gone}
    BY <1>2 DEF Base
  <2>3. QED  BY <1>6, <1>7, <1>8, <2>1, <2>2
<1>10. KeepsSends(fs1, UrlEffect(fs).flights) /\ KeepsPolls(fs1, UrlEffect(fs).flights)
  BY <1>9, MoreKeeps
<1>11. QED  BY <1>5, <1>9, <1>10, KeepsTwice

\* Every unfinished task of the page is polled after the polling effect.
LEMMA PollEffectKeeps ==
  ASSUME PageAssumption, IInv, NEW fs, Flying(fs, exists, gsession, proj, chat)
  PROVE  /\ Flying(AfterPollEffect(fs), exists, gsession, proj, chat)
         /\ fs \subseteq AfterPollEffect(fs)
         /\ "poll" \in due /\ ws # None =>
              \A g \in DOMAIN ws.gens : ws.gens[g] \in Unfinished =>
                \E f \in AfterPollEffect(fs) : f.kind = "poll" /\ f.session = ws.active /\ f.item = g
<1>1. CASE "poll" \in due /\ Visible
  <2> DEFINE T == {h \in DOMAIN ws.gens :
                     /\ ws.gens[h] \in Unfinished
                     /\ ~\E f \in fs : f.kind = "poll" /\ f.session = ws.active /\ f.item = h}
             new(g) == Request("poll", proj, ws.active, g, FALSE, FALSE)
             N == {new(g) : g \in T}
  <2>1. AfterPollEffect(fs) = fs \cup N
    BY <1>1 DEF AfterPollEffect
  <2>2. /\ ws.active \in exists /\ ws.active \in Sessions /\ Owner[ws.active] = proj /\ proj \in Projects
        /\ \A g \in DOMAIN ws.gens : g \in Gens /\ gsession[g] = ws.active
    BY <1>1, ActiveIs DEF IInv, Base, GoodWorkspace
  <2>3. ASSUME NEW g \in T
        PROVE  /\ GoodFlight(new(g), exists, gsession, proj)
               /\ new(g).kind = "poll" /\ new(g).session = ws.active /\ new(g).item = g
    BY <2>2 DEF Request, GoodFlight, GoodRequest, Kinds, Mutating
  <2>4. \A g \in DOMAIN ws.gens : ws.gens[g] \in Unfinished =>
          g \in T \/ \E f \in fs : f.kind = "poll" /\ f.session = ws.active /\ f.item = g
    OBVIOUS
  <2> HIDE DEF T, new
  <2>5. \A f \in N : GoodFlight(f, exists, gsession, proj) /\ f.kind = "poll"
    BY <2>3
  <2>6. \A g \in T : \E f \in N : f.kind = "poll" /\ f.session = ws.active /\ f.item = g
    BY <2>3
  <2> HIDE DEF N
  <2>7. GoodFlights(fs \cup N, exists, gsession, proj)
    BY <2>5 DEF Flying, GoodFlights
  <2>8. Exclude(fs \cup N) /\ Unasked(fs \cup N, chat)
    BY <2>5 DEF Flying, Exclude, Unasked, Exclusive, SessionKinds
  <2>9. QED  BY <2>1, <2>4, <2>6, <2>7, <2>8 DEF Flying
<1>2. CASE ~("poll" \in due /\ Visible)
  BY <1>2, ActiveIs DEF AfterPollEffect
<1>3. QED  BY <1>1, <1>2

LEMMA EffectsKeep ==
  ASSUME PageAssumption, IInv, Effects
  PROVE  IInv'
<1>1. PICK fs : fs = AfterLoadEffect
  OBVIOUS
<1>2. /\ Flying(fs, exists, gsession, proj, chat)
      /\ KeepsSends(flights, fs) /\ KeepsPolls(flights, fs)
  BY <1>1, LoadEffectKeeps
<1>3. PICK u : u = AfterUrlEffect(fs)
  OBVIOUS
<1>4. UrlOutcome(u) /\ KeepsSends(fs, u.flights) /\ KeepsPolls(fs, u.flights)
  <2>1. CASE "url" \in due /\ Visible
    BY <1>2, <1>3, <2>1, UrlEffectKeeps DEF AfterUrlEffect
  <2>2. CASE ~("url" \in due /\ Visible)
    <3>1. u = [loc |-> loc, pend |-> pend, confirm |-> confirm, flights |-> fs]
      BY <1>3, <2>2 DEF AfterUrlEffect
    <3>2. u.flights = fs /\ UrlOutcome(u)
      BY <1>2, <3>1 DEF UrlOutcome, IInv, Base
    <3>3. QED  BY <3>2, MoreKeeps
  <2>3. QED  BY <2>1, <2>2
<1>5. /\ loc' = u.loc /\ pend' = u.pend /\ confirm' = u.confirm /\ flights' = AfterPollEffect(u.flights)
      /\ loading' = LoadingAfterEffect /\ due' = {}
      /\ UNCHANGED <<proj, req, ws, chat, image, answered, server, left>>
  BY <1>1, <1>3 DEF Effects
<1>6. LoadingAfterEffect \in BOOLEAN
  BY DEF LoadingAfterEffect, IInv, Base
<1>7. Base'
  BY <1>4, <1>5, <1>6 DEF IInv, Base, UrlOutcome, server
<1>8. /\ Flying(flights', exists, gsession, proj, chat) /\ u.flights \subseteq flights'
      /\ "poll" \in due /\ ws # None =>
              \A g \in DOMAIN ws.gens : ws.gens[g] \in Unfinished =>
                \E f \in flights' : f.kind = "poll" /\ f.session = ws.active /\ f.item = g
  BY <1>4, <1>5, PollEffectKeeps DEF UrlOutcome
<1>9. KeepsSends(flights, flights') /\ KeepsPolls(flights, flights')
  BY <1>2, <1>4, <1>8, MoreKeeps, KeepsTwice
<1>10. Streaming(ws, flights') /\ Polled(ws, flights', due, left["fail"])
  BY <1>9, StreamingStays, PolledStays, Parts
<1>11. Polled(ws, flights', {}, left["fail"])
  BY <1>8, <1>10 DEF Polled
<1>12. Shown(ws, exists, gsession, proj) /\ UNCHANGED <<exists, gsession>>
  BY <1>5, Parts DEF server
<1>13. QED  BY <1>5, <1>7, <1>8, <1>10, <1>11, <1>12 DEF IInv, Flying

-----------------------------------------------------------------------------
(* Continuations.                                                          *)

\* A workspace the server answered with is shown as it is, once it is polled.
LEMMA AnswerShown ==
  ASSUME NEW v, NEW ex, NEW gs, NEW pj, NEW fs, NEW du, NEW fails,
         GoodWorkspace(v, ex, gs), v.project = pj, AllStored(v), "poll" \in du
  PROVE  Shown(v, ex, gs, pj) /\ Streaming(v, fs) /\ Polled(v, fs, du, fails)
  BY DEF Shown, Streaming, Polled, AllStored

LEMMA LoadArrivesKeeps ==
  ASSUME PageAssumption, IInv, NEW f \in flights, LoadArrives(f)
  PROVE  IInv'
<1>1. /\ f.kind = "load" /\ flights' = flights \ {f}
      /\ UNCHANGED <<proj, req, chat, image, confirm, pend, answered, server, left>>
  BY DEF LoadArrives, Ended
<1>2. Flying(flights', exists, gsession, proj, chat)
  BY <1>1, Fewer, Parts
<1>3. GoodWorkspace(f.answer, exists, gsession) /\ f.answer.project = f.project /\ AllStored(f.answer)
  BY DEF LoadArrives, IInv, GoodFlights, GoodFlight, GoodAnswer
<1>4. UNCHANGED <<exists, gsession>>
  BY <1>1 DEF server
<1>5. CASE f.project = proj
  <2>1. ws' = f.answer /\ loc' \in {f.answer.active, loc} /\ loading' = FALSE /\ due' = due \cup {"url", "poll"}
    BY <1>5 DEF LoadArrives
  <2>2. f.answer.active \in Sessions
    BY <1>3 DEF GoodWorkspace, IInv, Base
  <2>3. Base'
    BY <1>1, <2>1, <2>2 DEF IInv, Base, server
  <2>4. Shown(ws', exists, gsession, proj) /\ Streaming(ws', flights') /\ Polled(ws', flights', due', left["fail"])
    BY <1>3, <1>5, <2>1, AnswerShown
  <2>5. QED  BY <1>1, <1>2, <1>4, <2>3, <2>4 DEF IInv, Flying
<1>6. CASE f.project # proj
  <2>1. UNCHANGED <<ws, loc, loading, due>>
    BY <1>6 DEF LoadArrives
  <2>2. Base'
    BY <1>1, <2>1 DEF IInv, Base, server
  <2>3. KeepsSends(flights, flights') /\ KeepsPolls(flights, flights')
    BY <1>1, EndKeeps
  <2>4. Streaming(ws, flights') /\ Polled(ws, flights', due, left["fail"]) /\ Shown(ws, exists, gsession, proj)
    BY <2>3, StreamingStays, PolledStays, Parts
  <2>5. QED  BY <1>1, <1>2, <1>4, <2>1, <2>2, <2>4 DEF IInv, Flying
<1>7. QED  BY <1>5, <1>6

LEMMA SessionArrivesKeeps ==
  ASSUME PageAssumption, IInv, NEW f \in flights, SessionArrives(f)
  PROVE  IInv'
<1> DEFINE S == {g \in flights \ {f} : g.live /\ g.kind \in {"poll", "regen", "image", "read"}}
<1>1. /\ f.kind \in {"switch", "create"} /\ f.live /\ f.answer # None
      /\ flights' = Abort(flights \ {f}, S)
      /\ ws' \in {f.answer, ws} /\ chat' = None /\ image' = None
      /\ loc' \in {loc, f.answer.active} /\ pend' \in {None, pend} /\ confirm' \in {None, confirm}
      /\ due' = due \cup {"url", "poll"}
      /\ UNCHANGED <<proj, req, loading, answered, server, left>>
  BY DEF SessionArrives, Ended
<1>2. /\ GoodWorkspace(f.answer, exists, gsession) /\ f.answer.project = f.project /\ AllStored(f.answer)
      /\ f.project = proj
  BY <1>1 DEF IInv, GoodFlights, GoodFlight, GoodAnswer, GoodRequest
<1>3. f.answer.active \in Sessions
  BY <1>2 DEF GoodWorkspace, IInv, Base
<1>4. Base'
  BY <1>1, <1>3 DEF IInv, Base, server
<1>5. S \in SUBSET (flights \ {f}) /\ \A g \in S : g.kind # "send"
  OBVIOUS
<1> HIDE DEF S
<1>6. Flying(flights \ {f}, exists, gsession, proj, chat)
  BY Fewer, Parts
<1>7. Flying(flights', exists, gsession, proj, chat)
  BY <1>1, <1>5, <1>6, Aborted
<1>8. Unasked(flights', None)
  BY DEF Unasked
<1>9. KeepsSends(flights, flights \ {f}) /\ KeepsSends(flights \ {f}, flights')
  BY <1>1, <1>5, EndKeeps, AbortKeeps
<1>10. Shown(ws', exists, gsession, proj) /\ Streaming(ws', flights') /\ Polled(ws', flights', due', left["fail"])
  <2>1. CASE ws' = f.answer
    BY <1>1, <1>2, <2>1, AnswerShown
  <2>2. CASE ws' = ws
    <3>1. Streaming(ws, flights') /\ Shown(ws, exists, gsession, proj)
      BY <1>9, KeepsTwice, StreamingStays, Parts
    <3>2. Polled(ws, flights', due', left["fail"])
      BY <1>1 DEF Polled
    <3>3. QED  BY <2>2, <3>1, <3>2
  <2>3. QED  BY <1>1, <2>1, <2>2
<1>11. QED  BY <1>1, <1>4, <1>7, <1>8, <1>10 DEF IInv, Flying, server

LEMMA ClearArrivesKeeps ==
  ASSUME PageAssumption, IInv, NEW f \in flights, ClearArrives(f)
  PROVE  IInv'
<1>1. /\ f.kind = "clear" /\ f.live /\ f.answer # None /\ flights' = flights \ {f}
      /\ ws' = f.answer /\ confirm' = None /\ due' = due \cup {"url", "poll"}
      /\ UNCHANGED <<proj, loc, req, loading, chat, image, pend, answered, server, left>>
  BY DEF ClearArrives, Ended
<1>2. /\ GoodWorkspace(f.answer, exists, gsession) /\ f.answer.project = f.project /\ AllStored(f.answer)
      /\ f.project = proj
  BY <1>1 DEF IInv, GoodFlights, GoodFlight, GoodAnswer, GoodRequest
<1>3. Base'
  BY <1>1 DEF IInv, Base, server
<1>4. Flying(flights', exists, gsession, proj, chat)
  BY <1>1, Fewer, Parts
<1>5. Shown(ws', exists, gsession, proj) /\ Streaming(ws', flights') /\ Polled(ws', flights', due', left["fail"])
  BY <1>1, <1>2, AnswerShown
<1>6. QED  BY <1>1, <1>3, <1>4, <1>5 DEF IInv, Flying, server

LEMMA DeltaKeeps ==
  ASSUME PageAssumption, IInv, NEW f \in flights, StreamDelta(f)
  PROVE  IInv'
<1>1. Base'
  BY DEF IInv, Base, StreamDelta, server
<1>2. QED  BY <1>1, Still DEF StreamDelta, server

\* The refresh of the session list replaces the one under way.
LEMMA RefreshKeeps ==
  ASSUME PageAssumption, NEW fs, NEW s \in Sessions, proj \in Projects,
         Flying(fs, exists, gsession, proj, chat)
  PROVE  /\ Flying(WithMetadataRefresh(fs, s), exists, gsession, proj, chat)
         /\ \A f \in fs : f.kind # "meta" => f \in WithMetadataRefresh(fs, s)
<1>1. PICK r : r = Request("meta", proj, s, None, FALSE, FALSE)
  OBVIOUS
<1>2. GoodFlight(r, exists, gsession, proj) /\ r.kind = "meta"
  BY <1>1 DEF Request, GoodFlight, GoodRequest, Kinds, Mutating
<1>3. PICK some : some = fs \ {f \in fs : f.kind = "meta"}
  OBVIOUS
<1>4. Flying(some, exists, gsession, proj, chat)
  BY <1>3, Fewer
<1>5. Flying(some \cup {r}, exists, gsession, proj, chat)
  BY <1>2, <1>4, OneMore DEF Exclusive, SessionKinds
<1>6. WithMetadataRefresh(fs, s) = some \cup {r}
  BY <1>1, <1>3 DEF WithMetadataRefresh
<1>7. QED  BY <1>3, <1>5, <1>6

\* A send of a session that is not in front is not missed.
LEMMA OtherSendEnds ==
  ASSUME IInv, NEW f \in flights, f.kind = "send" => f.session # Active
  PROVE  Streaming(ws, flights \ {f})
  BY ActiveIs DEF IInv, Streaming, GoodWorkspace

LEMMA CompletesKeeps ==
  ASSUME PageAssumption, IInv, NEW f \in flights, StreamCompletes(f)
  PROVE  IInv'
<1>1. /\ f.kind = "send" /\ f.live /\ f.answer # None
      /\ UNCHANGED <<proj, loc, req, loading, chat, image, confirm, pend, server, left>>
  BY DEF StreamCompletes
<1>2. /\ f.session \in exists /\ f.session \in Sessions /\ f.item \in Turns /\ f.session # None
      /\ f.answer.turn = f.item /\ f.answer.session = f.session /\ f.answer.stored = TRUE
  BY <1>1 DEF IInv, Base, GoodFlights, GoodFlight, GoodAnswer, GoodRequest, PageAssumption
<1>3. Flying(flights \ {f}, exists, gsession, proj, chat) /\ proj \in Projects
  BY Fewer, Parts DEF Base
<1>4. KeepsPolls(flights, flights \ {f})
  BY <1>1, EndKeeps
<1>5. CASE f.session = Active
  <2>1. PICK ms : ms = {IF m.turn = f.item THEN f.answer ELSE m : m \in ws.messages}
    OBVIOUS
  <2>2. /\ ws' = [ws EXCEPT !.messages = ms]
        /\ answered' = answered \cup {f.item}
        /\ flights' = WithMetadataRefresh(flights \ {f}, f.session)
        /\ due' = due \cup {"url"}
    BY <1>5, <2>1, Zenon DEF StreamCompletes, Ended
  <2>3. ws # None /\ Active = ws.active /\ GoodWorkspace(ws, exists, gsession) /\ ws.project = proj
    BY <1>2, <1>5, ActiveIs
  <2>4. \A x \in ms : x = f.answer \/ (x \in ws.messages /\ x.turn # f.item)
    BY <2>1
  <2>5. \A x \in ms : x.session = ws.active
    BY <1>2, <1>5, <2>3, <2>4 DEF GoodWorkspace
  <2>6. OtherMessages(ws', ws, ms)
    BY <2>2, <2>3, MessagesChange, Zenon DEF GoodWorkspace, IsRecord
  <2>7. GoodWorkspace(ws', exists, gsession)
    BY <2>3, <2>5, <2>6, MessagesOfSession, Zenon
  <2>8. /\ Flying(flights', exists, gsession, proj, chat)
        /\ \A g \in flights \ {f} : g.kind # "meta" => g \in flights'
    BY <1>2, <1>3, <2>2, RefreshKeeps
  <2>9. KeepsPolls(flights, flights')
    BY <1>4, <2>8 DEF KeepsPolls
  <2>10. Streaming(ws', flights')
    <3>1. SUFFICES ASSUME NEW x \in ms, x # f.answer
                   PROVE  x.stored \/ \E g \in flights' : g.live /\ g.kind = "send" /\ g.item = x.turn /\ g.session = x.session
      BY <1>2, <2>6 DEF Streaming, OtherMessages
    <3>2. x \in ws.messages /\ x.turn # f.item
      BY <2>4, <3>1
    <3>3. x.stored \/ \E g \in flights : g.live /\ g.kind = "send" /\ g.item = x.turn /\ g.session = x.session
      BY <2>3, <3>2 DEF IInv, Streaming
    <3>4. QED  BY <2>8, <3>2, <3>3
  <2>11. Polled(ws', flights', due', left["fail"])
    <3>1. due \subseteq due' /\ ws'.active = ws.active /\ ws'.gens = ws.gens /\ ws # None
      BY <2>2, <2>3, <2>6 DEF OtherMessages
    <3>2. Polled(ws, flights, due, left["fail"])
      BY Parts
    <3>3. QED  BY <2>9, <3>1, <3>2, PolledOther
  <2>12. Shown(ws', exists, gsession, proj)
    BY <2>3, <2>6, <2>7 DEF Shown, OtherMessages
  <2>13. Base'
    BY <1>1, <1>2, <2>2 DEF IInv, Base, server
  <2>14. QED  BY <1>1, <2>8, <2>10, <2>11, <2>12, <2>13 DEF IInv, Flying, server
<1>6. CASE f.session # Active
  <2>1. flights' = flights \ {f} /\ UNCHANGED <<ws, answered, due>>
    BY <1>6 DEF StreamCompletes, Ended
  <2>2. Base'
    BY <1>1, <2>1 DEF IInv, Base, server
  <2>3. Streaming(ws, flights') /\ Polled(ws, flights', due, left["fail"]) /\ Shown(ws, exists, gsession, proj)
    BY <1>4, <1>6, <2>1, OtherSendEnds, PolledStays, Parts
  <2>4. QED  BY <1>1, <1>3, <2>1, <2>2, <2>3 DEF IInv, Flying, server
<1>7. QED  BY <1>5, <1>6

\* Workspace v is w with another status of task g.
OtherTasks(v, w, g) ==
  /\ IsRecord(v) /\ v.messages = w.messages /\ v.project = w.project
  /\ v.active = w.active /\ v.sessions = w.sessions
  /\ \A h \in DOMAIN v.gens : h \in DOMAIN w.gens \/ h = g

\* updateGeneration changes the tasks of the session in front, and then has them polled.
LEMMA UpdateShows ==
  ASSUME PageAssumption, IInv, NEW f, NEW a, UpdateGeneration(f, a), a.id \in Gens, gsession[a.id] = f.session
  PROVE  /\ Shown(ws', exists, gsession, proj)
         /\ \A fs : Streaming(ws, fs) => Streaming(ws', fs)
         /\ due \subseteq due' /\ due' \subseteq {"load", "url", "poll"}
         /\ \/ "poll" \in due'
            \/ /\ UNCHANGED <<ws, due>>
               /\ ~(Visible /\ ws.project = f.project /\ ws.active = f.session)
<1>1. CASE Visible /\ ws.project = f.project /\ ws.active = f.session
  <2>1. PICK gens : gens = [g \in DOMAIN ws.gens \cup {a.id} |-> IF g = a.id THEN a.status ELSE ws.gens[g]]
    OBVIOUS
  <2>2. ws' = [ws EXCEPT !.gens = gens]
    BY <1>1, <2>1, Zenon DEF UpdateGeneration
  <2>3. due' = due \cup {"url", "poll"}
    BY <1>1 DEF UpdateGeneration
  <2>4. ws # None /\ GoodWorkspace(ws, exists, gsession) /\ ws.project = proj /\ IsRecord(ws)
    BY <1>1, ActiveIs DEF GoodWorkspace, IsRecord
  <2>5. ws' = [project |-> ws.project, active |-> ws.active, sessions |-> ws.sessions,
               messages |-> ws.messages, gens |-> gens]
    BY <2>2, <2>4, WorkspaceChanges, Zenon
  <2>6. DOMAIN gens = DOMAIN ws.gens \cup {a.id}
    BY <2>1
  <2>7. OtherTasks(ws', ws, a.id)
    BY <2>5, <2>6 DEF OtherTasks, IsRecord
  <2>8. GoodWorkspace(ws', exists, gsession)
    BY <1>1, <2>4, <2>7 DEF GoodWorkspace, OtherTasks, IsRecord
  <2>9. Shown(ws', exists, gsession, proj)
    BY <2>4, <2>7, <2>8 DEF Shown, OtherTasks
  <2>10. \A fs : Streaming(ws, fs) => Streaming(ws', fs)
    BY <2>4, <2>7 DEF Streaming, OtherTasks
  <2>11. QED  BY <2>3, <2>9, <2>10 DEF IInv, Base
<1>2. CASE ~(Visible /\ ws.project = f.project /\ ws.active = f.session)
  <2>1. UNCHANGED <<ws, due>>
    BY <1>2 DEF UpdateGeneration
  <2>2. QED  BY <1>2, <2>1 DEF IInv, Base
<1>3. QED  BY <1>1, <1>2

LEMMA ImageArrivesKeeps ==
  ASSUME PageAssumption, IInv, NEW f \in flights, ImageArrives(f)
  PROVE  IInv'
<1>1. /\ f.kind \in {"image", "regen"} /\ f.live /\ f.answer # None
      /\ UNCHANGED <<proj, loc, req, loading, chat, confirm, pend, answered, server, left>>
  BY DEF ImageArrives
<1>2. /\ f.session \in Sessions /\ f.session # None /\ Owner[f.session] = f.project
      /\ f.answer.id \in Gens /\ gsession[f.answer.id] = f.session
  BY <1>1 DEF IInv, Base, GoodFlights, GoodFlight, GoodAnswer, GoodRequest, PageAssumption
<1>3. Flying(flights \ {f}, exists, gsession, proj, chat) /\ proj \in Projects
  BY Fewer, Parts DEF Base
<1>4. KeepsPolls(flights, flights \ {f}) /\ KeepsSends(flights, flights \ {f})
  BY <1>1, EndKeeps
<1>5. CASE f.session = Active
  <2>1. /\ UpdateGeneration(f, f.answer) /\ image' \in {None, image}
        /\ flights' = WithMetadataRefresh(flights \ {f}, f.session)
    BY <1>5 DEF ImageArrives, Ended
  <2>2. /\ Shown(ws', exists, gsession, proj)
        /\ \A fs : Streaming(ws, fs) => Streaming(ws', fs)
        /\ due \subseteq due' /\ due' \subseteq {"load", "url", "poll"}
        /\ "poll" \in due' \/ UNCHANGED <<ws, due>>
    BY <1>2, <2>1, UpdateShows
  <2>3. /\ Flying(flights', exists, gsession, proj, chat)
        /\ \A g \in flights \ {f} : g.kind # "meta" => g \in flights'
    BY <1>2, <1>3, <2>1, RefreshKeeps
  <2>4. KeepsPolls(flights, flights') /\ KeepsSends(flights, flights')
    BY <1>4, <2>3 DEF KeepsPolls, KeepsSends
  <2>5. Streaming(ws', flights')
    BY <2>2, <2>4, StreamingStays, Parts
  <2>6. Polled(ws', flights', due', left["fail"])
    <3>1. CASE "poll" \in due'
      BY <3>1 DEF Polled
    <3>2. CASE UNCHANGED <<ws, due>>
      BY <2>4, <3>2, PolledStays, Parts
    <3>3. QED  BY <2>2, <3>1, <3>2
  <2>7. Base'
    BY <1>1, <2>1, <2>2 DEF IInv, Base, server
  <2>8. QED  BY <1>1, <2>2, <2>3, <2>5, <2>6, <2>7 DEF IInv, Flying, server
<1>6. CASE f.session # Active
  <2>1. flights' = flights \ {f} /\ UNCHANGED <<ws, due, image>>
    BY <1>6 DEF ImageArrives, Ended
  <2>2. Base'
    BY <1>1, <2>1 DEF IInv, Base, server
  <2>3. Streaming(ws, flights') /\ Polled(ws, flights', due, left["fail"]) /\ Shown(ws, exists, gsession, proj)
    BY <1>4, <2>1, StreamingStays, PolledStays, Parts
  <2>4. QED  BY <1>1, <1>3, <2>1, <2>2, <2>3 DEF IInv, Flying, server
<1>7. QED  BY <1>5, <1>6

LEMMA PollArrivesKeeps ==
  ASSUME PageAssumption, IInv, NEW f \in flights, PollArrives(f)
  PROVE  IInv'
<1>1. /\ f.kind = "poll" /\ f.answer # None /\ UpdateGeneration(f, f.answer)
      /\ UNCHANGED <<proj, loc, req, loading, chat, image, confirm, pend, answered, server, left>>
  BY DEF PollArrives
<1>2. /\ GoodRequest(f, exists, gsession, proj)
      /\ f.session \in Sessions /\ Owner[f.session] = f.project
      /\ f.answer.id = f.item /\ f.item \in Gens /\ gsession[f.item] = f.session
  BY <1>1 DEF IInv, Base, GoodFlights, GoodFlight, GoodAnswer, GoodRequest
<1>3. /\ Shown(ws', exists, gsession, proj)
      /\ \A fs : Streaming(ws, fs) => Streaming(ws', fs)
      /\ due \subseteq due' /\ due' \subseteq {"load", "url", "poll"}
      /\ \/ "poll" \in due'
         \/ /\ UNCHANGED <<ws, due>>
            /\ ~(Visible /\ ws.project = f.project /\ ws.active = f.session)
  BY <1>1, <1>2, UpdateShows
<1>4. PICK h : h = [f EXCEPT !.answer = None]
  OBVIOUS
<1>5. GoodFlight(h, exists, gsession, proj) /\ SameRequest(f, h) /\ h.live = f.live
  BY <1>2, <1>4, AnsweredIsGood, Zenon
<1>6. flights' = (flights \ {f}) \cup {h} \/ flights' = flights \ {f}
  BY <1>4 DEF PollArrives, Ended
<1>7. Flying(flights, exists, gsession, proj, chat)
  BY Parts
<1>8. Flying(flights', exists, gsession, proj, chat)
  BY <1>5, <1>6, <1>7, Fewer, OneChanged
<1>9. KeepsSends(flights, flights')
  BY <1>1, <1>6 DEF KeepsSends
<1>10. Streaming(ws', flights')
  BY <1>3, <1>9, StreamingStays, Parts
<1>11. Polled(ws', flights', due', left["fail"])
  <2>1. CASE "poll" \in due'
    BY <2>1 DEF Polled
  <2>2. CASE UNCHANGED <<ws, due>> /\ ~(Visible /\ ws.project = f.project /\ ws.active = f.session)
    <3>1. ws # None => f.session # ws.active
      BY <1>2, <2>2, ActiveIs DEF GoodWorkspace
    <3>2. Polled(ws, flights', due, left["fail"])
      BY <1>6, <3>1, Parts DEF Polled
    <3>3. QED  BY <2>2, <3>2
  <2>3. QED  BY <1>3, <2>1, <2>2
<1>12. Base'
  BY <1>1, <1>3 DEF IInv, Base, server
<1>13. QED  BY <1>1, <1>3, <1>8, <1>10, <1>11, <1>12 DEF IInv, Flying, server

LEMMA MetadataKeeps ==
  ASSUME PageAssumption, IInv, NEW f \in flights, MetadataArrives(f)
  PROVE  IInv'
<1>1. /\ f.kind = "meta" /\ f.answer # None /\ flights' = flights \ {f}
      /\ UNCHANGED <<proj, loc, req, loading, chat, image, confirm, pend, answered, server, left>>
  BY DEF MetadataArrives, Ended
<1>2. Flying(flights', exists, gsession, proj, chat)
  BY <1>1, Fewer, Parts
<1>3. KeepsPolls(flights, flights') /\ KeepsSends(flights, flights')
  BY <1>1, EndKeeps
<1>4. GoodWorkspace(f.answer, exists, gsession)
  BY <1>1 DEF IInv, GoodFlights, GoodFlight, GoodAnswer
<1>5. CASE UNCHANGED <<ws, due>>
  <2>1. Base'
    BY <1>1, <1>5 DEF IInv, Base, server
  <2>2. Streaming(ws, flights') /\ Polled(ws, flights', due, left["fail"]) /\ Shown(ws, exists, gsession, proj)
    BY <1>3, StreamingStays, PolledStays, Parts
  <2>3. QED  BY <1>1, <1>2, <1>5, <2>1, <2>2 DEF IInv, Flying, server
<1>6. CASE /\ f.session = Active /\ f.answer.active = f.session
           /\ ws' = [ws EXCEPT !.sessions = f.answer.sessions] /\ due' = due \cup {"url"}
  <2>1. f.answer.active \in Sessions /\ f.answer.active # None
    BY <1>4 DEF GoodWorkspace, IInv, Base, PageAssumption
  <2>2. ws # None /\ ws.active = f.answer.active /\ GoodWorkspace(ws, exists, gsession) /\ ws.project = proj
    BY <1>6, <2>1, ActiveIs
  <2>3. IsRecord(ws)
    BY <2>2 DEF GoodWorkspace, IsRecord
  <2>4. PICK ss : ss = f.answer.sessions
    OBVIOUS
  <2>5. ws' = [project |-> ws.project, active |-> ws.active, sessions |-> ss,
               messages |-> ws.messages, gens |-> ws.gens]
    BY <1>6, <2>3, <2>4, WorkspaceChanges, Zenon
  <2>6. /\ IsRecord(ws') /\ ws'.project = ws.project /\ ws'.active = ws.active /\ ws'.sessions = ss
        /\ ws'.messages = ws.messages /\ ws'.gens = ws.gens
    BY <2>5 DEF IsRecord
  <2>7. GoodWorkspace(ws', exists, gsession)
    BY <1>4, <2>2, <2>4, <2>6 DEF GoodWorkspace, IsRecord
  <2>8. Shown(ws', exists, gsession, proj)
    BY <2>2, <2>6, <2>7 DEF Shown
  <2>9. Streaming(ws, flights') /\ Polled(ws, flights, due, left["fail"])
    BY <1>3, StreamingStays, Parts
  <2>10. Streaming(ws', flights')
    BY <2>2, <2>6, <2>9 DEF Streaming
  <2>11. due \subseteq due'
    BY <1>6
  <2>12. Polled(ws', flights', due', left["fail"])
    BY <1>3, <2>2, <2>6, <2>9, <2>11, PolledOther
  <2>13. Base'
    BY <1>1, <1>6 DEF IInv, Base, server
  <2>14. QED  BY <1>1, <1>2, <2>8, <2>10, <2>12, <2>13 DEF IInv, Flying, server
<1>7. QED  BY <1>5, <1>6 DEF MetadataArrives

LEMMA AttachmentsKeep ==
  ASSUME PageAssumption, IInv, NEW f \in flights, AttachmentsArrive(f)
  PROVE  IInv'
<1>1. /\ f.kind = "read" /\ flights' = flights \ {f} /\ chat' \in {f.session, chat}
      /\ due' = due \cup {"url"}
      /\ UNCHANGED <<proj, loc, req, loading, ws, image, confirm, pend, answered, server, left>>
  BY DEF AttachmentsArrive, Ended
<1>2. f.session \in Sessions /\ f.live
  BY <1>1 DEF IInv, Base, GoodFlights, GoodFlight, GoodRequest, Mutating
<1>3. Base'
  BY <1>1, <1>2 DEF IInv, Base, server
<1>4. Flying(flights', exists, gsession, proj, chat)
  BY <1>1, Fewer, Parts
<1>5. Unasked(flights', chat')
  BY <1>1, <1>2 DEF IInv, Exclude, Unasked, SessionKinds
<1>6. KeepsPolls(flights, flights') /\ KeepsSends(flights, flights')
  BY <1>1, EndKeeps
<1>7. Streaming(ws, flights') /\ Polled(ws, flights', due', left["fail"]) /\ Shown(ws, exists, gsession, proj)
  BY <1>1, <1>6, StreamingStays, PolledStays, Parts
<1>8. QED  BY <1>1, <1>3, <1>4, <1>5, <1>7 DEF IInv, Flying, server

LEMMA FailKeeps ==
  ASSUME PageAssumption, IInv, NEW f \in flights, RequestFails(f)
  PROVE  IInv'
<1>1. /\ f.live /\ f.answer = None /\ f.kind # "read" /\ flights' = flights \ {f} /\ Spend("fail")
      /\ UNCHANGED <<proj, req, image, answered, server>>
  BY DEF RequestFails, Ended
<1>2. Base /\ "fail" \in DOMAIN Budget
  BY DEF IInv, PageAssumption
<1>3. left' \in [DOMAIN Budget -> Nat] /\ left'["fail"] <= Budget["fail"] /\ left'["fail"] # Budget["fail"]
  BY <1>1, <1>2, SpendKeeps
<1>4. Active \in Sessions \cup {None}
  BY <1>2, ActiveIs DEF GoodWorkspace, Base
<1>5. loading' \in BOOLEAN /\ loc' \in Sessions \cup {None, Gone} /\ pend' \in {None, pend} /\ confirm' \in {None, confirm}
  BY <1>2, <1>4 DEF RequestFails, Base
<1>6. Polled(ws', flights', due', left'["fail"])
  BY <1>3 DEF Polled
<1>7. Flying(flights', exists, gsession, proj, chat)
  BY <1>1, Fewer, Parts
<1>8. CASE f.kind = "send" /\ f.session = Active
  <2>1. PICK ms : ms = {m \in ws.messages : m.turn # f.item}
    OBVIOUS
  <2>2. ws' = [ws EXCEPT !.messages = ms] /\ chat' = f.session /\ due' = due \cup {"url"}
    BY <1>8, <2>1, Zenon DEF RequestFails
  <2>3. f.session \in Sessions /\ f.session # None
    BY <1>2, <1>8 DEF IInv, Base, GoodFlights, GoodFlight, GoodRequest, PageAssumption
  <2>4. ws # None /\ GoodWorkspace(ws, exists, gsession) /\ ws.project = proj
    BY <1>8, <2>3, ActiveIs
  <2>5. \A x \in ms : x.session = ws.active /\ x \in ws.messages /\ x.turn # f.item
    BY <2>1, <2>4 DEF GoodWorkspace
  <2>6. OtherMessages(ws', ws, ms)
    BY <2>2, <2>4, MessagesChange, Zenon DEF GoodWorkspace, IsRecord
  <2>7. GoodWorkspace(ws', exists, gsession)
    BY <2>4, <2>5, <2>6, MessagesOfSession, Zenon
  <2>8. Shown(ws', exists, gsession, proj)
    BY <2>4, <2>6, <2>7 DEF Shown, OtherMessages
  <2>9. Streaming(ws', flights')
    <3>1. SUFFICES ASSUME NEW x \in ms
                   PROVE  x.stored \/ \E g \in flights' : g.live /\ g.kind = "send" /\ g.item = x.turn /\ g.session = x.session
      BY <2>6 DEF Streaming, OtherMessages
    <3>2. x.stored \/ \E g \in flights : g.live /\ g.kind = "send" /\ g.item = x.turn /\ g.session = x.session
      BY <2>4, <2>5, <3>1 DEF IInv, Streaming
    <3>3. QED  BY <1>1, <2>5, <3>1, <3>2
  <2>10. Unasked(flights', chat')
    BY <1>1, <1>8 DEF IInv, Exclude, Unasked, Exclusive, SessionKinds
  <2>11. Base'
    BY <1>1, <1>2, <1>3, <1>5, <2>2, <2>3 DEF Base, server
  <2>12. QED  BY <1>1, <1>6, <1>7, <2>8, <2>9, <2>10, <2>11 DEF IInv, Flying, server
<1>9. CASE ~(f.kind = "send" /\ f.session = Active)
  <2>1. UNCHANGED <<ws, chat, due>>
    BY <1>9 DEF RequestFails
  <2>2. Streaming(ws, flights') /\ Shown(ws, exists, gsession, proj)
    BY <1>1, <1>9, OtherSendEnds, Parts
  <2>3. Base'
    BY <1>1, <1>2, <1>3, <1>5, <2>1 DEF Base, server
  <2>4. QED  BY <1>1, <1>6, <1>7, <2>1, <2>2, <2>3 DEF IInv, Flying, server
<1>10. QED  BY <1>8, <1>9

-----------------------------------------------------------------------------
(* The invariant and what it says.                                         *)

LEMMA StartIsGood ==
  ASSUME PageAssumption, Init
  PROVE  IInv
<1>1. loc \in Sessions \cup {None, Gone} /\ left \in [DOMAIN Budget -> Nat] /\ left["fail"] <= Budget["fail"]
  BY DEF Init, PageAssumption
<1>2. stored \in [Sessions -> SUBSET Turns] /\ updated \in [Sessions -> 0..MaxUpdates]
  BY DEF Init, PageAssumption
<1>3. gsession \in [Gens -> Sessions \cup {None}] /\ DOMAIN gstat = Gens
  BY DEF Init
<1>4. Base
  BY <1>1, <1>2, <1>3 DEF Init, Base, PageAssumption
<1>5. QED
  BY <1>4 DEF Init, IInv, GoodFlights, Shown, Exclude, Streaming, Polled, Unasked

LEMMA UserKeeps ==
  ASSUME PageAssumption, IInv, User
  PROVE  IInv'
  BY NavigateKeeps, ChangeProjectKeeps, TypeKeeps, PromptKeeps, AttachKeeps, SwitchKeeps,
     NewSessionKeeps, ClearKeeps, ConfirmOkKeeps, ConfirmCancelKeeps, SendKeeps, SubmitKeeps,
     RegenerateKeeps
  DEF User

LEMMA ArrivesKeeps ==
  ASSUME PageAssumption, IInv, NEW f \in flights, Arrives(f)
  PROVE  IInv'
  BY LoadArrivesKeeps, SessionArrivesKeeps, ClearArrivesKeeps, CompletesKeeps, ImageArrivesKeeps,
     PollArrivesKeeps, MetadataKeeps, AttachmentsKeep
  DEF Arrives

LEMMA StutterKeeps ==
  ASSUME IInv, UNCHANGED vars
  PROVE  IInv'
<1>1. Base'
  BY DEF IInv, Base, vars, client, server
<1>2. UNCHANGED <<ws, flights, due, left, chat, proj, exists, gsession>>
  BY DEF vars, client, server
<1>3. QED  BY <1>1, <1>2 DEF IInv

\* Every step of the page, of the server and of the worker keeps the invariant.
LEMMA StepKeeps ==
  ASSUME PageAssumption, IInv, [Next]_vars
  PROVE  IInv'
<1>1. CASE Next
  BY <1>1, UserKeeps, EffectsKeep, CommitKeeps, WorkerKeeps, ServeKeeps, ArrivesKeeps, DeltaKeeps, FailKeeps
  DEF Next
<1>2. CASE UNCHANGED vars
  BY <1>2, StutterKeeps
<1>3. QED  BY <1>1, <1>2

\* The requests under way, the workspace on the page and the draft always fit together
\* (index.jsx, its refs and its scope checks).
THEOREM WorkspaceInvariant == ASSUME PageAssumption PROVE Spec => []IInv
<1>1. Init => IInv
  BY StartIsGood
<1>2. IInv /\ [Next]_vars => IInv'
  BY StepKeeps
<1>3. QED  BY <1>1, <1>2, PTL DEF Spec

\* An answer, an event or a poll of another session or project never lands in the visible
\* one: messages and tasks on the page are those of the session in front, whose project is
\* the one of the route (the scope checks of index.jsx).
THEOREM ShownIsOfItsSession == ASSUME PageAssumption PROVE Spec => []ShownBelongsToSession
<1>1. IInv => ShownBelongsToSession
  BY DEF IInv, Shown, GoodWorkspace, ShownBelongsToSession, Visible
<1>2. QED  BY <1>1, WorkspaceInvariant, PTL

\* Once the layout effect of a change of project has run, the page holds no workspace of
\* another project: the comparison of project ids in the render hides nothing then.
PageIsOfItsProject == ws # None => Visible

THEOREM PageFollowsRoute == ASSUME PageAssumption PROVE Spec => []PageIsOfItsProject
<1>1. IInv => PageIsOfItsProject
  BY DEF IInv, Shown, Visible, PageIsOfItsProject
<1>2. QED  BY <1>1, WorkspaceInvariant, PTL

\* A session change, a send and an image submission exclude each other, and no session changes
\* while a task is regenerated or attachments are read: the refs of index.jsx and its disabled
\* buttons agree in every interleaving.
THEOREM OneOperation == ASSUME PageAssumption PROVE Spec => []OperationsExclude
<1>1. IInv => OperationsExclude
  <2>1. SUFFICES ASSUME IInv PROVE OperationsExclude
    OBVIOUS
  <2>2. PICK L : L = Live(SessionKinds \cup {"send", "image"})
    OBVIOUS
  <2>3. \A f, g \in L : f = g
    BY <2>1, <2>2 DEF IInv, Exclude, Live, Exclusive
  <2>4. Cardinality(L) <= 1
    <3>1. CASE L = {}
      BY <3>1, FS_EmptySet
    <3>2. CASE L # {}
      <4>1. PICK f : f \in L
        BY <3>2
      <4>2. L = {f}
        BY <2>3, <4>1
      <4>3. Cardinality({f}) = 1
        BY FS_Singleton
      <4>4. QED  BY <4>2, <4>3
    <3>3. QED  BY <3>1, <3>2
  <2>5. Live(SessionKinds) # {} => Live({"regen", "read"}) = {}
    BY <2>1 DEF IInv, Exclude, Live
  <2>6. QED  BY <2>2, <2>4, <2>5 DEF OperationsExclude
<1>2. QED  BY <1>1, WorkspaceInvariant, PTL

\* A message still marked as streaming has its request, whatever was aborted, failed or came
\* out of order: none is left spinning.
THEOREM NothingSpins == ASSUME PageAssumption PROVE Spec => []StreamingHasRequest
<1>1. IInv => StreamingHasRequest
  BY DEF IInv, Streaming, StreamingHasRequest, Live, Visible
<1>2. QED  BY <1>1, WorkspaceInvariant, PTL

\* An unfinished task on the page is polled once the effects have run, as long as no request
\* was refused.
THEOREM TasksArePolled == ASSUME PageAssumption PROVE Spec => []UnfinishedIsPolled
<1>1. IInv => UnfinishedIsPolled
  BY DEF IInv, Polled, UnfinishedIsPolled, Visible
<1>2. QED  BY <1>1, WorkspaceInvariant, PTL

\* A chat draft goes only by being sent, by a change of project, or by a session change the
\* user agreed to in the dialog (confirmDraftDiscard).
THEOREM DraftsAreKept == ASSUME PageAssumption PROVE Spec => [][DraftLostOnlyByConsent]_vars
<1>1. ASSUME IInv, Next, chat # None, chat' = None
      PROVE  \/ proj' # proj
             \/ \E f \in flights' \ flights : f.kind = "send"
             \/ \E f \in flights \ flights' : f.kind \in {"switch", "create"} /\ f.asked
  <2>1. ASSUME NEW t \in Turns, SendMessage(t)
        PROVE  \E f \in flights' \ flights : f.kind = "send"
    <3>1. PICK r : r = Request("send", proj, Active, t, FALSE, FALSE)
      OBVIOUS
    <3>2. r.kind = "send" /\ r.item = t
      BY <3>1 DEF Request
    <3>3. r \in flights' /\ \A f \in flights : f.item # t
      BY <2>1, <3>1 DEF SendMessage
    <3>4. QED  BY <3>2, <3>3
  <2>2. ASSUME NEW f \in flights, SessionArrives(f)
        PROVE  \E g \in flights \ flights' : g.kind \in {"switch", "create"} /\ g.asked
    <3>1. f.kind \in {"switch", "create"} /\ f.live
      BY <2>2 DEF SessionArrives
    <3>2. f.asked
      BY <1>1, <3>1 DEF IInv, Unasked
    <3>3. PICK fs, S : fs = Ended(f) /\ S = {g \in fs : g.live /\ g.kind \in {"poll", "regen", "image", "read"}}
      OBVIOUS
    <3>4. flights' = Abort(fs, S)
      BY <2>2, <3>3 DEF SessionArrives
    <3>5. GoodFlights(fs, exists, gsession, proj) /\ S \in SUBSET fs /\ f \notin fs
      BY <1>1, <3>3 DEF IInv, GoodFlights, Ended
    <3>6. f \notin flights'
      BY <3>1, <3>4, <3>5, AbortMembers
    <3>7. QED  BY <3>1, <3>2, <3>6
  <2>3. ASSUME NEW f \in flights, Arrives(f)
        PROVE  \E g \in flights \ flights' : g.kind \in {"switch", "create"} /\ g.asked
    <3>1. AttachmentsArrive(f) => FALSE
      <4>1. f.kind = "read" => f.session # None
        BY <1>1 DEF IInv, Base, GoodFlights, GoodFlight, GoodRequest, PageAssumption
      <4>2. QED  BY <1>1, <4>1 DEF AttachmentsArrive
    <3>2. SessionArrives(f)
      BY <1>1, <2>3, <3>1 DEF Arrives, LoadArrives, ClearArrives, StreamCompletes, ImageArrives,
         PollArrives, MetadataArrives
    <3>3. QED  BY <2>2, <3>2
  <2>4. ASSUME NEW f \in flights, RequestFails(f)
        PROVE  FALSE
    <3>1. f.kind = "send" => f.session # None
      BY <1>1 DEF IInv, Base, GoodFlights, GoodFlight, GoodRequest, PageAssumption
    <3>2. chat' \in {chat, f.session} /\ (f.kind = "send" \/ chat' = chat)
      BY <2>4 DEF RequestFails
    <3>3. QED  BY <1>1, <3>1, <3>2
  <2>5. ASSUME User, \A t \in Turns : ~SendMessage(t)
        PROVE  proj' # proj
    <3>1. TypeMessage => FALSE
      BY <1>1 DEF TypeMessage
    <3>2. QED
      BY <1>1, <2>5, <3>1 DEF User, Navigate, ChangeProject, TypePrompt, AddAttachments,
         RequestSessionSwitch, RequestNewSession, RequestClearSession, RequestSession, ConfirmOk,
         ConfirmCancel, SubmitImageGeneration, RegenerateGeneration, client
  <2>6. Effects \/ CommitUrl \/ (\E g \in Gens : WorkerEnds(g)) \/ (\E f \in flights : Serve(f) \/ StreamDelta(f)) => FALSE
    BY <1>1 DEF Effects, CommitUrl, WorkerEnds, Serve, StreamDelta, client
  <2>7. QED  BY <1>1, <2>1, <2>3, <2>4, <2>5, <2>6 DEF Next
<1>2. IInv /\ [Next]_vars => [DraftLostOnlyByConsent]_vars
  BY <1>1 DEF DraftLostOnlyByConsent
<1>3. QED  BY <1>2, WorkspaceInvariant, PTL DEF Spec

\* Every variable of the page and of its server keeps its type.
THEOREM WorkspaceTypes == ASSUME PageAssumption PROVE Spec => []TypeOK
<1>1. ASSUME IInv, NEW f \in flights
      PROVE  [x \in DOMAIN f \ {"answer"} |-> f[x]] \in Flights
  <2>1. GoodRequest(f, exists, gsession, proj)
    BY <1>1 DEF IInv, GoodFlights, GoodFlight
  <2>2. DOMAIN f \ {"answer"} = {"kind", "project", "session", "item", "byUrl", "asked", "live"}
    BY <2>1 DEF GoodRequest
  <2>3. PICK r : r = [x \in {"kind", "project", "session", "item", "byUrl", "asked", "live"} |-> f[x]]
    OBVIOUS
  <2>4. r = [kind |-> f.kind, project |-> f.project, session |-> f.session, item |-> f.item,
             byUrl |-> f.byUrl, asked |-> f.asked, live |-> f.live]
    BY <2>3
  <2>5. r \in Flights
    BY <2>1, <2>4 DEF GoodRequest, Flights, Kinds
  <2>6. QED  BY <2>2, <2>3, <2>5
<1>2. IInv => TypeOK
  <2>1. SUFFICES ASSUME IInv PROVE TypeOK
    OBVIOUS
  <2>2. {[x \in DOMAIN f \ {"answer"} |-> f[x]] : f \in flights} \subseteq Flights
    BY <1>1, <2>1
  <2>3. ws # None => ws.active \in DOMAIN ws.sessions /\ DOMAIN ws.sessions \subseteq Sessions
    BY <2>1 DEF IInv, Base, Shown, GoodWorkspace
  <2>4. QED  BY <2>1, <2>2, <2>3 DEF IInv, Base, TypeOK
<1>3. QED  BY <1>2, WorkspaceInvariant, PTL

=============================================================================
