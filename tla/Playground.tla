----------------------------- MODULE Playground ------------------------------
(***************************************************************************)
(* The playground page (web/src/pages/Playground, hooks/playground): a     *)
(* list of messages that the user, a streaming or plain request, dialogs   *)
(* and timers change, and its copy in localStorage.                        *)
(*                                                                         *)
(* No handler looks for the message it belongs to: deltas, completions,    *)
(* errors and Stop all change the LAST message.  A message remembers       *)
(* whose text it holds (`from') so that properties can tell.               *)
(* The user does nothing in the 100 ms before a resend (Calm).             *)
(***************************************************************************)
EXTENDS Naturals, SequencesExt

CONSTANTS None,
          MaxMessages,   \* bound on the length of the list
          MaxRequests,   \* bound on the requests of one page
          Budget         \* how often the user does each thing

VARIABLES message,   \* the list
          saved,     \* playground_messages in localStorage
          messageId, \* counter of generateMessageId, from 4 in every page
          requests,  \* requests under way: [id, stream, open]
          asked,     \* number of the last request
          source,    \* sseSourceRef.current
          timer,     \* what a 100 ms timer will do: "send", "regenerate"
          modal,     \* the open confirmation
          editing,   \* editingMessageId and the message it refers to
          strayed,   \* history: a stream or answer was left running behind the list
          left       \* remaining user actions

net  == <<requests, asked, source>>
ui   == <<timer, modal, editing, left>>
vars == <<message, saved, messageId, net, ui, strayed>>

Roles == {"user", "assistant", "system"}
Statuses == {"none", "loading", "incomplete", "complete", "error"}
Messages == [id : Nat, role : Roles, status : Statuses, from : SUBSET Nat, to : Nat]

-----------------------------------------------------------------------------
Msg(id, role, status, to) == [id |-> id, role |-> role, status |-> status, from |-> {}, to |-> to]
getDefaultMessages == <<Msg(2, "user", "none", 0), Msg(3, "assistant", "none", 0)>>

IsGenerating(m) == m.status \in {"loading", "incomplete"}
isAnyMessageGenerating == \E i \in DOMAIN message : IsGenerating(message[i])
LastGenerating == message # <<>> /\ IsGenerating(Last(message))

\* The list with its last message changed.
WithLast(m) == Append(Front(message), m)

Save(list) == saved' = list

\* MessageActions: the buttons of message i.
CanAct(i) == /\ ~isAnyMessageGenerating /\ modal = None /\ timer = None
             /\ editing # message[i]

\* Chat with showStopGenerate disables sending while the last message is generated.
CanSend == modal = None /\ timer = None /\ ~LastGenerating

Spend(what) == left[what] > 0 /\ left' = [left EXCEPT ![what] = @ - 1]

-----------------------------------------------------------------------------
(* Requests.                                                               *)

\* sendRequest: a stream takes sseSourceRef, whatever it held.
StartRequest(streams) ==
  /\ asked < MaxRequests
  /\ asked' = asked + 1
  /\ requests' = requests \cup {[id |-> asked + 1, stream |-> streams]}
  /\ source' = IF streams THEN asked + 1 ELSE source

\* onMessageSend: the user's message and a loading answer, saved with it.
AppendTurn(streams) ==
  /\ Len(message) + 2 <= MaxMessages
  /\ message' = message \o <<Msg(messageId, "user", "none", 0),
                             Msg(messageId + 1, "assistant", "loading", asked + 1)>>
  /\ messageId' = messageId + 2
  /\ Save(message')
  /\ StartRequest(streams)

onMessageSend(streams) ==
  /\ CanSend
  /\ Spend("send")
  /\ AppendTurn(streams)
  /\ UNCHANGED <<timer, modal, editing, strayed>>

\* handleMessageReset: back to before the turn, and send it again 100 ms later.
handleMessageReset(i) ==
  /\ CanAct(i)
  /\ LET turns == {j \in 1..i : message[j].role = "user"}
     IN /\ turns # {}
        /\ message' = SubSeq(message, 1, (CHOOSE j \in turns : \A k \in turns : k <= j) - 1)
  /\ Spend("reset")
  /\ timer' = "send"
  /\ UNCHANGED <<saved, messageId, net, modal, editing, strayed>>

TimerFires(streams) ==
  /\ timer # None
  /\ IF timer = "send"
     THEN AppendTurn(streams)
     ELSE /\ Len(message) < MaxMessages
          /\ message' = Append(message, Msg(messageId, "assistant", "loading", asked + 1))
          /\ messageId' = messageId + 1
          /\ StartRequest(streams)
          /\ UNCHANGED saved
  /\ timer' = None
  /\ UNCHANGED <<modal, editing, left, strayed>>

\* streamMessageUpdate, for a content or a reasoning delta.
streamMessageUpdate(r) ==
  /\ r.stream
  /\ IF LastGenerating /\ Last(message).role = "assistant"
     THEN message' = WithLast([Last(message) EXCEPT !.status = "incomplete", !.from = @ \cup {r.id}])
     ELSE UNCHANGED message
  /\ UNCHANGED <<saved, messageId, net, ui, strayed>>

\* [DONE], or an event that does not parse: completeMessage on a list that is not empty.
completeMessage(r, status) ==
  /\ r.stream /\ message # <<>>
  /\ requests' = requests \ {r}
  /\ source' = IF status = "complete" THEN None ELSE source
  /\ IF LastGenerating
     THEN /\ message' = WithLast([Last(message) EXCEPT !.status = status])
          /\ Save(message')
     ELSE UNCHANGED <<message, saved>>
  /\ UNCHANGED <<messageId, asked, ui, strayed>>

\* The error listener: the message ends as an error, and nothing is saved.
SourceFails(r) ==
  /\ r.stream
  /\ requests' = requests \ {r}
  /\ source' = None
  /\ message' = IF message # <<>> /\ Last(message).status \notin {"complete", "error"}
                THEN WithLast([Last(message) EXCEPT !.status = "error", !.from = @ \cup {r.id}])
                ELSE message
  /\ UNCHANGED <<saved, messageId, asked, ui, strayed>>

\* The connection ends without [DONE] and without an error: no listener changes the list.
SourceEnds(r) ==
  /\ r.stream
  /\ requests' = requests \ {r}
  /\ UNCHANGED <<message, saved, messageId, asked, source, ui, strayed>>

\* handleNonStreamRequest: the answer, or its error, goes to a loading last message.
handleNonStreamRequest(r, status) ==
  /\ ~r.stream
  /\ requests' = requests \ {r}
  /\ message' = IF message # <<>> /\ Last(message).status = "loading"
                THEN WithLast([Last(message) EXCEPT !.status = status, !.from = {r.id}])
                ELSE message
  /\ UNCHANGED <<saved, messageId, asked, source, ui, strayed>>

\* onStopGenerator: the stream is closed, a plain request is not.
onStopGenerator ==
  /\ LastGenerating /\ modal = None
  /\ Spend("stop")
  /\ requests' = {r \in requests : ~(r.stream /\ r.id = source)}
  /\ source' = None
  /\ message' = WithLast([Last(message) EXCEPT !.status = "complete"])
  /\ Save(message')
  /\ strayed' = (strayed \/ requests' # {})
  /\ UNCHANGED <<messageId, asked, timer, modal, editing>>

-----------------------------------------------------------------------------
(* Changes to the list.                                                    *)

\* handleClearMessages, at any time; a running stream goes on.
handleClearMessages ==
  /\ modal = None /\ timer = None /\ message # <<>>
  /\ Spend("clear")
  /\ message' = <<>>
  /\ Save(<<>>)
  /\ strayed' = (strayed \/ requests # {})
  /\ UNCHANGED <<messageId, net, timer, modal, editing>>

handleMessageDelete(i) ==
  /\ CanAct(i)
  /\ Spend("delete")
  /\ modal' = [kind |-> "delete", target |-> message[i], list |-> <<>>, at |-> i]
  /\ UNCHANGED <<message, saved, messageId, net, timer, editing, strayed>>

\* The dialog's onOk: a question goes with its answer, by position; anything else by id.
DeleteConfirmed ==
  /\ modal # None /\ modal.kind = "delete"
  /\ LET i == modal.at
         m == modal.target
     IN message' = IF m.role = "user" /\ i < Len(message) /\ message[i + 1].role = "assistant"
                   THEN RemoveAt(RemoveAt(message, i), i)
                   ELSE SelectSeq(message, LAMBDA x : x.id # m.id)
  /\ Save(message')
  /\ modal' = None
  /\ UNCHANGED <<messageId, net, timer, editing, left, strayed>>

handleRoleToggle(i) ==
  /\ CanAct(i) /\ message[i].role \in {"assistant", "system"}
  /\ Spend("toggle")
  /\ LET new == IF message[i].role = "assistant" THEN "system" ELSE "assistant"
     IN message' = [j \in DOMAIN message |->
                      IF message[j].id = message[i].id /\ message[j].role # "user"
                      THEN [message[j] EXCEPT !.role = new] ELSE message[j]]
  /\ Save(message')
  /\ UNCHANGED <<messageId, net, timer, modal, editing, strayed>>

handleMessageEdit(i) ==
  /\ CanAct(i)
  /\ Spend("edit")
  /\ editing' = message[i]
  /\ UNCHANGED <<message, saved, messageId, net, timer, modal, strayed>>

handleEditCancel ==
  /\ editing # None /\ modal = None
  /\ editing' = None
  /\ UNCHANGED <<message, saved, messageId, net, timer, modal, left, strayed>>

\* handleEditSave: a question that was answered opens a dialog over a snapshot of the
\* list; anything else is stored at once.  The text itself is not modelled.
handleEditSave ==
  /\ editing # None /\ modal = None /\ timer = None
  /\ LET here == {j \in DOMAIN message : message[j] = editing}
         same == IF here # {} THEN here ELSE {j \in DOMAIN message : message[j].id = editing.id}
     IN /\ same # {}
        /\ LET i == CHOOSE j \in same : \A k \in same : j <= k
           IN IF message[i].role = "user" /\ i < Len(message) /\ message[i + 1].role = "assistant"
              THEN /\ modal' = [kind |-> "edit", target |-> message[i], list |-> message, at |-> i]
                   /\ UNCHANGED saved
              ELSE Save(message) /\ UNCHANGED modal
  /\ editing' = None
  /\ UNCHANGED <<message, messageId, net, timer, left, strayed>>

\* onOk: the snapshot up to the question, then a new answer 100 ms later.
EditRegenerates ==
  /\ modal # None /\ modal.kind = "edit"
  /\ message' = SubSeq(modal.list, 1, modal.at)
  /\ Save(message')
  /\ timer' = "regenerate"
  /\ modal' = None
  /\ strayed' = (strayed \/ requests # {} \/ message # modal.list)
  /\ UNCHANGED <<messageId, net, editing, left>>

\* onCancel: the snapshot, whatever has happened to the list since.
EditKeeps ==
  /\ modal # None /\ modal.kind = "edit"
  /\ message' = modal.list
  /\ Save(message')
  /\ modal' = None
  /\ strayed' = (strayed \/ requests # {} \/ message # modal.list)
  /\ UNCHANGED <<messageId, net, timer, editing, left>>

\* The dialog is dismissed.
DeleteCancelled ==
  /\ modal # None /\ modal.kind = "delete"
  /\ modal' = None
  /\ UNCHANGED <<message, saved, messageId, net, timer, editing, left, strayed>>

initialMessages == IF saved = None THEN getDefaultMessages ELSE saved

\* The page is opened: the saved list, its last message repaired.
Mount ==
  /\ LET loaded == initialMessages
     IN IF loaded # <<>> /\ IsGenerating(Last(loaded))
        THEN /\ message' = Append(Front(loaded), [Last(loaded) EXCEPT !.status = "complete"])
             /\ Save(message')
        ELSE message' = loaded /\ UNCHANGED saved
  /\ messageId' = 4
  /\ requests' = {} /\ source' = None /\ timer' = None /\ modal' = None /\ editing' = None
  /\ UNCHANGED <<asked, strayed>>

Reload == Spend("reload") /\ Mount

\* completeMessage on an empty list throws in the state updater, which takes the page
\* down; the user opens it again.
CompleteThrows(r) == r.stream /\ message = <<>> /\ Mount /\ UNCHANGED left

-----------------------------------------------------------------------------
Init ==
  /\ message = getDefaultMessages /\ saved = None /\ messageId = 4
  /\ requests = {} /\ asked = 0 /\ source = None
  /\ timer = None /\ modal = None /\ editing = None
  /\ strayed = FALSE /\ left = Budget

User ==
  \/ \E streams \in BOOLEAN : onMessageSend(streams)
  \/ \E i \in DOMAIN message : \/ handleMessageReset(i) \/ handleMessageDelete(i)
                               \/ handleRoleToggle(i) \/ handleMessageEdit(i)
  \/ DeleteConfirmed \/ DeleteCancelled \/ handleEditSave \/ handleEditCancel \/ EditRegenerates \/ EditKeeps
  \/ onStopGenerator \/ handleClearMessages \/ Reload

Network ==
  \E r \in requests :
    \/ streamMessageUpdate(r) \/ SourceFails(r) \/ SourceEnds(r)
    \/ CompleteThrows(r)
    \/ \E s \in {"complete", "error"} : completeMessage(r, s) \/ handleNonStreamRequest(r, s)

Next == User \/ Network \/ \E streams \in BOOLEAN : TimerFires(streams)

Spec == Init /\ [][Next]_vars

-----------------------------------------------------------------------------
TypeOK ==
  /\ message \in Seq(Messages) /\ Len(message) <= MaxMessages
  /\ saved = None \/ saved \in Seq(Messages)
  /\ messageId \in Nat /\ source \in (1..MaxRequests) \cup {None}
  /\ timer \in {"send", "regenerate", None}

\* After the page is opened, what is shown as being generated has a request: nothing
\* restored from localStorage is left spinning (the repair in usePlaygroundState).
NothingRestoredSpins ==
  left'["reload"] < left["reload"] =>
       \A i \in DOMAIN message' : ~IsGenerating(message'[i])

\* What the network brings never changes an answer that has ended, whichever stream,
\* late answer or error it is (the status guards of useApiRequest).
FinishedIsFinal ==
  Network /\ message # <<>> => \A i \in DOMAIN message :
       message[i].status \in {"complete", "error"} => message'[i] = message[i]

\* Only the last message is being generated, so that Stop and the stream find it.
GeneratingIsLast == \A i \in DOMAIN message : IsGenerating(message[i]) => i = Len(message)

\* An answer holds text of its own request only, unless the user cleared the list, edited
\* a question or pressed Stop while a request was under way: those leave it running.
AnswerIsOwn ==
  ~strayed => \A i \in DOMAIN message : message[i].from \subseteq {message[i].to}

=============================================================================
