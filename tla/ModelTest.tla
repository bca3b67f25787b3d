------------------------------ MODULE ModelTest ------------------------------
(***************************************************************************)
(* Testing the models of a channel (hooks/channels/useChannelsData.jsx,    *)
(* components/table/channels/modals/ModelTestModal.jsx): one test at a     *)
(* time from a row, or a batch loop that tests a slice of models at once,  *)
(* waits for all of them, and looks at one stop flag shared by all loops.  *)
(***************************************************************************)
EXTENDS Naturals, FiniteSets

CONSTANTS Channels, None,
          Count,        \* models of a channel, numbered 1..Count
          Limit,        \* concurrencyLimit
          MaxLoops,     \* bound on batches started
          MaxSingles    \* bound on tests started from a row

VARIABLES shown,     \* channel of the open dialog, or None
          isBatchTesting,
          stop,      \* shouldStopBatchTestingRef
          testing,   \* testingModels: models, of whichever channel
          results,   \* keys of modelTestResults
          loops,     \* batch loop -> [channel, next, at]
          tests,     \* tests under way: [channel, model, loop]
          singles,   \* tests started from a row so far
          finished   \* history: loops that ran to their end

vars == <<shown, isBatchTesting, stop, testing, results, loops, tests, singles, finished>>

Models == 1..Count
Points == {"check", "wait", "pause", "finish", "over"}
TestsOf(l) == {t \in tests : t.loop = l}

At(l, p) == loops' = [loops EXCEPT ![l].at = p]

-----------------------------------------------------------------------------
\* The models button of a channel's row.
OpenModal(c) ==
  /\ shown = None
  /\ shown' = c
  /\ UNCHANGED <<isBatchTesting, stop, testing, results, loops, tests, singles, finished>>

\* The dialog closes on Cancel, on the stop button, and on the mask when no batch runs.
handleCloseModal ==
  /\ shown # None
  /\ shown' = None
  /\ stop' = (stop \/ isBatchTesting)
  /\ isBatchTesting' = FALSE
  /\ testing' = {}
  /\ UNCHANGED <<results, loops, tests, singles, finished>>

batchTestModels ==
  /\ shown # None /\ ~isBatchTesting
  /\ Cardinality(DOMAIN loops) < MaxLoops
  /\ isBatchTesting' = TRUE
  /\ stop' = FALSE
  /\ results' = {r \in results : r[1] # shown}
  /\ LET l == Cardinality(DOMAIN loops) + 1
     IN loops' = [k \in DOMAIN loops \cup {l} |->
                    IF k = l THEN [channel |-> shown, next |-> 1, at |-> "check"] ELSE loops[k]]
  /\ UNCHANGED <<shown, testing, tests, singles, finished>>

\* The loop leaves through its finally.
LoopEnds(l) == At(l, "over") /\ isBatchTesting' = FALSE

Slice(l) == {m \in Models : loops[l].next <= m /\ m < loops[l].next + Limit}

\* The top of the for loop: stop, or test the next slice.
LoopChecks(l) ==
  /\ loops[l].at = "check"
  /\ IF stop
     THEN LoopEnds(l) /\ UNCHANGED <<testing, tests>>
     ELSE /\ At(l, "wait")
          /\ testing' = testing \cup Slice(l)
          /\ tests' = tests \cup {[channel |-> loops[l].channel, model |-> m, loop |-> l] : m \in Slice(l)}
          /\ UNCHANGED isBatchTesting
  /\ UNCHANGED <<shown, stop, results, singles, finished>>

\* Mutant: the last slice is taken for a full one.
ResumesOneShort(l) ==
  /\ loops[l].at = "wait" /\ TestsOf(l) = {}
  /\ loops' = IF loops[l].next + 2 * Limit <= Count
              THEN [loops EXCEPT ![l].at = "pause", ![l].next = @ + Limit]
              ELSE [loops EXCEPT ![l].at = "finish"]
  /\ UNCHANGED <<shown, isBatchTesting, stop, testing, results, tests, singles, finished>>

\* Promise.allSettled resolves: stop, pause before the next slice, or finish.
LoopResumes(l) ==
  /\ loops[l].at = "wait" /\ TestsOf(l) = {}
  /\ IF stop THEN LoopEnds(l)
     ELSE /\ loops' = IF loops[l].next + Limit <= Count
                      THEN [loops EXCEPT ![l].at = "pause", ![l].next = @ + Limit]
                      ELSE [loops EXCEPT ![l].at = "finish"]
          /\ UNCHANGED isBatchTesting
  /\ UNCHANGED <<shown, stop, testing, results, tests, singles, finished>>

LoopWakes(l) ==
  /\ loops[l].at = "pause"
  /\ At(l, "check")
  /\ UNCHANGED <<shown, isBatchTesting, stop, testing, results, tests, singles, finished>>

\* The summary after 300 ms, then the finally.
LoopFinishes(l) ==
  /\ loops[l].at = "finish"
  /\ LoopEnds(l)
  /\ finished' = IF stop THEN finished ELSE finished \cup {l}
  /\ UNCHANGED <<shown, stop, testing, results, tests, singles>>

\* A row's button, which is loading while its model is tested.  A test that starts while a
\* batch runs sees isBatchTesting and may refuse to start.
testChannel(m) ==
  /\ shown # None /\ m \notin testing /\ singles < MaxSingles
  /\ ~(stop /\ isBatchTesting)
  /\ singles' = singles + 1
  /\ testing' = testing \cup {m}
  /\ tests' = tests \cup {[channel |-> shown, model |-> m, loop |-> 0]}
  /\ UNCHANGED <<shown, isBatchTesting, stop, results, loops, finished>>

\* An answer or an error: either way a result, under the channel's own key.
TestArrives(t) ==
  /\ tests' = tests \ {t}
  /\ testing' = testing \ {t.model}
  /\ results' = results \cup {<<t.channel, t.model>>}
  /\ UNCHANGED <<shown, isBatchTesting, stop, loops, singles, finished>>

-----------------------------------------------------------------------------
Init ==
  /\ shown = None /\ isBatchTesting = FALSE /\ stop = FALSE
  /\ testing = {} /\ results = {} /\ loops = <<>> /\ tests = {}
  /\ singles = 0 /\ finished = {}

LoopStep == \E l \in DOMAIN loops : LoopChecks(l) \/ LoopResumes(l) \/ LoopWakes(l) \/ LoopFinishes(l)

Next ==
  \/ \E c \in Channels : OpenModal(c)
  \/ handleCloseModal \/ batchTestModels
  \/ \E m \in Models : testChannel(m)
  \/ LoopStep
  \/ \E t \in tests : TestArrives(t)

Spec == Init /\ [][Next]_vars

-----------------------------------------------------------------------------
TypeOK ==
  /\ shown \in Channels \cup {None} /\ testing \subseteq Models
  /\ results \subseteq Channels \X Models
  /\ \A l \in DOMAIN loops : /\ loops[l].channel \in Channels /\ loops[l].at \in Points
                             /\ loops[l].next \in Models

\* A batch that ran to its end has a result for every model of its channel, whatever
\* other loops, single tests and dialogs came between, until the channel is tested again.
FinishedIsComplete ==
  \A l \in finished :
    (\A k \in DOMAIN loops : k > l => loops[k].channel # loops[l].channel)
      => \A m \in Models : <<loops[l].channel, m>> \in results

=============================================================================
