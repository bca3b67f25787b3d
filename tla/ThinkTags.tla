------------------------------ MODULE ThinkTags ------------------------------
(***************************************************************************)
(* How the playground splits an answer into thoughts and text              *)
(* (web/src/helpers/utils.jsx, components/playground/MessageContent.jsx),  *)
(* and how it opens and closes the thoughts while the answer streams       *)
(* (hooks/playground/useApiRequest.jsx).                                   *)
(*                                                                         *)
(* An answer is a sequence of tokens: "<" for <think>, ">" for </think>,   *)
(* anything else for text.  A list of thoughts stands for the string that  *)
(* joins them with a rule; the tags and the rule are the only structure.   *)
(***************************************************************************)
EXTENDS Naturals, SequencesExt

CONSTANTS Text,        \* the text tokens
          MaxContent,  \* bound on the tokens of an answer
          MaxReasoning \* bound on the reasoning deltas

Tokens == Text \cup {"<", ">"}

VARIABLES status,     \* "loading", "incomplete", "complete"
          content, reasoning,          \* tokens; list of thoughts
          isThinkingComplete, hasAutoCollapsed, isReasoningExpanded

vars == <<status, content, reasoning, isThinkingComplete, hasAutoCollapsed, isReasoningExpanded>>

-----------------------------------------------------------------------------
\* THINK_TAG_REGEX, global and lazy: the thoughts it matches, and what is left.
MatchPairs(s) ==
  LET close(i) == {j \in (i + 1)..Len(s) : s[j] = ">"}
      first(S) == CHOOSE x \in S : \A y \in S : x <= y
      from[p \in 1..(Len(s) + 1)] ==
        LET opens == {i \in p..Len(s) : s[i] = "<" /\ close(i) # {}}
        IN IF opens = {} THEN [thoughts |-> <<>>, reply |-> SubSeq(s, p, Len(s))]
           ELSE LET i == first(opens)
                    j == first(close(i))
                    rest == from[j + 1]
                IN [thoughts |-> <<SubSeq(s, i + 1, j - 1)>> \o rest.thoughts,
                    reply    |-> SubSeq(s, p, i - 1) \o rest.reply]
  IN from[1]

WithoutTags(s) == SelectSeq(s, LAMBDA t : t \in Text)
\* The joined string of a list of thoughts is empty: none, or one empty thought.
Blank(thoughts) == thoughts = <<>> \/ thoughts = << <<>> >>

LastOpen(s) ==
  LET opens == {i \in 1..Len(s) : s[i] = "<"}
  IN IF opens = {} THEN 0 ELSE CHOOSE i \in opens : \A j \in opens : j <= i

\* The last <think> has no </think> behind it.
Unclosed(s) == LastOpen(s) # 0 /\ \A j \in LastOpen(s)..Len(s) : s[j] # ">"

processThinkTags(s, thoughts) ==
  IF ~Contains(s, "<") THEN [content |-> s, reasoning |-> thoughts]
  ELSE LET m == MatchPairs(s)
       IN [content |-> WithoutTags(m.reply),
           reasoning |-> IF ~Blank(thoughts) /\ ~Blank(m.thoughts) THEN thoughts \o m.thoughts
                         ELSE IF ~Blank(thoughts) THEN thoughts ELSE m.thoughts]

\* Mutant: the unclosed thought is cut off and not kept.
DropsUnclosed(s, thoughts) ==
  IF Unclosed(s)
  THEN processThinkTags(SubSeq(s, 1, LastOpen(s) - 1), thoughts)
  ELSE processThinkTags(s, thoughts)

processIncompleteThinkTags(s, thoughts) ==
  IF s = <<>> THEN [content |-> <<>>, reasoning |-> thoughts]
  ELSE IF Unclosed(s)
  THEN LET rest == SubSeq(s, LastOpen(s) + 1, Len(s))
       IN processThinkTags(SubSeq(s, 1, LastOpen(s) - 1),
                           IF rest = <<>> THEN thoughts
                           ELSE IF Blank(thoughts) THEN <<rest>> ELSE Append(thoughts, rest))
  ELSE processThinkTags(s, thoughts)

\* What MessageContent shows of an assistant message: text below, thoughts above.
Displayed(s, thoughts, streaming) ==
  LET tagged  == Contains(s, "<")
      m       == MatchPairs(s)
      paired  == IF tagged THEN thoughts \o m.thoughts ELSE thoughts
      base    == IF tagged THEN m.reply ELSE s
      cut     == streaming /\ Unclosed(base)
      rest    == SubSeq(base, LastOpen(base) + 1, Len(base))
  IN [content   |-> WithoutTags(IF cut THEN SubSeq(base, 1, LastOpen(base) - 1) ELSE base),
      reasoning |-> IF cut /\ rest # <<>> THEN Append(paired, rest) ELSE paired]

-----------------------------------------------------------------------------
applyAutoCollapseLogic(complete) ==
  LET should == complete /\ ~hasAutoCollapsed
  IN /\ isThinkingComplete' = complete
     /\ hasAutoCollapsed' = (should \/ hasAutoCollapsed)
     /\ isReasoningExpanded' = (~should /\ isReasoningExpanded)

Generating == status \in {"loading", "incomplete"}

ReasoningDelta(t) ==
  /\ Generating /\ Len(FlattenSeq(reasoning)) < MaxReasoning
  /\ reasoning' = <<Append(FlattenSeq(reasoning), t)>>
  /\ status' = "incomplete"
  /\ isThinkingComplete' = FALSE
  /\ UNCHANGED <<content, hasAutoCollapsed, isReasoningExpanded>>

Count(s, t) == Len(SelectSeq(s, LAMBDA u : u = t))

ContentDelta(t) ==
  /\ Generating /\ Len(content) < MaxContent
  /\ content' = Append(content, t)
  /\ status' = "incomplete"
  /\ LET byTags == /\ isReasoningExpanded
                   /\ Count(content', "<") > 0 /\ Count(content', ">") > 0
                   /\ Count(content', ">") >= Count(content', "<")
     IN applyAutoCollapseLogic((reasoning # <<>> /\ ~isThinkingComplete) \/ byTags \/ isThinkingComplete)
  /\ UNCHANGED reasoning

\* completeMessage: the raw text stays, tags and all.
CompleteMessage ==
  /\ Generating
  /\ status' = "complete"
  /\ applyAutoCollapseLogic(TRUE)
  /\ UNCHANGED <<content, reasoning>>

onStopGenerator ==
  /\ Generating
  /\ LET p == processIncompleteThinkTags(content, reasoning)
     IN content' = p.content /\ reasoning' = p.reasoning
  /\ status' = "complete"
  /\ applyAutoCollapseLogic(TRUE)

\* handleNonStreamRequest: the whole answer at once, split before it is stored.
NonStreamAnswer(s, thoughts) ==
  /\ status = "loading"
  /\ LET p == processThinkTags(s, thoughts)
     IN content' = p.content /\ reasoning' = p.reasoning
  /\ status' = "complete"
  /\ applyAutoCollapseLogic(TRUE)

toggleReasoningExpansion ==
  /\ ~Blank(Displayed(content, reasoning, Generating).reasoning)
  /\ isReasoningExpanded' = ~isReasoningExpanded
  /\ UNCHANGED <<status, content, reasoning, isThinkingComplete, hasAutoCollapsed>>

Init ==
  /\ status = "loading" /\ content = <<>> /\ reasoning = <<>>
  /\ isThinkingComplete = FALSE /\ hasAutoCollapsed = FALSE /\ isReasoningExpanded = TRUE

Next ==
  \/ \E t \in Text : ReasoningDelta(t)
  \/ \E t \in Tokens : ContentDelta(t)
  \/ \E s \in BoundedSeq(Tokens, MaxContent), r \in BoundedSeq(Text, MaxReasoning) :
       NonStreamAnswer(s, IF r = <<>> THEN <<>> ELSE <<r>>)
  \/ CompleteMessage \/ onStopGenerator \/ toggleReasoningExpansion

Spec == Init /\ [][Next]_vars

-----------------------------------------------------------------------------
TypeOK ==
  /\ status \in {"loading", "incomplete", "complete"}
  /\ content \in BoundedSeq(Tokens, MaxContent)
  /\ {isThinkingComplete, hasAutoCollapsed, isReasoningExpanded} \subseteq BOOLEAN

\* The thoughts that have text, in any order: Stop moves an unclosed one forward.
Thoughts(d) ==
  LET shown == SelectSeq(d.reasoning, LAMBDA x : x # <<>>)
  IN [x \in ToSet(shown) |-> Count(shown, x)]

\* Stopping an answer shows what was on the screen: the text and thoughts that
\* onStopGenerator stores read the same as the streaming message did, whatever
\* tags had arrived, closed or not, nested or stray.
StopKeepsDisplay ==
  Generating =>
    LET p      == processIncompleteThinkTags(content, reasoning)
        before == Displayed(content, reasoning, TRUE)
        after  == Displayed(p.content, p.reasoning, FALSE)
    IN before.content = after.content /\ Thoughts(before) = Thoughts(after)

\* The page closes the thoughts once and never opens them: later only the reader does.
ReaderDecides ==
  isReasoningExpanded' # isReasoningExpanded =>
       \/ status' = status /\ content' = content /\ reasoning' = reasoning
       \/ isReasoningExpanded /\ ~hasAutoCollapsed

=============================================================================
