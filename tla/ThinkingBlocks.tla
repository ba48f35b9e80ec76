--------------------------- MODULE ThinkingBlocks ---------------------------
(***************************************************************************)
(* What the proxy removes from a Claude request: the thinking of the       *)
(* assistant turns that are over (claude/thinking_sanitizer.go), and the   *)
(* beta names Claude must not see (claude/beta_rewriter.go).               *)
(***************************************************************************)
EXTENDS JsonText

Removable == {"thinking", "redacted_thinking"}
EmptyContentPlaceholder == <<"[", "{", "type", ":", "text", ",", "text", ":", "...", "}", "]">>

\* The block types of a content array, by position.
BlockTypes(s, content) ==
    LET TypesOf(blocks) ==
            IF blocks = Broken THEN <<>>
            ELSE [n \in DOMAIN blocks |-> StringField(s, blocks[n].lo, blocks[n].hi, "type")]
    IN  TypesOf(ArrayElements(s, content.lo, content.hi))

MessageInfo(s, range) ==
    LET Info(role, content, types) ==
            [role |-> role, content |-> content, types |-> types,
             isToolResultTurn |-> role = "user" /\ \E n \in DOMAIN types : types[n] = "tool_result"]
        WithTypes(role, content) ==
            Info(role, content, IF Present(content) THEN BlockTypes(s, content) ELSE <<>>)
    IN  WithTypes(StringField(s, range.lo, range.hi, "role"),
                  FieldLocation(s, range.lo, range.hi, "content"))

\* The assistant turn that nothing but tool results follow; 0: there is none.
LatestAssistantWithToolResults(infos) ==
    LET last == Max({0} \cup {n \in DOMAIN infos : ~infos[n].isToolResultTurn})
    IN  IF last # 0 /\ last < Len(infos) /\ infos[last].role = "assistant" THEN last ELSE 0

\* Two thinking blocks or more, all of them before the first tool call.
IsClusteredThinkingMerge(types) ==
    LET thinking == {n \in DOMAIN types : types[n] \in Removable}
        calls == {n \in DOMAIN types : types[n] = "tool_use"}
    IN  Cardinality(thinking) >= 2 /\ calls # {} /\ Max(thinking) < Min(calls)

\* As if the comma in front were there for the first element too.
RangesForRemoving_CommaBefore(indexes, elements) ==
    LET Run(a, b) == /\ a..b \subseteq indexes
                     /\ a - 1 \notin indexes /\ b + 1 \notin indexes
        Cut(a, b) == IF a = 1 THEN [lo |-> elements[a].lo, hi |-> elements[b].hi]
                     ELSE [lo |-> elements[a - 1].hi, hi |-> elements[b].hi]
    IN  {Cut(r[1], r[2]) : r \in {q \in indexes \X indexes : q[1] <= q[2] /\ Run(q[1], q[2])}}

\* The ranges that take the given elements out of an array, a comma of each
\* run with them; not all the elements are given.
RangesForRemoving(indexes, elements) ==
    LET Run(a, b) == /\ a..b \subseteq indexes
                     /\ a - 1 \notin indexes /\ b + 1 \notin indexes
        Cut(a, b) == IF a = 1 THEN [lo |-> elements[a].lo, hi |-> elements[b + 1].lo]
                     ELSE [lo |-> elements[a - 1].hi, hi |-> elements[b].hi]
    IN  {Cut(r[1], r[2]) : r \in {q \in indexes \X indexes : q[1] <= q[2] /\ Run(q[1], q[2])}}

\* The edits that one message needs.
MessageEdits(s, info) ==
    LET Edit(range, text) == [lo |-> range.lo, hi |-> range.hi, text |-> text]
        Edits(removable, blocks) ==
            IF removable = {} THEN {}
            ELSE IF removable = DOMAIN blocks THEN {Edit(info.content, EmptyContentPlaceholder)}
            ELSE {Edit(r, <<>>) : r \in RangesForRemoving(removable, blocks)}
    IN  Edits({n \in DOMAIN info.types : info.types[n] \in Removable},
              ArrayElements(s, info.content.lo, info.content.hi))

\* The thinking of this turn stays: it belongs to the tool loop in progress.
PreservedTurn(infos, latest) ==
    IF latest # 0 /\ IsClusteredThinkingMerge(infos[latest].types) THEN 0 ELSE latest

\* All the edits of a conversation, none when the text holds no list of
\* messages.  The code passes over an edit that overlaps another: none does.
ThinkingEdits(s) ==
    LET Edited(infos, preserve) == {n \in DOMAIN infos : /\ infos[n].role = "assistant"
                                                         /\ n # preserve
                                                         /\ Present(infos[n].content)}
        Edits(infos) ==
            UNION {MessageEdits(s, infos[n]) :
                   n \in Edited(infos, PreservedTurn(infos, LatestAssistantWithToolResults(infos)))}
        OfMessages(messages) ==
            IF messages = Broken THEN {}
            ELSE Edits([n \in DOMAIN messages |-> MessageInfo(s, messages[n])])
        Within(field) ==
            IF Present(field) THEN OfMessages(ArrayElements(s, field.lo, field.hi)) ELSE {}
    IN  Within(FieldLocation(s, 1, Len(s) + 1, "messages"))

SanitizeThinkingBlocks(s) == Splice(s, ThinkingEdits(s))
-----------------------------------------------------------------------------
(* The beta header: the list of its names, <<>> when it is not sent. *)

RedactedThinkingBeta == "redact-thinking"
VisibleThinkingBetas == <<"oauth", "interleaved-thinking">>
IsFastModeBeta(b) == b \in {"fast-mode-a", "fast-mode-b"}

\* Names in the order of their first appearance.
Distinct(names) ==
    LET first == {n \in DOMAIN names : \A k \in 1 .. n - 1 : names[k] # names[n]}
        positions == SetToSortSeq(first, <)
    IN  [n \in DOMAIN positions |-> names[positions[n]]]

RewriteAnthropicBeta(betas, requestVisibleThinking) ==
    IF requestVisibleThinking
    THEN SelectSeq(Distinct(betas \o VisibleThinkingBetas),
                   LAMBDA b : b # RedactedThinkingBeta /\ ~IsFastModeBeta(b))
    ELSE SelectSeq(betas, LAMBDA b : ~IsFastModeBeta(b))
-----------------------------------------------------------------------------
(* The reference: a conversation as a document, and what is left of it. *)

Block(type) ==
    IF type = "thinking" THEN Obj(<< <<"signature", Str("s")>>, <<"type", Str(type)>> >>)
    ELSE Obj(<< <<"type", Str(type)>>, <<"text", Arr(<<Lit("1"), Obj(<<>>)>>)>> >>)
Placeholder == Obj(<< <<"type", Str("text")>>, <<"text", Str("...")>> >>)
\* A turn is [role, types]; types = "plain" is content that is one string.
Message(turn) ==
    Obj(<< <<"role", Str(turn.role)>>,
           <<"content", IF turn.plain THEN Str("hello")
                        ELSE Arr([n \in DOMAIN turn.types |-> Block(turn.types[n])])>> >>)

\* Does turn n wait for tool results that are the last turns of the conversation?
OpenToolLoop(turns, n) ==
    /\ turns[n].role = "assistant" /\ n < Len(turns)
    /\ \A k \in n + 1 .. Len(turns) : /\ turns[k].role = "user"
                                      /\ Contains(turns[k].types, "tool_result")
\* Several thinking blocks, each in front of each tool call: merged steps.
MergedSteps(types) ==
    /\ \E i, j \in DOMAIN types : i # j /\ {types[i], types[j]} \subseteq Removable
    /\ Contains(types, "tool_use")
    /\ \A i, j \in DOMAIN types : types[i] \in Removable /\ types[j] = "tool_use" => i < j
MeantTurn(turns, n) ==
    LET kept == SelectSeq(turns[n].types, LAMBDA t : t \notin Removable)
    IN  IF turns[n].role # "assistant" \/ kept = turns[n].types \/ turns[n].plain
           \/ (OpenToolLoop(turns, n) /\ ~MergedSteps(turns[n].types))
        THEN Message(turns[n])
        ELSE Obj(<< <<"role", Str("assistant")>>,
                    <<"content", IF kept = <<>> THEN Arr(<<Placeholder>>)
                                 ELSE Arr([k \in DOMAIN kept |-> Block(kept[k])])>> >>)
=============================================================================
