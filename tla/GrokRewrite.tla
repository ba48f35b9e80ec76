----------------------------- MODULE GrokRewrite -----------------------------
(***************************************************************************)
(* What the proxy changes in the traffic with Grok: the request it makes   *)
(* acceptable to api.x.ai (grok_request_sanitizer.go), the tool calls it   *)
(* finds in the text of an answer (native_tool_call_rewriter.go) and the   *)
(* arguments it repairs (end_feature_run_repair.go).                       *)
(*                                                                         *)
(* Text is a sequence of words, where a marker, a newline and a JSON value *)
(* are one word each.  A tool call is [name, args], args a function from   *)
(* keys to texts; a value of one word of NotText is a boolean or a number. *)
(***************************************************************************)
EXTENDS Integers, SequencesExt, TLC

NotText == {<<"true">>, <<"false">>, <<"1">>}
ExecuteToolNames == {"Execute", "Bash"}
EndFeatureRunToolNames == {"EndFeatureRun"}
-----------------------------------------------------------------------------
(* Requests: a tool is [type, shape, name, command], tool_choice "none"    *)
(* when there is none.  An input item is [type, input, arguments], where a *)
(* value is "absent", an "object" or something "other" that is no string,  *)
(* or a string: one that holds an object ("objectText"), one that begins   *)
(* with an object and goes on ("tailed"), or any other ("text").           *)

AllowedToolTypes == {"function", "web_search"}
\* <<>>: the tool is dropped.
SanitizeTool(tool) ==
    IF tool.type \in {"function", "custom"}
    THEN IF tool.name = "" THEN <<>>
         ELSE <<[type |-> "function", shape |-> "flat", name |-> tool.name,
                 command |-> tool.command \/ tool.name \in ExecuteToolNames]>>
    ELSE IF tool.type \in AllowedToolTypes THEN <<tool>> ELSE <<>>

SanitizeToolsArray(tools) ==
    LET upTo[n \in 0 .. Len(tools)] ==
            IF n = 0 THEN <<>> ELSE upTo[n - 1] \o SanitizeTool(tools[n])
    IN  upTo[Len(tools)]

SanitizeToolChoice(choice) ==
    CASE choice = "custom" -> "function"
      [] choice = "nested" -> "function"
      [] OTHER -> choice

Strings == {"objectText", "tailed", "text"}
\* A text is wrapped in an object, unless an object can be read from it.
CustomToolCallArgumentsJSON(value) == IF value = "tailed" THEN "tailed" ELSE "objectText"
ArgumentsOf(item) ==
    IF item.input # "absent" THEN CustomToolCallArgumentsJSON(item.input)
    ELSE IF item.arguments \in Strings THEN item.arguments
    ELSE CustomToolCallArgumentsJSON(item.arguments)
SanitizeItem(item) ==
    CASE item.type = "custom_tool_call" ->
             [type |-> "function_call", input |-> "absent", arguments |-> ArgumentsOf(item)]
      [] item.type = "custom_tool_call_output" ->
             [type |-> "function_call_output", input |-> item.input, arguments |-> item.arguments]
      [] OTHER -> item

\* Whether the controls are orphans is asked of the tools the client sent.
SanitizeRequestBody_AsSent(body) ==
    LET Sanitized(tools, orphaned) ==
            [tools |-> tools,
             choice |-> IF orphaned THEN "none" ELSE SanitizeToolChoice(body.choice),
             parallel |-> body.parallel /\ ~orphaned,
             input |-> [n \in DOMAIN body.input |-> SanitizeItem(body.input[n])]]
        OfTools(tools) == Sanitized(tools, body.tools = <<>>)
    IN  OfTools(SanitizeToolsArray(body.tools))

SanitizeRequestBody(body) ==
    LET Sanitized(tools, orphaned) ==
            [tools |-> tools,
             choice |-> IF orphaned THEN "none" ELSE SanitizeToolChoice(body.choice),
             parallel |-> body.parallel /\ ~orphaned,
             input |-> [n \in DOMAIN body.input |-> SanitizeItem(body.input[n])]]
        OfTools(tools) == Sanitized(tools, tools = <<>>)
    IN  OfTools(SanitizeToolsArray(body.tools))

\* What api.x.ai takes, as the comment of the file lists what it refuses.
XaiAccepts(body) ==
    /\ \A n \in DOMAIN body.tools :
           body.tools[n].type \in AllowedToolTypes /\ body.tools[n].shape = "flat"
    /\ \A n \in DOMAIN body.input :
           /\ body.input[n].type \notin {"custom_tool_call", "custom_tool_call_output"}
           /\ body.input[n].type = "function_call" => body.input[n].arguments = "objectText"
    /\ body.tools = <<>> => body.choice = "none" /\ ~body.parallel
    /\ body.choice \notin {"custom", "nested"}

\* The arguments that are sent on as the client wrote them hold an object:
\* those of a function call, a string given as arguments, and an input that
\* begins with one.
WellArgued(body) ==
    \A n \in DOMAIN body.input :
        LET item == body.input[n]
        IN  /\ item.type = "function_call" => item.arguments = "objectText"
            /\ item.type = "custom_tool_call" =>
                   /\ item.input # "tailed"
                   /\ item.input = "absent" /\ item.arguments \in Strings => item.arguments = "objectText"
-----------------------------------------------------------------------------
(* Repair of arguments *)

CommandString(args, key) == IF key \in DOMAIN args /\ args[key] \notin NotText
                            THEN args[key] ELSE <<>>
With(args, key, value) ==
    [k \in DOMAIN args \cup {key} |-> IF k = key THEN value ELSE args[k]]

\* The values of the first of several aliases that holds a text.
FirstAlias(args, aliases) ==
    LET Of(held) == IF held = {} THEN {} ELSE {args[aliases[Min(held)]]}
    IN  Of({n \in DOMAIN aliases : CommandString(args, aliases[n]) # <<>>})

LooksLikeShellCommand(text) == text # <<>> /\ text[1] \in {"ls", "rm"}
EmbeddedCommand(text) ==
    IF Len(text) > 1 /\ text[1] = "command:" THEN {Tail(text)} ELSE {}
\* The last fenced part of a text.
FencedCommand(text) ==
    LET LastBody(fences, bodies) ==
            IF bodies = {} THEN {}
            ELSE {SubSeq(text, fences[2 * Max(bodies) - 1] + 1, fences[2 * Max(bodies)] - 1)}
        Within(fences) ==
            LastBody(fences, {n \in 1 .. Len(fences) \div 2 : fences[2 * n - 1] + 1 < fences[2 * n]})
    IN  Within(SetToSortSeq({n \in DOMAIN text : text[n] = "fence"}, <))

\* Where a missing command is looked for; where a map is walked, each of the
\* values it may meet first.
CommandSources(args, text) ==
    <<FirstAlias(args, <<"cmd", "shell", "bash", "script", "input">>),
      {args[k] : k \in {l \in DOMAIN args \cap {"commands", "command_line"} :
                            CommandString(args, l) # <<>>}},
      UNION {EmbeddedCommand(CommandString(args, k)) : k \in DOMAIN args},
      IF LooksLikeShellCommand(CommandString(args, "summary")) THEN {args["summary"]} ELSE {},
      FencedCommand(text)>>

RepairExecute(args, text) ==
    LET FirstOf(sources, found) == IF found = {} THEN {} ELSE sources[Min(found)]
        Commands(sources) == FirstOf(sources, {n \in DOMAIN sources : sources[n] # {}})
        Given(commands) ==
            IF commands = {} THEN {args} ELSE {With(args, "command", c) : c \in commands}
    IN  IF CommandString(args, "command") # <<>> THEN {args}
        ELSE Given(Commands(CommandSources(args, text)))

RepairAlias(args, key, aliases) ==
    LET Given(values) == IF values = {} THEN {args} ELSE {With(args, key, v) : v \in values}
    IN  IF CommandString(args, key) # <<>> THEN {args} ELSE Given(FirstAlias(args, aliases))

HandoffFields == {"salientSummary", "tests"}
CoerceVerdict(args) ==
    IF CommandString(args, "validatorsPassed") = <<>> THEN args
    ELSE [args EXCEPT !["validatorsPassed"] = IF @[1] = "true" THEN <<"true">> ELSE <<"false">>]
FoldHandoff(args, fields) ==
    IF "handoff" \in DOMAIN args
    THEN IF args["handoff"] = <<"{object}">> THEN With(args, "handoff", <<"object">>) ELSE args
    ELSE With(Restrict(args, DOMAIN args \ fields), "handoff",
              IF fields = {} THEN <<"stub">> ELSE <<"object">>)
RepairEndFeatureRun(args) ==
    LET Repaired(handed) ==
            IF CommandString(args, "successState") = <<"success">>
               /\ "validatorsPassed" \notin DOMAIN args
            THEN With(handed, "validatorsPassed", <<"true">>) ELSE handed
    IN  Repaired(FoldHandoff(CoerceVerdict(args), DOMAIN args \cap HandoffFields))

\* The arguments a call may come out of the repair with.
RepairToolCall(name, args, text) ==
    CASE name \in ExecuteToolNames -> RepairExecute(args, text)
      [] name = "Read" -> RepairAlias(args, "file_path", <<"path", "file", "filename">>)
      [] name = "Grep" -> RepairAlias(args, "pattern", <<"regex", "query", "search">>)
      [] name \in EndFeatureRunToolNames -> {RepairEndFeatureRun(args)}
      [] OTHER -> {args}

\* For a call whose event gives no name, the tool its arguments look like.
InferredName(args) ==
    LET has(keys) == keys \cap DOMAIN args # {}
    IN  IF has({"successState"}) THEN "EndFeatureRun"
        ELSE IF has({"cmd", "shell", "bash", "script", "command"}) THEN "Execute"
        ELSE IF has({"path"}) /\ ~has({"file_path"}) THEN "Read"
        ELSE IF has({"regex", "query"}) /\ ~has({"pattern"}) THEN "Grep"
        ELSE "none"
-----------------------------------------------------------------------------
(* Tool calls in the text of an answer *)

CallsBegin == "<calls>"
CallBegin == "<call>"
CallEnd == "</call>"
CallsEnd == "</calls>"
ToolSep == "<sep>"

\* The first of some words in s[i .. hi - 1]; hi when none is there.
NextOf(s, i, hi, words) == Min({hi} \cup {n \in i .. hi - 1 : s[n] \in words})
AfterNewline(s, i, hi) == IF i < hi /\ s[i] = "nl" THEN i + 1 ELSE i
Trim(text) == SelectSeq(text, LAMBDA w : w # "nl")
WithoutLastNewline(text) ==
    IF text # <<>> /\ Last(text) = "nl" THEN Front(text) ELSE text

\* The separators of one call from position i on; a key given twice keeps
\* its last value, and "key: value" on one line is a pair too.
ArgumentPair(line, below) ==
    LET Pair(colon) ==
            IF colon = 1 THEN <<>>
            ELSE line[1] :> (IF Trim(below) = <<>> /\ colon < Len(line)
                             THEN SubSeq(line, colon + 1, Len(line)) ELSE below)
    IN  Pair(NextOf(line, 1, Len(line) + 1, {":"}))
ParseArguments(s, first, limit) ==
    LET KeyEnd(start, newline) ==
            IF newline < limit THEN newline ELSE NextOf(s, start, limit, {ToolSep})
        from[i \in first .. limit] ==
            LET Read(start, keyEnd, valueStart, valueEnd) ==
                    from[valueEnd]
                    @@ ArgumentPair(SubSeq(s, start, keyEnd - 1),
                                    WithoutLastNewline(SubSeq(s, valueStart, valueEnd - 1)))
                Valued(start, keyEnd, valueStart) ==
                    Read(start, keyEnd, valueStart, NextOf(s, valueStart, limit, {ToolSep}))
                LineTo(start, keyEnd) == Valued(start, keyEnd, AfterNewline(s, keyEnd, limit))
                From(start) == LineTo(start, KeyEnd(start, NextOf(s, start, limit, {"nl"})))
            IN  IF i >= limit \/ s[i] # ToolSep THEN <<>> ELSE From(AfterNewline(s, i + 1, limit))
    IN  from[first]

\* A call between two positions; <<>> when it has no name.
ParseOneCall(s, start, limit) ==
    LET Called(name, args) ==
            IF name = <<>> THEN <<>>
            ELSE <<[name |-> IF Len(name) = 1 THEN name[1] ELSE "words", args |-> args]>>
        NamedTo(first, end) == Called(Trim(SubSeq(s, first, end - 1)),
                                      ParseArguments(s, AfterNewline(s, end, limit), limit))
        NamedBy(first, sep) ==
            NamedTo(first, IF sep < limit THEN sep ELSE NextOf(s, first, limit, {"nl"}))
        From(first) == NamedBy(first, NextOf(s, first, limit, {ToolSep}))
    IN  From(Min({limit} \cup {n \in start .. limit - 1 : s[n] # "nl"}))

CallsFrom(s, first) ==
    LET end == Len(s) + 1
        Behind(limit) == IF limit < end /\ s[limit] = CallEnd THEN limit + 1 ELSE limit
        from[cursor \in first .. end + 1] ==
            LET Between(start, limit) == ParseOneCall(s, start, limit) \o from[Behind(limit)]
                From(start) ==
                    IF start > end THEN <<>>
                    ELSE Between(start, NextOf(s, start, end, {CallEnd, CallsEnd, CallBegin}))
            IN  IF cursor >= end \/ s[cursor] = CallsEnd THEN <<>>
                ELSE From(NextOf(s, cursor, end, {CallBegin}) + 1)
    IN  from[first]

\* Grok's file tools under Droid's names.
\* A key's value from the first alias that has one; a map may have it already.
Filled(args, key, aliases) == CHOOSE a \in RepairAlias(args, key, aliases) : TRUE
CreateArgs(args) ==
    LET Kept(file, keys) == IF keys = {} THEN args ELSE Restrict(file, keys)
        Of(file) == Kept(file, DOMAIN file \cap {"file_path", "content"})
    IN  Of(Filled(Filled(args, "file_path", <<"path">>), "content", <<"contents">>))
Missing(args, key, aliases) ==
    IF key \in DOMAIN args THEN <<>>
    ELSE LET Of(values) == IF values = {} THEN <<>> ELSE key :> CHOOSE v \in values : TRUE
         IN  Of(FirstAlias(args, aliases))
Canonicalize(call) ==
    LET path == FirstAlias(call.args, <<"path", "file_path">>)
    IN  CASE call.name \in {"Write", "Create"} ->
                 [name |-> "Create", args |-> CreateArgs(call.args)]
          [] call.name = "Delete" /\ path # {} ->
                 [name |-> "Execute", args |-> "command" :> <<"rm">> \o (CHOOSE p \in path : TRUE)]
          [] OTHER ->
                 [call EXCEPT !.args = @ @@ Missing(@, "path", <<"file_path">>)
                                          @@ Missing(@, "contents", <<"content", "text">>)]

\* JSON values in a text; those with a name are read as calls, a quoted
\* package.json too.
JsonValues == {"{call}", "{package}", "{data}"}
JsonCall == [w \in {"{call}", "{package}"} |->
                IF w = "{call}" THEN [name |-> "Execute", args |-> "command" :> <<"ls">>]
                ELSE [name |-> "droid", args |-> "version" :> <<"1.0">>]]
\* The next value is looked for in the next fenced part, if there is one, and
\* the search ends when it holds none; the prefix is what comes before the
\* first call and after the value before it.
ParseJSONFunctionCall(text) ==
    LET end == Len(text) + 1
        NoneFound == [prefix |-> <<>>, calls |-> <<>>]
        from[i \in 1 .. end + 1] ==
            LET Valued(before, first, value, behind) ==
                    IF text[value] \notin DOMAIN JsonCall THEN from[behind]
                    ELSE [prefix |-> IF before # <<>> THEN before ELSE Trim(SubSeq(text, first, value - 1)),
                          calls |-> <<JsonCall[text[value]]>> \o from[behind].calls]
                In(before, first, limit, value) ==
                    IF value = limit THEN NoneFound
                    ELSE Valued(before, first, value, IF limit < end THEN limit + 1 ELSE value + 1)
                Fenced(open, close) ==
                    IF close < end THEN In(Trim(SubSeq(text, i, open - 1)), open + 1, close,
                                           NextOf(text, open + 1, close, JsonValues))
                    ELSE In(<<>>, i, end, NextOf(text, i, end, JsonValues))
                From(open) == Fenced(open, NextOf(text, open + 1, end, {"fence"}))
            IN  IF i >= end THEN NoneFound ELSE From(NextOf(text, i, end, {"fence"}))
    IN  from[1]

DedupeConsecutive(calls) ==
    LET Kept(positions) == [n \in DOMAIN positions |-> calls[positions[n]]]
    IN  Kept(SetToSortSeq({n \in DOMAIN calls : n = 1 \/ calls[n] # calls[n - 1]}, <))

ParseNativeMarkup(text) ==
    LET Parsed(begin, found) ==
            IF found = <<>> THEN ParseJSONFunctionCall(text)
            ELSE [prefix |-> SubSeq(text, 1, begin - 1),
                  calls |-> [n \in DOMAIN found |-> Canonicalize(found[n])]]
        From(begin) == Parsed(begin, CallsFrom(text, begin + 1))
    IN  [From(NextOf(text, 1, Len(text) + 1, {CallsBegin})) EXCEPT !.calls = DedupeConsecutive(@)]
-----------------------------------------------------------------------------
(* Answers: a sequence of events [ev, text, call].  A chat stream carries  *)
(* text in "content" and whole calls in "call" events; a Responses stream  *)
(* repeats the arguments of a call in "delta", "done" and "item" events    *)
(* and in the "completed" event that closes it.                            *)

NoCall == [name |-> "none", args |-> <<>>]
Event(ev, text, call) == [ev |-> ev, text |-> text, call |-> call]
Content(events) == FlattenSeq([n \in DOMAIN events |->
                       IF events[n].ev = "content" THEN events[n].text ELSE <<>>])
Are(events, ev) == SelectSeq(events, LAMBDA e : e.ev = ev)
WithoutDeltas(events) == FlattenSeq([n \in DOMAIN events |->
                             IF events[n].ev = "delta" THEN <<>> ELSE <<events[n]>>])

\* The calls of a text in place of the text, and the answer's end with them;
\* what follows the calls in the text is not sent on.  The arguments are
\* repaired by the pass that comes next, as EncodeToolCalls does before it.
RewriteBody(events) ==
    LET Has(ev) == \E n \in DOMAIN events : events[n].ev = ev
        Rewritten(parsed) ==
            IF parsed.calls = <<>> THEN events
            ELSE <<Event("content", parsed.prefix, NoCall)>>
                 \o [n \in DOMAIN parsed.calls |-> Event("call", <<>>, parsed.calls[n])]
                 \o <<Event("finish", <<>>, NoCall)>>
    IN  IF Has("call") \/ ~Has("content") THEN events
        ELSE Rewritten(ParseNativeMarkup(Content(events)))

\* What one event may become; text is that of the whole message, when known.
RepairPayload(e, text) ==
    LET Repaired(args) == {[e EXCEPT !.call.args = a] : a \in args}
        Inferred(named) == IF named # {e.call.args} THEN named
                           ELSE RepairToolCall(InferredName(e.call.args), e.call.args, text)
        Named(named) == IF e.ev = "done" THEN Inferred(named) ELSE named
    IN  IF e.ev \in {"call", "item", "done"}
        THEN Repaired(Named(RepairToolCall(e.call.name, e.call.args, text)))
        ELSE {e}

\* Every way to repair the events of a sequence.
Repairings(events, text) ==
    LET upTo[n \in 0 .. Len(events)] ==
            IF n = 0 THEN {<<>>}
            ELSE {Append(before, last) : before \in upTo[n - 1],
                                         last \in RepairPayload(events[n], text)}
    IN  upTo[Len(events)]

\* Once an event of a stream is repaired, no delta is sent on: they spell
\* the arguments as Grok wrote them.
RepairSSE(events) ==
    LET Repaired(kept) == Repairings(kept, <<>>)
    IN  Repaired(IF \E n \in DOMAIN events : events[n] \notin RepairPayload(events[n], <<>>)
                 THEN WithoutDeltas(events) ELSE events)

\* What a client may get for an answer that was collected: a stream, or one
\* JSON document, which is left alone when it is not whole.
RewriteHTTPResponse(answer, events, whole) ==
    LET Repaired(rewritten) == IF answer.kind = "json" THEN Repairings(rewritten, Content(rewritten))
                               ELSE RepairSSE(rewritten)
    IN  IF answer.status # 200 \/ (answer.kind = "json" /\ ~whole) THEN {events}
        ELSE Repaired(RewriteBody(events))
=============================================================================
