-------------------------- MODULE MCProxyRequests --------------------------
(* The requests of the model: one group for each way through the proxy.    *)
EXTENDS ProxyRequests

Reply(status, kind, events, prefix, calls) ==
    [status |-> status, kind |-> kind, events |-> events, prefix |-> prefix, calls |-> calls]
Hello == Reply(200, "sse", <<Event("content", <<"hi">>, NoCall), Event("finish", <<>>, NoCall)>>,
               <<"hi">>, <<>>)
User(types) == [role |-> "user", types |-> types, plain |-> FALSE]
Assistant(types) == [role |-> "assistant", types |-> types, plain |-> FALSE]
Says == [role |-> "user", types |-> <<>>, plain |-> TRUE]
Plain == [method |-> "POST", path |-> [base |-> "/v1", call |-> "messages"], betas |-> <<>>,
          length |-> TRUE, model |-> "other", turns |-> <<Says>>, thinking |-> "", tier |-> FALSE,
          modelLast |-> FALSE, grok |-> NoBody, answer |-> Hello]

\* Claude conversations: what the last assistant turn holds, what a turn
\* before it holds, and how the user answers.
Types == UNION {[1..n -> {"thinking", "text", "tool_use"}] : n \in 0..3}
Conversations ==
    {<<Says, Assistant(<<"redacted_thinking", "tool_use", "thinking">>), User(<<"tool_result">>),
       Assistant(t), u>> : t \in Types, u \in {User(<<"tool_result">>), User(<<"text">>)}}
    \cup {<<Assistant(<<"thinking">>), User(<<"text", "tool_result">>), Says, Assistant(<<"thinking", "tool_use">>),
            User(<<"tool_result">>), User(<<"text", "tool_result">>)>>,
          <<Says, [Assistant(<<>>) EXCEPT !.plain = TRUE]>>, <<>>}
ClaudeRequests ==
    {[Plain EXCEPT !.model = "claude-sonnet-4-6", !.turns = c] : c \in Conversations}
    \cup {[Plain EXCEPT !.model = "ag-c46s-thinking", !.modelLast = TRUE, !.thinking = t, !.betas = b,
                        !.turns = <<Says, Assistant(<<"thinking">>), Says>>] :
             t \in {"", "enabled", "disabled"},
             b \in {<<>>, <<"fast-mode-a">>, <<"redact-thinking", "oauth", "fast-mode-b">>}}
OtherRequests ==
    {[Plain EXCEPT !.model = m, !.path = [base |-> b, call |-> c], !.tier = t, !.modelLast = l] :
        m \in {"gpt-6-sol", "gemini-3-preview"}, b \in {"", "/v1", "/api/v1"},
        c \in {"responses", "chat/completions"}, t \in BOOLEAN, l \in BOOLEAN}
    \cup {[Plain EXCEPT !.method = "GET"], [Plain EXCEPT !.length = FALSE],
          [Plain EXCEPT !.model = "claude-sonnet-4-6", !.length = FALSE, !.method = "GET"]}

\* Meta: usage reports whole and in halves, and both kinds of path.
MetaRequests ==
    {[Plain EXCEPT !.model = "muse-spark-1.3", !.path = [base |-> "/api/v1", call |-> c],
                   !.answer = Reply(200, "sse",
                       <<Event("report", <<"one">>, NoCall), Event("content", <<"hi">>, NoCall),
                         Event("rep", <<>>, NoCall), Event("ort", <<"two">>, NoCall)>>, <<>>, <<>>)] :
        c \in {"responses", "chat/completions"}}

\* Grok: the tools of a request ...
Tool(type, shape, name) == [type |-> type, shape |-> shape, name |-> name, command |-> FALSE]
Item(type, input, args) == [type |-> type, input |-> input, arguments |-> args]
Input(input, args) == <<Item("message", "absent", "absent"), Item("custom_tool_call", input, args),
                        Item("custom_tool_call_output", "absent", "absent"),
                        Item("function_call", "absent", "objectText")>>
GrokBodies ==
    {[tools |-> t, choice |-> c, parallel |-> TRUE, input |-> Input("text", "absent")] :
        t \in SeqOf({Tool("custom", "nested", "Execute"), Tool("function", "flat", ""),
                     Tool("local_shell", "flat", "sh"), Tool("web_search", "flat", "")}, 2),
        c \in {"none", "auto", "custom", "nested"}}
    \cup {[tools |-> <<>>, choice |-> "none", parallel |-> FALSE, input |-> Input(i, a)] :
              i \in {"absent", "objectText", "tailed", "object", "other"},
              a \in {"absent", "object", "other"} \cup Strings}
\* ... and its answers: calls in markup, told word by word, with and without
\* the markers at their end ...
Words(text) == [n \in DOMAIN text |-> Event("content", <<text[n]>>, NoCall)]
Call(name, args) == [name |-> name, args |-> args]
Ls == <<CallBegin, "Execute", "nl", ToolSep, "command", "nl", "ls", "src", "nl">>
Cmd == <<CallBegin, "Execute", ToolSep, "cmd", ":", "ls", "nl">>
Write == <<CallBegin, "nl", "Write", "nl", ToolSep, "path", "nl", "a", "nl", ToolSep, "contents", "nl", "b", "nl">>
LsCall == Call("Execute", "command" :> <<"ls", "src">>)
MarkupAnswers ==
    {Reply(200, kind, Words(<<"hi", CallsBegin>> \o calls[1] \o end), <<"hi">>, calls[2]) :
        kind \in {"sse", "json"}, end \in {<<>>, <<CallEnd, CallsEnd>>, <<CallEnd, "nl", CallsEnd, "bye">>},
        calls \in {<<Ls, <<LsCall>> >>, <<Ls \o <<CallEnd>> \o Ls, <<LsCall>> >>, <<Ls \o Cmd,
                     <<LsCall, Call("Execute", "cmd" :> <<"ls">>)>> >>,
                   <<Write \o <<CallEnd, "nl">> \o Ls,
                     <<Call("Create", ("file_path" :> <<"a">>) @@ ("content" :> <<"b">>)), LsCall>> >>}}
\* ... calls as JSON in the text, fenced or bare, and text that only quotes
\* JSON or code ...
JsonCalls(n) == [i \in 1..n |-> JsonCall["{call}"]]
InFence(word) == <<"fence", word, "fence">>
ProseAnswers ==
    {Reply(200, kind, Words(a[1]), <<"hi">>, JsonCalls(a[2])) :
        kind \in {"sse", "json"},
        a \in {<< <<"hi", "{call}">>, 1>>, << <<"hi", "{call}", "{call}", "bye">>, 1>>,
               << <<"hi">> \o InFence("{call}") \o <<"nl">> \o InFence("{call}") \o <<"bye">>, 1>>,
               << <<"hi">> \o InFence("{package}"), 0>>, << <<"hi", "{data}", "so", "{call}">>, 1>>,
               << <<"hi">> \o InFence("ls") \o <<"{call}">>, 1>>}}
\* ... calls of their own ...
Native(c) == Reply(200, "sse", <<Event("call", <<>>, c), Event("finish", <<>>, NoCall)>>, <<>>, <<c>>)
GrokCalls ==
    {Call("Execute", "command" :> <<"make">>), Call("Execute", ("summary" :> <<"list">>) @@ ("script" :> <<"ls">>)),
     Call("Execute", "summary" :> <<"list">>), Call("Read", "path" :> <<"a">>), Call("Grep", "regex" :> <<"x">>),
     Call("Execute", ("commands" :> <<"ls">>) @@ ("command_line" :> <<"pwd">>)),
     Call("EndFeatureRun", ("successState" :> <<"success">>) @@ ("tests" :> <<"ok">>)),
     Call("EndFeatureRun", ("validatorsPassed" :> <<"true", "yes">>) @@ ("handoff" :> <<"{object}">>)),
     Call("LS", "path" :> <<"a">>)}
\* ... and Responses streams that repeat the arguments of one or two calls.
Copies(c, id, named) ==
    <<Event("delta", <<id>>, [c EXCEPT !.name = "none"]),
      Event("done", <<id>>, IF named THEN c ELSE [c EXCEPT !.name = "none"]), Event("item", <<id>>, c)>>
Stream(events) == Reply(200, "responses", events, <<>>, <<>>)
ResponsesAnswers ==
    {Stream(Copies(c, "1", named) \o Copies(d, "2", named)) :
        c \in GrokCalls, d \in {Call("Execute", "command" :> <<"make">>), Call("Read", "path" :> <<"a">>)},
        named \in BOOLEAN}
LongAnswer == Reply(200, "sse", Words([n \in 1..BufferLimit + 2 |-> IF n = 2 THEN CallsBegin ELSE "w"]), <<>>, <<>>)
GrokAnswers == MarkupAnswers \cup ProseAnswers \cup ResponsesAnswers \cup {Native(c) : c \in GrokCalls}
               \cup {LongAnswer, [Hello EXCEPT !.status = 429]}
GrokRequest == [Plain EXCEPT !.model = "grok-4.7", !.path = [base |-> "", call |-> "responses"]]
GrokRequests ==
    {[GrokRequest EXCEPT !.grok = b, !.model = "grok-4.7-build-fast"] : b \in GrokBodies}
    \cup {[GrokRequest EXCEPT !.grok = b, !.thinking = "enabled", !.tier = TRUE] :
              b \in {[tools |-> <<>>, choice |-> "auto", parallel |-> TRUE, input |-> Input("text", "absent")]}}
    \cup {[GrokRequest EXCEPT !.answer = a] : a \in GrokAnswers}

AllRequests == ClaudeRequests \cup OtherRequests \cup MetaRequests \cup GrokRequests

=============================================================================
