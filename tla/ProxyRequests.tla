---------------------------- MODULE ProxyRequests ----------------------------
(***************************************************************************)
(* One connection of the thinking proxy, from the bytes of the request to  *)
(* the last byte of the answer (proxy.go handleConnection, process.go,     *)
(* upstream.go): how much of the request has arrived when it is taken for  *)
(* whole, where it goes and what is changed in it, whose key it carries,   *)
(* and how the answer is relayed, collected or watched.                    *)
(*                                                                         *)
(* A request is a record: path is [base, call]; length tells whether it    *)
(* has a Content-Length; model, turns, thinking, tier and modelLast make   *)
(* its body (Doc), grok is the body in the form GrokRewrite takes; answer  *)
(* is [status, kind, events, prefix, calls], what the upstream says if it  *)
(* is let to and, for Grok, what it means by it.                           *)
(***************************************************************************)
EXTENDS ThinkingBlocks, GrokRewrite

CONSTANTS
    Requests,      \* the requests clients make
    BufferLimit,   \* how many events of a Grok answer are collected
    MaxChanges     \* bound: how often the user changes a setting meanwhile

\* An answer is a sequence of events of one API, and the second half of a line
\* comes next to the first.  A Responses stream tells the item each copy of a
\* call belongs to, and the copies it sends are alike.  What a client sends as
\* messages, as their blocks and as tools are arrays, and only function and
\* custom tools have a nested form.
IsSequence(s) == Len(s) \in Nat /\ s = [n \in 1 .. Len(s) |-> s[n]]
IsEvent(e) == e = Event(e.ev, e.text, e.call) /\ e.call = [name |-> e.call.name, args |-> e.call.args]
CopyEvents == {"delta", "done", "item"}
\* The items that end the call of event e.
ItemsOf(events, e) == {n \in DOMAIN events : events[n].ev = "item" /\ events[n].text = e.text}
IsCopy(e, item) == /\ e.call.args = item.call.args
                   /\ e.call.name = item.call.name \/ (e.ev # "item" /\ e.call.name = "none")
OfOneAPI(answer) ==
    LET events == answer.events
    IN  \A n \in DOMAIN events :
            IF answer.kind = "responses"
            THEN /\ events[n].ev \notin {"content", "call"}
                 /\ events[n].ev \in CopyEvents =>
                        /\ ItemsOf(events, events[n]) # {}
                        /\ \A m \in ItemsOf(events, events[n]) : IsCopy(events[n], events[m])
            ELSE events[n].ev \notin CopyEvents
ASSUME LimitAssumption == BufferLimit \in Nat /\ MaxChanges \in Nat
ASSUME RequestsAssumption ==
    \A r \in Requests :
        /\ IsSequence(r.answer.events) /\ OfOneAPI(r.answer)
        /\ \A n \in DOMAIN r.answer.events : IsEvent(r.answer.events[n])
        /\ \A n \in DOMAIN r.answer.events :
               r.answer.events[n].ev = "ort" => n > 1 /\ r.answer.events[n - 1].ev = "rep"
        /\ IsSequence(r.turns)
        /\ \A n \in DOMAIN r.turns : IsSequence(r.turns[n].types)
        /\ IsSequence(r.grok.tools)
        /\ \A n \in DOMAIN r.grok.tools :
               r.grok.tools[n].type \in {"function", "custom"} \/ r.grok.tools[n].shape = "flat"

VARIABLES
    request,       \* the request of this connection
    stage,         \* how far it is
    body,          \* the tokens of its body that were read
    sent,          \* what goes upstream: [dest, path, betas, text, grok, key]
    left,          \* the events of the answer that are still to come
    acc,           \* those that are collected (Grok), or read and not yet written (Meta)
    client,        \* what the client has got: [status, events]
    cut,           \* the answer ended before its last event
    pending,       \* the usage scanner holds half of a line (Meta)
    usage,         \* the usage reports recorded: <<account, number>>
    settings,      \* [grok, meta, fast]: providers enabled, fast mode
    accounts,      \* Meta accounts in order: is the key usable
    changes,
    everOn         \* history: providers enabled at some time since the request came

conn == <<request, stage, body, sent, left, acc, client, cut, pending, usage>>
env == <<settings, accounts, changes, everOn>>
requestVars == <<conn, env>>
-----------------------------------------------------------------------------
(* The body a client sends *)

DocOf(r, model, messages, priority) ==
    LET first == << <<"model", Str(model)>> >>
                 \o (IF priority THEN << <<"service_tier", Str("priority")>> >> ELSE <<>>)
        others == << <<"messages", Arr(messages)>> >>
                  \o (IF r.thinking = "" THEN <<>>
                      ELSE << <<"thinking", Obj(<< <<"type", Str(r.thinking)>> >>)>> >>)
                  \o (IF r.tier THEN << <<"service_tier", Str("flex")>> >> ELSE <<>>)
    IN  Obj(IF r.modelLast THEN others \o first ELSE first \o others)
Doc(r) == DocOf(r, r.model, [n \in DOMAIN r.turns |-> Message(r.turns[n])], FALSE)
Bytes == Doc(request)
-----------------------------------------------------------------------------
(* What the proxy reads in a request *)

Aliases == [m \in {"ag-c46s-thinking"} |-> "claude-sonnet-4-6"]
IsClaudeModel(m) == m \in {"claude-sonnet-4-6", "gemini-claude-1"}
IsGrokModel(m) == m \in {"grok-4.7", "grok-4.7-build-fast"}
IsMetaModel(m) == m \in {"muse-spark-1.3"}
IsOAuthCodeAssistGeminiModel(m) == m = "gemini-3-preview"
HasFastMode(m) == m = "gpt-6-sol"
Ours(m) == IsGrokModel(m) \/ IsMetaModel(m)

RoutingInspectionKeys == {"model", "service_tier", "thinking"}
InspectRequestJSONFields(s) ==
    LET Fields(at, thinking) ==
            [model |-> StringAt(s, at["model"]), modelLoc |-> at["model"],
             thinkingType |-> StringField(s, thinking.lo, thinking.hi, "type"),
             tier |-> Present(at["service_tier"])]
        Read(found) ==
            IF found.ok THEN Fields(found.at, found.at["thinking"])
            ELSE [model |-> "", modelLoc |-> NotThere, thinkingType |-> "", tier |-> FALSE]
    IN  Read(FieldLocations(s, 1, Len(s) + 1, RoutingInspectionKeys))

IsResponsesAPIPath(path) == path.base \in {"/v1", "/api/v1"} /\ path.call = "responses"
ShouldTLSForward(model, path) == IsMetaModel(model) /\ path.call = "responses"
UpstreamHost(model) ==
    IF model = "grok-4.7-build-fast" THEN "cli-chat-proxy.grok.com" ELSE "api.x.ai"
NormalizeUpstreamPath(path) == [path EXCEPT !.base = "/v1"]

RewriteAntigravityModelAlias(s, fields) ==
    IF fields.model \in DOMAIN Aliases
    THEN Splice(s, {[lo |-> fields.modelLoc.lo, hi |-> fields.modelLoc.hi,
                     text |-> <<Aliases[fields.model]>>]})
    ELSE s

ProcessOpenAIFastMode(s, path, fields) ==
    IF /\ IsResponsesAPIPath(path)
       /\ HasFastMode(fields.model) /\ settings.fast
       /\ ~fields.tier
    THEN Splice(s, {[lo |-> fields.modelLoc.hi, hi |-> fields.modelLoc.hi,
                     text |-> <<",", "service_tier", ":", "priority">>]})
    ELSE s

SanitizeClaude(s, fields) == IF IsClaudeModel(fields.model) THEN SanitizeThinkingBlocks(s) ELSE s

\* The text of a POST for the backend, each step on the result of the last.
BackendText(s, path, fields) ==
    LET ThenClaude(fast) == SanitizeClaude(fast, InspectRequestJSONFields(fast))
    IN  ThenClaude(ProcessOpenAIFastMode(s, path, fields))

HeadersForForwarding(betas, fields) ==
    IF IsClaudeModel(fields.model)
    THEN RewriteAnthropicBeta(betas, fields.thinkingType \in {"enabled", "adaptive", "auto"})
    ELSE betas
-----------------------------------------------------------------------------
NoBody == [tools |-> <<>>, choice |-> "none", parallel |-> FALSE, input |-> <<>>]
Unsent == [dest |-> "none", path |-> [base |-> "", call |-> ""], betas |-> <<>>,
           text |-> <<>>, grok |-> NoBody, key |-> 0]

RequestInit ==
    /\ request \in Requests
    /\ stage = "reading" /\ body = <<>> /\ sent = Unsent
    /\ left = request.answer.events /\ acc = <<>> /\ cut = FALSE
    /\ client = [status |-> 0, events |-> <<>>]
    /\ pending = FALSE /\ usage = <<>>
    /\ settings \in [grok : BOOLEAN, meta : BOOLEAN, fast : BOOLEAN]
    /\ \A p \in {"grok", "meta"} : settings[p] \/ Ours(request.model)
    /\ settings.fast \/ HasFastMode(request.model)
    /\ accounts \in IF IsMetaModel(request.model) THEN [1..2 -> BOOLEAN] ELSE {<<TRUE, TRUE>>}
    /\ changes = 0
    /\ everOn = {p \in {"grok", "meta"} : settings[p]}

\* readHTTPRequest: the header is complete, with this many tokens of the body.
\* Without a Content-Length the request ends here, whatever was read with it.
ReadHeader ==
    /\ stage = "reading"
    /\ \E bytes \in {Bytes} : \E n \in {0, Len(bytes) \div 2, Len(bytes) - 1, Len(bytes)} :
           /\ body' = SubSeq(bytes, 1, n)
           /\ stage' = IF ~request.length \/ n = Len(bytes)
                       THEN "process" ELSE "body"
    /\ UNCHANGED <<request, sent, left, acc, client, cut, pending, usage, env>>

ReadBody ==
    /\ stage = "body"
    /\ body' = Bytes
    /\ stage' = "process"
    /\ UNCHANGED <<request, sent, left, acc, client, cut, pending, usage, env>>

\* The client closes its side: what was read of the body is the body, and
\* without a header the request is refused.
ClientHalfCloses ==
    /\ stage \in {"reading", "body"}
    /\ IF stage = "body" THEN stage' = "process" /\ UNCHANGED client
       ELSE stage' = "over" /\ client' = [client EXCEPT !.status = 400]
    /\ UNCHANGED <<request, body, sent, left, acc, cut, pending, usage, env>>

RefuseRequest(status) ==
    /\ stage' = "over"
    /\ client' = [client EXCEPT !.status = status]
    /\ UNCHANGED <<request, body, sent, left, acc, cut, pending, usage, env>>

\* processRequest up to the forwarding call, for the three destinations.  The
\* singletons name the text once its alias is replaced and what is read in it.
Aliased(s, fields) == {RewriteAntigravityModelAlias(s, fields)}
Posted == IF stage = "process" /\ request.method = "POST"
          THEN Aliased(body, InspectRequestJSONFields(body)) ELSE {}

\* The body for Grok; one that is cut off does not parse and stays as it is.
GrokBody == IF body = Bytes THEN SanitizeRequestBody(request.grok) ELSE request.grok

ProcessGrok_Ungated ==
    LET Forwarded(text, fields) ==
            [Unsent EXCEPT !.dest = UpstreamHost(fields.model),
                           !.path = NormalizeUpstreamPath(request.path),
                           !.text = text,
                           !.grok = GrokBody]
    IN  \E text \in Posted : \E fields \in {InspectRequestJSONFields(text)} :
           /\ IsGrokModel(fields.model)
           /\ stage' = "token" /\ sent' = Forwarded(text, fields)
           /\ UNCHANGED <<request, body, left, acc, client, cut, pending, usage, env>>

ProcessGrok ==
    LET Forwarded(text, fields) ==
            [Unsent EXCEPT !.dest = UpstreamHost(fields.model),
                           !.path = NormalizeUpstreamPath(request.path),
                           !.text = text,
                           !.grok = GrokBody]
    IN  \E text \in Posted : \E fields \in {InspectRequestJSONFields(text)} :
           /\ IsGrokModel(fields.model)
           /\ IF settings.grok
              THEN /\ stage' = "token" /\ sent' = Forwarded(text, fields)
                   /\ UNCHANGED <<request, body, left, acc, client, cut, pending, usage, env>>
              ELSE RefuseRequest(400) /\ UNCHANGED sent

ProcessMeta ==
    \E text \in Posted : \E fields \in {InspectRequestJSONFields(text)} :
        /\ IsMetaModel(fields.model)
        /\ settings.meta => ShouldTLSForward(fields.model, request.path)
        /\ IF settings.meta
           THEN /\ stage' = "account"
                /\ sent' = [Unsent EXCEPT !.dest = "api.meta.ai",
                                          !.path = NormalizeUpstreamPath(request.path),
                                          !.text = text]
                /\ UNCHANGED <<request, body, left, acc, client, cut, pending, usage, env>>
           ELSE RefuseRequest(400) /\ UNCHANGED sent

\* forwardRequest: the path and the header follow what the text says now.
ForwardToBackend(text) ==
    \E fields \in {InspectRequestJSONFields(text)} :
        LET toChat == IsResponsesAPIPath(request.path) /\ IsOAuthCodeAssistGeminiModel(fields.model)
        IN  /\ stage' = "dial"
            /\ sent' = [Unsent EXCEPT !.dest = "backend",
                                      !.path = IF toChat THEN [request.path EXCEPT !.call = "chat/completions"]
                                               ELSE request.path,
                                      !.betas = HeadersForForwarding(request.betas, fields),
                                      !.text = text]
            /\ UNCHANGED <<request, body, left, acc, client, cut, pending, usage, env>>

ProcessBackend ==
    \/ stage = "process" /\ request.method # "POST" /\ ForwardToBackend(body)
    \/ \E text \in Posted : \E fields \in {InspectRequestJSONFields(text)} :
           /\ ~IsGrokModel(fields.model)
           /\ IsMetaModel(fields.model) => settings.meta /\ ~ShouldTLSForward(fields.model, request.path)
           /\ \E edited \in {BackendText(text, request.path, fields)} : ForwardToBackend(edited)

\* resolveGrokToken (GrokToken has what it does): a token, or no login, or
\* another failure.
ResolveToken ==
    /\ stage = "token"
    /\ \/ stage' = "dial" /\ UNCHANGED <<request, body, sent, left, acc, client, cut, pending, usage, env>>
       \/ RefuseRequest(401) /\ UNCHANGED sent
       \/ RefuseRequest(502) /\ UNCHANGED sent

\* resolveMetaServingAccount: the first account that is usable now.
ResolveAccount ==
    LET usable == {n \in DOMAIN accounts : accounts[n]}
    IN  /\ stage = "account"
        /\ IF usable = {} THEN RefuseRequest(401) /\ UNCHANGED sent
           ELSE /\ stage' = "dial"
                /\ sent' = [sent EXCEPT !.key = Min(usable)]
                /\ UNCHANGED <<request, body, left, acc, client, cut, pending, usage, env>>

Dial ==
    /\ stage = "dial"
    /\ \/ stage' = "relay" /\ UNCHANGED <<request, body, sent, left, acc, client, cut, pending, usage, env>>
       \/ RefuseRequest(502) /\ UNCHANGED sent

\* The request cannot be written: the connection is closed without an answer.
SendFails ==
    /\ stage = "relay" /\ left = request.answer.events
    /\ stage' = "over"
    /\ UNCHANGED <<request, body, sent, left, acc, client, cut, pending, usage, env>>
-----------------------------------------------------------------------------
(* The answer *)

Collected == sent.dest \in {"api.x.ai", "cli-chat-proxy.grok.com"}

Got(events) == [status |-> request.answer.status, events |-> client.events \o events]

Scan_ChunkByChunk(e) ==
    /\ pending' = FALSE
    /\ usage' = IF e.ev = "report" \/ (e.ev = "ort" /\ pending)
                THEN Append(usage, <<sent.key, e.text>>) ELSE usage

\* ScanUsageChunk for event e of a chunk.  A usage report is one line, which
\* arrives whole ("report") or broken between two chunks ("rep", "ort"); a
\* line is read when its end is there.  Lines have no more than 16 KiB, and
\* none is broken by the framing of a chunked answer.
Scan(e) ==
    /\ pending' = (e.ev = "rep")
    /\ usage' = IF e.ev = "report" \/ (e.ev = "ort" /\ pending)
                THEN Append(usage, <<sent.key, e.text>>) ELSE usage

\* A chunk is passed on at once; one of a collected answer is kept, until
\* they are too many and all of them are passed on as they are.
PassOn ==
    /\ stage \in {"relay", "stream"} /\ left # <<>> /\ sent.dest # "api.meta.ai"
    /\ stage = "relay" => ~Collected
    /\ left' = Tail(left)
    /\ client' = Got(<<Head(left)>>)
    /\ UNCHANGED <<request, stage, body, sent, acc, cut, pending, usage, env>>

\* A chunk of Meta's, of as many events as it has: what it reports is recorded
\* before it is written.
ReadMetaChunk ==
    /\ stage = "relay" /\ sent.dest = "api.meta.ai" /\ left # <<>>
    /\ left' = Tail(left)
    /\ acc' = Append(acc, Head(left))
    /\ Scan(Head(left))
    /\ UNCHANGED <<request, stage, body, sent, client, cut, env>>

WriteMetaChunk ==
    /\ stage = "relay" /\ sent.dest = "api.meta.ai" /\ acc # <<>>
    /\ client' = Got(acc)
    /\ acc' = <<>>
    /\ UNCHANGED <<request, stage, body, sent, left, cut, pending, usage, env>>

Collect_LastKept ==
    LET all == Append(acc, Head(left))
        full == Len(all) > BufferLimit
    IN  /\ stage = "relay" /\ Collected /\ left # <<>>
        /\ left' = Tail(left)
        /\ acc' = IF full THEN <<>> ELSE all
        /\ client' = IF full THEN Got(acc) ELSE client
        /\ stage' = IF full THEN "stream" ELSE stage
        /\ UNCHANGED <<request, body, sent, cut, pending, usage, env>>

Collect ==
    LET all == Append(acc, Head(left))
        full == Len(all) > BufferLimit
    IN  /\ stage = "relay" /\ Collected /\ left # <<>>
        /\ left' = Tail(left)
        /\ acc' = IF full THEN <<>> ELSE all
        /\ client' = IF full THEN Got(all) ELSE client
        /\ stage' = IF full THEN "stream" ELSE stage
        /\ UNCHANGED <<request, body, sent, cut, pending, usage, env>>

\* The upstream closes or fails, after its last event or before; what was
\* collected is rewritten as if it were all.
UpstreamEnds ==
    /\ stage \in {"relay", "stream"}
    /\ sent.dest = "api.meta.ai" => acc = <<>>
    /\ cut' = (left # <<>>)
    /\ stage' = "over"
    /\ IF acc = <<>> THEN UNCHANGED client
       ELSE \E out \in RewriteHTTPResponse(request.answer, acc, left = <<>>) : client' = Got(out)
    /\ UNCHANGED <<request, body, sent, left, acc, pending, usage, env>>

\* The client is gone, or its ten minutes are over: a write fails, and what
\* was to be written is lost.
WriteFails ==
    /\ stage \in {"relay", "stream"}
    /\ sent.dest = "api.meta.ai" => acc # <<>>
    /\ stage' = "over" /\ cut' = TRUE
    /\ UNCHANGED <<request, body, sent, left, acc, client, pending, usage, env>>
-----------------------------------------------------------------------------
(* The user, meanwhile: a provider is switched, a Meta account disabled or *)
(* expired.                                                                *)

SwitchProvider ==
    /\ changes < MaxChanges /\ stage \in {"reading", "body", "process", "token", "account"}
    /\ changes' = changes + 1
    /\ \E p \in {"grok", "meta"} :
           /\ Ours(request.model)
           /\ settings' = [settings EXCEPT ![p] = ~@]
           /\ everOn' = IF settings[p] THEN everOn ELSE everOn \cup {p}
    /\ UNCHANGED <<conn, accounts>>

AccountEnds ==
    /\ changes < MaxChanges /\ IsMetaModel(request.model) /\ stage # "over"
    /\ changes' = changes + 1
    /\ \E n \in DOMAIN accounts : accounts[n] /\ accounts' = [accounts EXCEPT ![n] = FALSE]
    /\ UNCHANGED <<conn, settings, everOn>>

RequestNext ==
    \/ ReadHeader \/ ReadBody \/ ClientHalfCloses
    \/ ProcessGrok \/ ProcessMeta \/ ProcessBackend
    \/ ResolveToken \/ ResolveAccount \/ Dial \/ SendFails
    \/ PassOn \/ ReadMetaChunk \/ WriteMetaChunk \/ Collect \/ UpstreamEnds \/ WriteFails
    \/ SwitchProvider \/ AccountEnds

RequestSpec == RequestInit /\ [][RequestNext]_requestVars
-----------------------------------------------------------------------------
(* What a tool call needs before Factory takes it, and what it may hold in *)
(* place of it.                                                            *)

Usable(call) ==
    CASE call.name \in ExecuteToolNames -> CommandString(call.args, "command") # <<>>
      [] call.name = "Read" -> CommandString(call.args, "file_path") # <<>>
      [] call.name = "Grep" -> CommandString(call.args, "pattern") # <<>>
      [] call.name \in EndFeatureRunToolNames ->
             /\ "handoff" \in DOMAIN call.args /\ call.args["handoff"] # <<"{object}">>
             /\ CommandString(call.args, "validatorsPassed") = <<>>
             /\ CommandString(call.args, "successState") = <<"success">>
                    => "validatorsPassed" \in DOMAIN call.args
      [] OTHER -> TRUE
Recoverable(call) ==
    LET says(keys) == \E k \in keys : CommandString(call.args, k) # <<>>
    IN  CASE call.name \in ExecuteToolNames -> says({"cmd", "shell", "bash", "script", "input"})
          [] call.name = "Read" -> says({"path", "file", "filename"})
          [] call.name = "Grep" -> says({"regex", "query", "search"})
          [] OTHER -> call.name \in EndFeatureRunToolNames
\* A call that was fine is delivered as it is, one that can be saved usable.
DeliveredAs(call, meant) ==
    /\ call.name = meant.name
    /\ Usable(meant) => call.args = meant.args
    /\ Recoverable(meant) => Usable(call)

Whole ==
    /\ stage = "over" /\ ~cut /\ left = <<>>
    /\ sent.dest # "none" /\ client.status = request.answer.status
Rewritable == Collected /\ request.answer.status = 200 /\ Len(request.answer.events) <= BufferLimit

\* An answer that is not rewritten and came to its end reaches the client
\* complete and in order, also when more of it came than is collected
\* (upstream.go relay functions).
DeliveredUnchanged == Whole /\ ~Rewritable => client.events = request.answer.events

\* The calls that a text holds as JSON can be told from what it quotes: they
\* are its only JSON, either each in a fence and nothing else in one, or all
\* of them bare.
TellsCalls(text) ==
    LET marks == SelectSeq(text, LAMBDA w : w \in JsonValues \cup {"fence"})
    IN  \/ \A n \in DOMAIN marks : marks[n] = "{call}"
        \/ \A n \in DOMAIN marks : marks[n] = IF n % 3 = 2 THEN "{call}" ELSE "fence"

\* One that is rewritten keeps what was said before its calls; Grok's calls,
\* in its markup, as JSON in its text or as calls of their own, reach the
\* client each once, with arguments the client can use.  What is said after
\* the calls is lost, and a text that quotes JSON or code beside its calls, or
\* quotes an object with a name, may be misread (native_tool_call_rewriter.go).
DeliveredAsMeant ==
    Whole /\ Rewritable /\ request.answer.kind # "responses"
          /\ TellsCalls(Content(request.answer.events)) =>
        LET calls == Are(client.events, "call")
        IN  /\ Content(client.events) = request.answer.prefix
            /\ Len(calls) = Len(request.answer.calls)
            /\ \A n \in DOMAIN calls : DeliveredAs(calls[n].call, request.answer.calls[n])

\* An answer that has calls of its own, not in markup, keeps each event in its
\* place: the repair changes nothing but the arguments of calls, and those only
\* to make them usable (end_feature_run_repair.go).
CallsKept ==
    LET given == request.answer.events
    IN  Whole /\ Rewritable /\ request.answer.kind # "responses"
              /\ (\E n \in DOMAIN given : given[n].ev = "call") =>
            /\ Len(client.events) = Len(given)
            /\ \A n \in DOMAIN given :
                   IF given[n].ev # "call" THEN client.events[n] = given[n]
                   ELSE /\ client.events[n] = [given[n] EXCEPT !.call.args = client.events[n].call.args]
                        /\ DeliveredAs(client.events[n].call, given[n].call)

\* The copies of a call's arguments that a Responses stream delivers while it
\* runs are all the same, although each is repaired on its own
\* (end_feature_run_repair.go RepairSSE).  Two ways to differ are known: two
\* sources for a command, of which each repair takes any, and arguments that
\* look like those of another tool, or of none, where no name is given.
Doubtful(call) ==
    LET Differ(named, inferred) == (\E a, b \in named : a # b) \/ inferred # named
    IN  Differ(RepairToolCall(call.name, call.args, <<>>),
               RepairToolCall(InferredName(call.args), call.args, <<>>))
CopiesAgree ==
    Whole /\ Rewritable /\ request.answer.kind = "responses"
          /\ (\A n \in DOMAIN request.answer.events :
                  LET e == request.answer.events[n]
                  IN  e.ev = "item" => ~Doubtful(e.call)) =>
        \A i, j \in DOMAIN client.events :
            LET a == client.events[i]
                b == client.events[j]
            IN  a.text = b.text /\ {a.ev, b.ev} \subseteq CopyEvents
                    => a.call.args = b.call.args

\* All four: what reaches the client means what was sent.
AnswerAsMeant == DeliveredUnchanged /\ DeliveredAsMeant /\ CallsKept /\ CopiesAgree

\* The usage recorded is, report by report and in order, what came in the
\* events passed on to the client and then in those of the chunk that is to be
\* written next, or whose write failed; each report once, for the account whose
\* key the request carried, also when its line is broken between two chunks
\* (upstream.go relayMetaResponse, meta_muse_usage_store.go).
UsageSeen ==
    LET seen == client.events \o acc
        reports == {n \in DOMAIN seen : seen[n].ev \in {"report", "ort"}}
        Place(n) == Cardinality({m \in reports : m <= n})
    IN  sent.dest = "api.meta.ai" =>
            /\ Len(usage) = Cardinality(reports)
            /\ \A n \in reports : usage[Place(n)] = <<sent.key, seen[n].text>>

\* No connection is opened to a provider that was disabled all the time since
\* the request came (process.go).
DisabledNotDialled ==
    /\ Collected => "grok" \in everOn
    /\ sent.dest = "api.meta.ai" => "meta" \in everOn
\* Nothing that is posted for a model of such a provider is sent on, not to
\* the backend either, which serves some of Meta's.  What is not posted goes
\* to the backend unread.
DisabledStaysOut ==
    /\ DisabledNotDialled
    /\ sent.dest = "backend" /\ request.method = "POST"
        /\ IsMetaModel(InspectRequestJSONFields(sent.text).model) => "meta" \in everOn

\* A request for api.x.ai whose body came whole is one it takes by the rules
\* of the comment at the head of grok_request_sanitizer.go, whatever the tools
\* and the calls of the client were, if those arguments that are not rewritten
\* hold an object.
AcceptedByXai == Collected /\ body = Bytes /\ WellArgued(request.grok) => XaiAccepts(sent.grok)

\* The body edited as text is the body that was meant, every token of it: the
\* alias replaced, the tier given, the thinking of finished turns taken out
\* and that of the open tool loop kept; and the names Claude must not see are
\* not in the header (process.go, json.go, the claude package).
MeantDoc ==
    LET r == request
        model == IF r.model \in DOMAIN Aliases THEN Aliases[r.model] ELSE r.model
        priority == /\ r.path.call = "responses" /\ r.path.base # ""
                    /\ HasFastMode(model) /\ settings.fast /\ ~r.tier
    IN  IF r.method # "POST" THEN Doc(r)
        ELSE DocOf(r, model, [n \in DOMAIN r.turns |-> IF IsClaudeModel(model) THEN MeantTurn(r.turns, n)
                                                       ELSE Message(r.turns[n])], priority)
MeantBetas(betas) ==
    LET names == {betas[n] : n \in DOMAIN betas}
        given == {request.betas[n] : n \in DOMAIN request.betas}
        visible == {VisibleThinkingBetas[n] : n \in DOMAIN VisibleThinkingBetas}
        kept == {b \in given : ~IsFastModeBeta(b)}
    IN  /\ Cardinality(names) = Len(betas)
        /\ names = IF request.thinking = "enabled"
                   THEN (kept \cup visible) \ {RedactedThinkingBeta} ELSE kept
ForwardedAsMeant ==
    sent.dest = "backend" /\ body = Bytes =>
        /\ sent.text = MeantDoc
        /\ IsClaudeModel(InspectRequestJSONFields(sent.text).model) => MeantBetas(sent.betas)
        /\ sent.path.call = request.path.call \/
               (sent.path.call = "chat/completions" /\ request.model = "gemini-3-preview")
=============================================================================
