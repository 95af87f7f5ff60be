------------------------------ MODULE Gateway ------------------------------
(***************************************************************************)
(* The path of a /v1/messages request (src/routes/messages/handler.ts and  *)
(* the non-streaming flows of api-flows.ts): the background check of the   *)
(* model list, the rate limit, the preparation of the messages, the manual *)
(* approval, the choice of the upstream API, the translation of the        *)
(* request and of the answer, and the record of its usage.                 *)
(*                                                                         *)
(* Clients hold conversations.  A client sends its whole history with each *)
(* request, answers every call of an answer that stops for tool_use, and   *)
(* sends the same history again when a request failed or its answer was    *)
(* cut short with calls in it.                                             *)
(***************************************************************************)
EXTENDS ChatPayload, ResponsesPayload, ModelCatalog, UsageTally

CONSTANTS
  Worlds,    \* the settings and clients a behaviour may be run with
  RateLimit  \* ticks --rate-limit asks for between requests

ASSUME GatewayAssumption == RateLimit \in Nat

VARIABLES
  world,        \* [clients, talk, turns, system, models, catalog, messagesApi, limit,
                \*  manual, clock, counts, faults]
  lastRequest,  \* ticks since state.lastRequestTimestamp
  phase,        \* per client, where its request stands
  nap,          \* per client, the sleep of the rate limit: ticks left and ticks since arrival
  convo,        \* per client, the messages of its conversation
  model,        \* per client, the model its request names
  sent,         \* per client, the upstream request under way
  faults        \* upstream failures so far

gatewayVars == <<lastRequest, phase, nap, convo, model, sent, faults>>
vars == <<world, gatewayVars, catalogVars, usageVars>>

Clients == world.clients
Talks   == {"varied", "rich", "short"}
Systems == {"plain", "compact"}  \* what the system prompt asks for
Phases  == {"idle", "limited", "reading", "approving", "asked", "listing", "fetching"}
APIs    == {"messages", "responses", "chat"}
Models  == {"claude", "gpt", "other"}

ASSUME WorldsAssumption ==
  \A w \in Worlds :
    w.talk \in Talks /\ w.system \in Systems /\ w.models \subseteq Models /\ w.catalog \in Lists /\ w.faults \in Nat

Awake     == [left |-> 0, since |-> 0]
NothingSent == [api |-> "none", model |-> "none", payload |-> <<>>]

----------------------------------------------------------------------------
(* What upstream offers, and the API a model is asked through.             *)

SupportedEndpoints(m) ==
  CASE m = "claude" -> {"messages", "chat"}
    [] m = "gpt"    -> {"responses"}
    [] m = "other"  -> {"chat"}

\* findEndpointModel: without a list no model is found.
EndpointsFound(m) == IF models = "full" THEN SupportedEndpoints(m) ELSE {}

ApiOf(m) ==
  CASE world.messagesApi /\ "messages" \in EndpointsFound(m) -> "messages"
    [] "responses" \in EndpointsFound(m)
         /\ ~(world.messagesApi /\ "messages" \in EndpointsFound(m)) -> "responses"
    [] OTHER -> "chat"

UpstreamPayload(api, m, messages) ==
  CASE api = "messages"  -> filterAssistantThinkingBlocks(messages)
    [] api = "responses" -> compactInputByLatestCompaction(
                              translateAnthropicMessagesToResponsesPayload(messages))
    [] api = "chat"      -> translateToOpenAI(messages, m = "claude")

----------------------------------------------------------------------------
(* What a client says.  Identities name the message and the place in it.   *)

UserMessage(form, content) == [role |-> "user", form |-> form, content |-> content]

AssistantMessage(answer, api, m, said) ==
  [role |-> "assistant", form |-> "blocks", content |-> answer.content, stop |-> answer.stop_reason,
   api |-> api, model |-> m, said |-> said]

\* What stands beside the results of a message, or makes up one without results.
Asides(t) ==
  LET text(k) == Text(<<t, k>>, "plain")
      boundary(k) == Text(<<t, k>>, "boundary")
      image(k) == Image(<<t, k>>)
      document(k) == Document(<<t, k>>)
  IN { <<text(1)>>, <<text(1), text(2)>>, <<boundary(1), text(2)>>, <<image(1)>>,
       <<document(1)>>, <<document(1), document(2)>>, <<image(1), document(2)>>,
       <<text(1), document(2), image(3)>>, <<Text(<<t, 1>>, "compact")>>,
       <<Text(<<t, 1>>, "continue")>> }

\* The forms of a result: a string, blocks, nothing, a file read, a tool loaded, an error.
ResultForms(t, call) ==
  LET text(says) == Text(<<t, call[1], call[2]>>, says)
      result(form, content) == ToolResult(call, form, content, FALSE)
  IN { result("string", <<text("plain")>>), result("blocks", <<text("plain")>>),
       result("none", <<>>), result("string", <<text("pdf")>>), result("blocks", <<text("pdf")>>),
       result("blocks", <<ToolReference(<<t, call[1], call[2]>>)>>),
       ToolResult(call, "string", <<text("plain")>>, TRUE) }

PlainResult(t, call) ==
  ToolResult(call, "string", <<Text(<<t, call[1], call[2]>>, "plain")>>, FALSE)

ResultSeqs(t, calls) ==
  { results \in [DOMAIN calls -> UNION {ResultForms(t, calls[k]) : k \in DOMAIN calls}] :
      \A k \in DOMAIN calls : results[k].call = calls[k] }

CallsOf(message) ==
  LET uses == OfType(message.content, {"tool_use"})
  IN [k \in DOMAIN uses |-> uses[k].call]

\* The user's next message after the conversation so far.
NextMessages(messages) ==
  LET t     == Len(messages) + 1
      calls == IF messages = <<>> \/ Last(messages).stop # "tool_use"
                 THEN <<>> ELSE CallsOf(Last(messages))
      string(says) == UserMessage("string", <<Text(<<t, 1>>, says)>>)
  IN IF world.talk = "rich"
       THEN IF calls = <<>>
              THEN {string("plain"), string("warmup")}
                     \cup {UserMessage("blocks", aside) : aside \in Asides(t)}
              ELSE {UserMessage("blocks", results \o aside) :
                      results \in ResultSeqs(t, calls), aside \in Asides(t) \cup {<<>>}}
       ELSE IF calls = <<>> THEN {string("plain")}
              ELSE {UserMessage("blocks", [k \in DOMAIN calls |-> PlainResult(t, calls[k])])}

Turns(messages) == Cardinality({m \in DOMAIN messages : messages[m].role = "assistant"})

----------------------------------------------------------------------------
(* What upstream answers: reasoning, a text, calls.                        *)

Said(t)    == <<t, 1>>  \* the text of turn t
Thought(t) == <<t, 2>>  \* its reasoning
Refused(t) == <<t, 6>>  \* what it refuses
Further(t) == <<t, 7>>  \* the rest of its reasoning
Space      == <<Blank>>
Signed(by, t) == [by |-> by, of |-> <<t, 2>>]

\* Answers vary where the user's messages do not, and the other way round.
Varied(answers, usual) == IF world.talk = "varied" THEN answers ELSE {usual}

Texts(t)   == Varied({NoText, Said(t)}, Said(t))
ChatThoughts(t) == Varied({NoText, Thought(t)}, Thought(t))
Opaques(t) == Varied({NoSignature, Signed("chat", t)}, Signed("chat", t))
Calls(t)   == LET one == << <<t, 3>> >>
                  two == << <<t, 3>>, <<t, 4>> >>
              IN CASE world.talk = "varied" -> {<<>>, one}
                   [] world.talk = "rich" -> IF t = 2 THEN {one, two} ELSE {<<>>}
                   [] world.talk = "short" -> {<<>>}

TextBlock(text) == IF text = NoText THEN <<>> ELSE <<Text(text, "plain")>>

\* Thinking as Claude gives it: a signed text, a signature alone, or none.
ClaudeThinking(t) ==
  LET thinking(text) == <<Thinking(text, Signed("claude", t))>>
  IN Varied({<<>>, thinking(NoText), thinking(Thought(t))}, thinking(Thought(t)))

MessagesAnswer(thinking, text, calls) ==
  thinking \o TextBlock(text) \o [k \in DOMAIN calls |-> ToolUse(calls[k])]

MessagesAnswers(t) ==
  {MessagesAnswer(thinking, text, calls) :
     thinking \in ClaudeThinking(t), text \in Texts(t), calls \in Calls(t)}

\* One choice with everything, or the calls in a choice of their own before or after it.
ChatAnswer(text, reasoning, opaque, calls) ==
  LET speaking == Choice(text, reasoning, opaque, <<>>, "stop")
      calling  == Choice(NoText, NoText, NoSignature, calls, "tool_calls")
      whole    == Choice(text, reasoning, opaque, calls, "tool_calls")
  IN IF calls = <<>> THEN {<<speaking>>}
     ELSE Varied({<<whole>>, <<speaking, calling>>, <<calling, speaking>>}, <<whole>>)

ChatAnswers(t) ==
  UNION {ChatAnswer(text, reasoning, opaque, calls) :
           text \in Texts(t), reasoning \in ChatThoughts(t), opaque \in Opaques(t),
           calls \in Calls(t)}

\* A compaction comes before the rest of its output.
Compactions(t) == Varied({<<>>, <<Compaction(<<t, 5>>)>>}, <<>>)

\* Summaries: none, a segment, segments with white space around them, white space alone.
Reasonings(t) ==
  LET reasoning(summary) == <<Reasoning(<<t, 2>>, summary)>>
  IN Varied({<<>>, reasoning(<<>>), reasoning(<<Thought(t)>>),
             reasoning(<<Space \o Thought(t), Space, Further(t) \o Space>>), reasoning(<<Space>>)},
            reasoning(<<Thought(t)>>))

\* Messages: none, a text, a text with a refusal, one without content.
Sayings(t) ==
  LET message(content) == <<MessageItem("assistant", content)>>
      text == Part("text", Said(t))
  IN Varied({<<>>, message(<<text>>), message(<<text, Part("refusal", Refused(t))>>), message(<<>>)},
            message(<<text>>))

ResponsesOutput(compaction, reasoning, saying, calls) ==
  compaction \o reasoning \o saying \o [k \in DOMAIN calls |-> FunctionCall(calls[k])]

Outputs(t) ==
  {ResponsesOutput(compaction, reasoning, saying, calls) :
     compaction \in Compactions(t), reasoning \in Reasonings(t), saying \in Sayings(t),
     calls \in Calls(t)}

\* An output may be cut short anywhere.
Endings == Varied({<<"completed", "none">>, <<"incomplete", "max_output_tokens">>,
                   <<"incomplete", "content_filter">>, <<"failed", "none">>},
                  <<"completed", "none">>)

ResponsesAnswers(t) == {Result(e[1], e[2], output) : e \in Endings, output \in Outputs(t)}

ClaudeStop(content) == IF OfType(content, {"tool_use"}) = <<>> THEN "end_turn" ELSE "tool_use"

\* The answers upstream may give, each with what the client is handed; none is empty.
Answers(api, t) ==
  {a \in CASE api = "messages"  -> {[said |-> c, answer |-> [content |-> c,
                                                            stop_reason |-> ClaudeStop(c)]] :
                                     c \in MessagesAnswers(t)}
          [] api = "responses" -> {[said |-> r.output,
                                    answer |-> translateResponsesResultToAnthropic(r)] :
                                     r \in ResponsesAnswers(t)}
          [] api = "chat"      -> {[said |-> c, answer |-> translateToAnthropic(c)] :
                                     c \in ChatAnswers(t)} :
     a.answer.content # <<>>}

----------------------------------------------------------------------------
(* The request path.                                                       *)

Move(c, to) == phase' = [phase EXCEPT ![c] = to]

\* checkRateLimit.  Without a limit nothing is read or kept.  The request is let through,
\* refused, or put to sleep for what is left of the limit.
checkRateLimit(c) ==
  \/ /\ world.limit = "none"
     /\ Move(c, "reading") /\ UNCHANGED <<lastRequest, nap>>
  \/ /\ world.limit # "none" /\ (lastRequest = Never \/ lastRequest > RateLimit)
     /\ lastRequest' = 0
     /\ Move(c, "reading") /\ UNCHANGED nap
  \/ /\ world.limit = "reject" /\ lastRequest # Never /\ lastRequest <= RateLimit
     /\ Move(c, "idle") /\ UNCHANGED <<lastRequest, nap>>
  \/ /\ world.limit = "wait" /\ lastRequest # Never /\ lastRequest <= RateLimit
     /\ nap' = [nap EXCEPT ![c] = [left |-> RateLimit - lastRequest, since |-> 0]]
     /\ Move(c, "limited") /\ UNCHANGED lastRequest

\* A client that got no answer asks again; one that did goes on, or starts anew after
\* the last turn.
Ask(c) ==
  /\ phase[c] = "idle"
  /\ IF convo[c] # <<>> /\ Last(convo[c]).role = "user"
       THEN UNCHANGED <<convo, model>>
       ELSE LET history == IF Turns(convo[c]) = world.turns THEN <<>> ELSE convo[c]
            IN /\ \E message \in NextMessages(history) :
                    convo' = [convo EXCEPT ![c] = Append(history, message)]
               /\ \E m \in world.models :
                    /\ history # <<>> => world.talk = "varied" \/ m = model[c]
                    /\ model' = [model EXCEPT ![c] = m]
  /\ refreshIfStale
  /\ checkRateLimit(c)
  /\ UNCHANGED <<world, sent, faults, usageVars>>

\* The sleep is over: what is kept is the time at which the request arrived.
RateLimitWaited(c) ==
  /\ phase[c] = "limited" /\ nap[c].left = 0
  /\ lastRequest' = nap[c].since
  /\ nap' = [nap EXCEPT ![c] = Awake]
  /\ Move(c, "reading")
  /\ UNCHANGED <<world, convo, model, sent, faults, catalogVars, usageVars>>

IsWarmup(messages) ==
  Len(messages) = 1 /\ \E i \in DOMAIN messages[1].content :
                          /\ messages[1].content[i].type = "text"
                          /\ messages[1].content[i].says = "warmup"

\* The list is read when the request leaves, after the approval.
Dispatch(c) ==
  LET api == ApiOf(model[c])
  IN /\ sent' = [sent EXCEPT ![c] =
                   [api |-> api, model |-> model[c],
                    payload |-> UpstreamPayload(api, model[c], Prepared(convo[c], world.system))]]
     /\ Move(c, "asked")
     /\ UNCHANGED convo

\* A warm-up is answered here, and its conversation ends there.
AnswerWarmup(c) ==
  /\ convo' = [convo EXCEPT ![c] = <<>>]
  /\ Move(c, "idle")
  /\ UNCHANGED sent

\* handleCompletion with the body read.
Handle(c) ==
  /\ phase[c] = "reading"
  /\ \/ IsWarmup(convo[c]) /\ AnswerWarmup(c)
     \/ ~IsWarmup(convo[c]) /\ world.manual /\ Move(c, "approving") /\ UNCHANGED <<convo, sent>>
     \/ ~IsWarmup(convo[c]) /\ ~world.manual /\ Dispatch(c)
  /\ UNCHANGED <<world, lastRequest, nap, model, faults, catalogVars, usageVars>>

\* awaitApproval: the operator lets the request through, or it is refused.
Approve(c) ==
  /\ phase[c] = "approving"
  /\ Dispatch(c) \/ (Move(c, "idle") /\ UNCHANGED <<convo, sent>>)
  /\ UNCHANGED <<world, lastRequest, nap, model, faults, catalogVars, usageVars>>

\* An answer with calls that did not stop for them is not one a client goes on from.
CutShort(answer) ==
  answer.stop_reason # "tool_use" /\ OfType(answer.content, {"tool_use"}) # <<>>

\* Upstream answers: the answer is translated, its usage recorded.
UpstreamAnswers(c) ==
  /\ phase[c] = "asked"
  /\ \E a \in Answers(sent[c].api, Len(convo[c]) + 1) :
       convo' = IF CutShort(a.answer) THEN convo
                ELSE [convo EXCEPT ![c] =
                   Append(@, AssistantMessage(a.answer, sent[c].api, sent[c].model, a.said))]
  /\ IF world.counts THEN recordTokenUsageEvent ELSE UNCHANGED usageVars
  /\ sent' = [sent EXCEPT ![c] = NothingSent]
  /\ Move(c, "idle")
  /\ UNCHANGED <<world, lastRequest, nap, model, faults, catalogVars>>

\* Upstream refuses or cannot be reached.
UpstreamFails(c) ==
  /\ phase[c] = "asked" /\ faults < world.faults
  /\ faults' = faults + 1
  /\ sent' = [sent EXCEPT ![c] = NothingSent]
  /\ Move(c, "idle")
  /\ UNCHANGED <<world, lastRequest, nap, convo, model, catalogVars, usageVars>>

----------------------------------------------------------------------------
(* The model list.                                                         *)

AskForModels(c) ==
  /\ phase[c] = "idle" /\ world.clock
  /\ refreshIfStale
  /\ Move(c, "listing")
  /\ UNCHANGED <<world, lastRequest, nap, convo, model, sent, faults, usageVars>>

\* The route answers with what it has, or fetches first.
List(c) ==
  /\ phase[c] = "listing"
  /\ \/ models = "full" /\ Move(c, "idle") /\ UNCHANGED catalogVars
     \/ ListModels /\ Move(c, "fetching")
  /\ UNCHANGED <<world, lastRequest, nap, convo, model, sent, faults, usageVars>>

ModelsListed(c, list) ==
  /\ phase[c] = "fetching"
  /\ FetchSettles("list", list)
  /\ Move(c, "idle")
  /\ UNCHANGED <<world, lastRequest, nap, convo, model, sent, faults, usageVars>>

BackgroundFetchSettles(list) ==
  /\ \E kind \in {"prime", "refresh"} : FetchSettles(kind, list)
  /\ UNCHANGED <<world, gatewayVars, usageVars>>

----------------------------------------------------------------------------
(* Time, and the database.                                                 *)

Tick ==
  /\ world.clock
  /\ CatalogAges
  /\ lastRequest' = Older(lastRequest, RateLimit + 1)
  /\ nap' = [c \in Clients |->
               IF phase[c] = "limited"
                 THEN [left |-> Max({nap[c].left - 1, 0}), since |-> Min({nap[c].since + 1, RateLimit + 1})]
                 ELSE nap[c]]
  /\ UNCHANGED <<world, phase, convo, model, sent, faults, usageVars>>

UsageWritten == WriteSettles /\ UNCHANGED <<world, gatewayVars, catalogVars>>
UsageTicks   == TickerFires  /\ UNCHANGED <<world, gatewayVars, catalogVars>>
UsageSummed  == QueryStep    /\ UNCHANGED <<world, gatewayVars, catalogVars>>

Init ==
  /\ world \in Worlds
  /\ CatalogInit(world.catalog)
  /\ UsageInit
  /\ lastRequest = Never
  /\ phase = [c \in Clients |-> "idle"]
  /\ nap = [c \in Clients |-> Awake]
  /\ convo = [c \in Clients |-> <<>>]
  /\ model \in [Clients -> world.models]
  /\ sent = [c \in Clients |-> NothingSent]
  /\ faults = 0

Next ==
  \/ \E c \in Clients : Ask(c) \/ RateLimitWaited(c) \/ Handle(c) \/ Approve(c)
                          \/ UpstreamAnswers(c) \/ UpstreamFails(c)
                          \/ AskForModels(c) \/ List(c)
  \/ \E list \in Lists : BackgroundFetchSettles(list) \/ \E c \in Clients : ModelsListed(c, list)
  \/ Tick \/ UsageWritten \/ UsageTicks \/ UsageSummed

\* Timers fire, fetches and writes end.  Upstream, asked for its models again and again,
\* in the end gives them.  Nothing obliges a client to ask.
Fairness ==
  /\ WF_vars(Tick)
  /\ WF_vars(UsageWritten) /\ WF_vars(UsageTicks) /\ WF_vars(UsageSummed)
  /\ WF_vars(\E list \in Lists : BackgroundFetchSettles(list))
  /\ SF_vars(BackgroundFetchSettles("full") \/ \E c \in Clients : ModelsListed(c, "full"))

Spec == Init /\ [][Next]_vars /\ Fairness

----------------------------------------------------------------------------
(* Properties.                                                             *)

\* The rate limit's and the client's values, the model list and the tally are what the
\* code means them to be; in particular each background fetch of the list is alone, and
\* its guard is up exactly while it runs (refresh-models.ts "single-flight").
TypeOK ==
  /\ world \in Worlds
  /\ CatalogTypeOK /\ UsageTypeOK
  /\ lastRequest \in Never..(RateLimit + 1)
  /\ phase \in [Clients -> Phases]
  /\ \A c \in Clients :
       /\ nap[c].left \in 0..RateLimit /\ nap[c].since \in 0..(RateLimit + 1)
       /\ model[c] \in Models
       /\ sent[c].api \in APIs \cup {"none"} /\ (phase[c] = "asked" <=> sent[c].api # "none")
       /\ phase[c] = "asked" => Last(convo[c]).role = "user"
  /\ faults \in 0..world.faults

\* What a payload says of calls, in its order: for an element of it, and in all.
Event(kind, call) == [kind |-> kind, call |-> call]
Word(m) == IF m.role = "assistant" THEN Event("said", <<>>) ELSE Event("word", <<>>)

BlockEvent(m, b) ==
  CASE b.type = "tool_use"    -> Event("call", b.call)
    [] b.type = "tool_result" -> Event("result", b.call)
    [] OTHER                  -> Word(m)

ElementEvents(api, m) ==
  CASE api = "messages"  -> [b \in DOMAIN m.content |-> BlockEvent(m, m.content[b])]
    [] api = "responses" -> CASE m.type = "function_call" -> <<Event("call", m.call)>>
                              [] m.type = "function_call_output" -> <<Event("result", m.call)>>
                              [] OTHER -> <<Word(m)>>
    [] api = "chat"      -> IF m.role = "tool" THEN <<Event("result", m.call)>>
                            ELSE <<Word(m)>> \o [k \in DOMAIN m.tool_calls |->
                                                   Event("call", m.tool_calls[k])]

Events(api, payload) == FlattenSeq([i \in DOMAIN payload |-> ElementEvents(api, payload[i])])

\* Every call a payload holds is followed by its one result, with no word of the user's
\* between; every result has its call in front of it.
CallsAnswered(api, payload) ==
  LET e == Events(api, payload)
      results(i) == {j \in DOMAIN e : e[j].kind = "result" /\ e[j].call = e[i].call}
  IN /\ \A i \in DOMAIN e : e[i].kind = "call" =>
           /\ Cardinality(results(i)) = 1
           /\ \A j \in results(i) : j > i /\ \A k \in i..j : e[k].kind # "word"
     /\ \A j \in DOMAIN e : e[j].kind = "result" =>
           \E i \in 1..(j - 1) : e[i].kind = "call" /\ e[i].call = e[j].call

Ids(content) ==
  LET parts == Only(content, {i \in DOMAIN content : content[i].type
                                \notin {"tool_use", "tool_result", "thinking", "notice"}})
  IN [i \in DOMAIN parts |-> parts[i].id]

\* The identities in the user's part of a payload, and in a user message.
ListIds(content) ==
  FlattenSeq([i \in DOMAIN content |->
    IF content[i].type = "tool_result" THEN Ids(content[i].content) ELSE Ids(<<content[i]>>)])

ElementIds(api, m) == IF api = "messages" THEN ListIds(m.content) ELSE Ids(m.content)

ArrivedIds(api, payload) ==
  LET user == Only(payload, {i \in DOMAIN payload : payload[i].role # "assistant"})
  IN FlattenSeq([i \in DOMAIN user |-> ElementIds(api, user[i])])

\* The parts of a message: the blocks that are no results, and what its results hold.
Parts(content) ==
  UNION {IF b.type = "tool_result" THEN ToSet(b.content) ELSE {b} : b \in ToSet(content)}

\* What the code gives up: texts beside a result that names a tool ("Unable to merge,
\* discard other text blocks"), attachments when every result is an error or names a tool,
\* and every document that goes through the chat API ("this api cannot send PDF inputs").
GivenUp(api, message) ==
  LET results == OfType(message.content, {"tool_result"})
      naming  == {r \in DOMAIN results : hasToolRef(results[r])}
      failed  == {r \in DOMAIN results : results[r].error}
  IN (IF naming = {} THEN {} ELSE ToSet(Ids(OfType(message.content, {"text"}))))
     \cup (IF results # <<>> /\ naming \cup failed = DOMAIN results
             THEN ToSet(Ids(OfType(message.content, Attachments))) ELSE {})
     \cup (IF api = "chat" THEN {p.id : p \in {q \in Parts(message.content) : q.type = "document"}}
                           ELSE {})

IsCompacting(message) ==
  message.role = "assistant"
    /\ \E i \in DOMAIN message.content :
         message.content[i].type = "thinking" /\ message.content[i].signature.by = "compaction"

\* The user's messages that a payload owes upstream: those after the latest compaction.
Owed(api, messages) ==
  {m \in DOMAIN messages :
     /\ messages[m].role = "user"
     /\ api = "responses" => \A n \in (m + 1)..Len(messages) : ~IsCompacting(messages[n])}

NothingLost(api, payload, messages) ==
  /\ \A m \in Owed(api, messages) :
       ToSet(ListIds(messages[m].content)) \ GivenUp(api, messages[m])
         \subseteq ToSet(ArrivedIds(api, payload))
  /\ IsInjective(ArrivedIds(api, payload))

\* No signature the gateway made for the Responses API goes to Claude.
SignaturesStayHome(api, payload) ==
  \A m \in DOMAIN payload : payload[m].role = "assistant" =>
    CASE api = "messages" -> \A i \in DOMAIN payload[m].content :
           payload[m].content[i].type = "thinking" => ~HasAt(payload[m].content[i].signature)
      [] api = "chat" -> ~HasAt(payload[m].reasoning_opaque)

\* Whatever was merged, translated or cut on the way, a request sent upstream holds every
\* part of what the user and the tools said that the code does not give up (GivenUp), once,
\* and every call with its answer right behind it; Claude is not given a signature it did
\* not make.  (preprocess.ts:334 mergeAttachmentsForToolResults, responses-translation.ts
\* translateMessage, non-stream-translation.ts handleUserMessage "Tool results must come
\* first".)
PayloadFaithful ==
  \A c \in Clients : phase[c] = "asked" =>
    /\ NothingLost(sent[c].api, sent[c].payload, convo[c])
    /\ CallsAnswered(sent[c].api, sent[c].payload)
    /\ sent[c].model = "claude" => SignaturesStayHome(sent[c].api, sent[c].payload)

\* The assistant's part of a payload, in the words of its API.
ElementPart(api, m) ==
  CASE api = "messages" -> m.content
    [] api = "responses" /\ m.type = "message" ->
         [k \in DOMAIN m.content |-> MessageItem("assistant", <<m.content[k]>>)]
    [] api = "responses" /\ m.type # "message" -> <<m>>
    [] api = "chat" -> <<m>>

AssistantPart(api, payload) ==
  LET own == Only(payload, {i \in DOMAIN payload : payload[i].role = "assistant"})
  IN FlattenSeq([i \in DOMAIN own |-> ElementPart(api, own[i])])

\* The same of what upstream said in its turns.  Unsigned thinking does not go to Claude;
\* the choices of a chat answer come back as one message; a compaction hides what it holds.
FromChoices(choices, toClaude) ==
  LET joined(parts, none) == Only(parts, {i \in DOMAIN parts : parts[i] # none})
      taken(ch) == toClaude => (ch.reasoning_text # NoText /\ ch.reasoning_opaque # NoSignature)
      opaque == joined([i \in DOMAIN choices |->
                          IF taken(choices[i]) THEN choices[i].reasoning_opaque ELSE NoSignature],
                       NoSignature)
      thoughts == joined([i \in DOMAIN choices |->
                            IF taken(choices[i]) THEN choices[i].reasoning_text ELSE NoText],
                         NoText)
      texts == joined([i \in DOMAIN choices |-> choices[i].text], NoText)
  IN [ChatMessage("assistant", [i \in DOMAIN texts |-> Part("text", texts[i])]) EXCEPT
        !.reasoning_text   = thoughts,
        !.reasoning_opaque = IF opaque = <<>> THEN NoSignature ELSE opaque[1],
        !.tool_calls       = FlattenSeq([i \in DOMAIN choices |-> choices[i].tool_calls])]

\* An item in the form in which it comes back: the parts of a message, refusals too, as one
\* text; the segments of a summary as one, without the white space around them; an item
\* whose text is empty not at all.
Restated(item) ==
  LET said    == combineMessageTextContent(item.content)
      summary == trim(FlattenSeq(item.summary))
  IN CASE item.type = "message" ->
            IF said = NoText THEN <<>> ELSE <<MessageItem("assistant", <<Part("text", said)>>)>>
       [] item.type = "reasoning" /\ item.summary # <<>> ->
            IF summary = NoText THEN <<>> ELSE <<Reasoning(item.of, <<summary>>)>>
       [] OTHER -> <<item>>

SaidIn(api, toClaude, m) ==
  CASE api = "messages"  -> Only(m.said, {i \in DOMAIN m.said :
                                            m.said[i].type = "thinking" => m.said[i].text # NoText})
    [] api = "responses" -> FlattenSeq([i \in DOMAIN m.said |-> Restated(m.said[i])])
    [] api = "chat"      -> <<FromChoices(m.said, toClaude)>>

SaidBefore(api, toClaude, messages) ==
  LET turns == Only(messages, {m \in DOMAIN messages : messages[m].role = "assistant"})
      all == FlattenSeq([i \in DOMAIN turns |-> SaidIn(api, toClaude, turns[i])])
      cuts == {i \in DOMAIN all : api = "responses" /\ all[i].type = "compaction"}
  IN SubSeq(all, IF cuts = {} THEN 1 ELSE Max(cuts), Len(all))

\* In a conversation held with one model through one API, upstream is sent back what it
\* said: its reasoning with text, signature and identity, its texts, its calls, in their
\* order, though all of it went through the client as Anthropic blocks.  The Responses API
\* gets its items back restated (Restated), the chat API its choices as one message
\* (FromChoices); nothing else is changed or left out.  Calls are told by identity, not by
\* their arguments (responses-translation.ts:515-628, non-stream-translation.ts).
TurnsComeBack ==
  \A c \in Clients :
    LET api == sent[c].api
    IN (phase[c] = "asked"
          /\ \A m \in DOMAIN convo[c] : convo[c][m].role = "assistant" =>
                convo[c][m].api = api /\ convo[c][m].model = sent[c].model)
       => AssistantPart(api, sent[c].payload)
            = SaidBefore(api, sent[c].model = "claude", convo[c])

\* While requests keep coming the gateway comes to hold a list with models, and comes back
\* to one after upstream gave it an empty list; an outage at the start, a fetch that failed
\* or one that hangs for a while does not leave it without (refresh-models.ts "an empty
\* catalog would never self-heal on live traffic").
Arrival == \E c \in Clients : Ask(c)
CatalogHeals == []<><<Arrival>>_vars => []<>(models = "full")

\* Once requests stop, the control feed has been told the sum of every usage event in the
\* database, unless the last attempt to take that sum failed (service.ts "best-effort").
UsageIsTold == <>[](told = stored \/ untold)
=============================================================================
