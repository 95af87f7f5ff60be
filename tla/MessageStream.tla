--------------------------- MODULE MessageStream ---------------------------
(***************************************************************************)
(* A streamed answer to /v1/messages: the chat-completions and Responses   *)
(* flows (src/routes/messages/api-flows.ts, stream-error.ts) and the       *)
(* streaming web-tools agent (web-tools/flow.ts, stream.ts, exec.ts,       *)
(* state.ts), from the upstream's chunks to what the client has read.      *)
(* Every writeSSE is an await, so a chunk's events reach the client one    *)
(* action at a time.                                                       *)
(*                                                                         *)
(* The upstream is the environment.  A `serial` one keeps to the orders    *)
(* named in OrderlyChunk and OrderlyEvent, a `parallel` one may interleave *)
(* tool calls and output items, and from any other nothing is expected.    *)
(***************************************************************************)
EXTENDS ResponsesTranslation

CONSTANTS
  Requests,    \* the pairs of a flow and an order that are checked
  MaxTurns,    \* MAX_AGENT_TURNS
  MaxUses,     \* max_uses of each web tool
  MaxFed,      \* bound: chunks per upstream answer in the chat flow
  MaxTurnFed,  \* bound: chunks per turn of the agent
  MaxEvents    \* bound: events of a Responses answer

Flows == {"chat", "responses", "agent"}
Orders == {"serial", "parallel", "any"}
WebTools == {"web_search", "web_fetch"}

ASSUME RequestsAssumption == Requests \subseteq [flow : Flows, order : Orders]
ASSUME LimitsAssumption ==
  /\ MaxTurns \in Nat \ {0} /\ MaxUses \in Nat /\ MaxWhitespace \in Nat
  /\ MaxFed \in Nat \ {0} /\ MaxTurnFed \in Nat \ {0} /\ MaxEvents \in Nat \ {0}

VARIABLES
  request,    \* the flow, and what its upstream promises
  upstream,   \* the upstream answer that is being read
  chat,       \* translator state of the chat flow or of the agent's turn
  responses,  \* translator state of the Responses flow
  agent,      \* the agent's loop
  inner,      \* translated events the agent has yet to dispatch
  pending,    \* events that wait to be written
  wire        \* what the client has read

vars == <<request, upstream, chat, responses, agent, inner, pending, wire>>

----------------------------------------------------------------------------
(* The client's side.                                                      *)

NewWire ==
  [phase |-> "before", open |-> {}, next |-> 0, blocks |-> <<>>, args |-> {},
   parts |-> {}, wholes |-> {}, twice |-> {}, breaks |-> [k \in PartKeys |-> 0], billed |-> 0,
   last |-> [type |-> "none", index |-> 0, parity |-> 0]]

\* The run of line breaks a call's arguments end in, those in its initial and
\* whole arguments left out.
BreaksRead(run, tail) ==
  CASE tail = "text" -> 0 [] tail = "breaks" -> run + 1 [] OTHER -> run

\* The part or call a delta carries, complete (`whole`) or in pieces.
DeltaRead(w, e) ==
  LET part == <<e.kind, e.of>>
  IN [w EXCEPT
        !.args = IF e.kind = "input_json" THEN @ \cup {<<e.index, e.of>>} ELSE @,
        !.parts  = IF e.whole THEN @ ELSE @ \cup {part},
        !.wholes = IF e.whole THEN @ \cup {part} ELSE @,
        !.twice  = IF part \in w.wholes \/ (e.whole /\ part \in w.parts)
                   THEN @ \cup {part} ELSE @,
        !.breaks = IF e.kind = "input_json" /\ e.reason # "none"
                   THEN [@ EXCEPT ![e.of] = BreaksRead(w.breaks[e.of], e.reason)] ELSE @]

EventRead(w, e) ==
  CASE e.type = "message_start" -> [w EXCEPT !.phase = "open"]
    [] e.type = "content_block_start" ->
         [w EXCEPT !.open = @ \cup {e.index},
                   !.next = IF e.index >= @ THEN e.index + 1 ELSE @,
                   !.blocks = IF e.index >= w.next
                              THEN Append(@, [kind |-> e.kind, of |-> e.of]) ELSE @]
    [] e.type = "content_block_delta" -> DeltaRead(w, e)
    [] e.type = "content_block_stop" -> [w EXCEPT !.open = @ \ {e.index}]
    [] e.type = "message_delta" -> [w EXCEPT !.billed = e.usage]
    [] e.type \in {"message_stop", "error"} -> [w EXCEPT !.phase = "ended"]
    [] OTHER -> w

Read(w, e) ==
  [EventRead(w, e) EXCEPT
     !.last = [type |-> e.type, index |-> e.index, parity |-> 1 - w.last.parity]]

\* await stream.writeSSE.
Write ==
  /\ pending # <<>>
  /\ wire' = Read(wire, Head(pending))
  /\ pending' = Tail(pending)
  /\ UNCHANGED <<request, upstream, chat, responses, agent, inner>>

----------------------------------------------------------------------------
(* The upstream.                                                           *)

\* The promises an upstream keeps: the orders named below, and that tool calls
\* and output items come one after the other.
Mannered == request.order # "any"
Serial   == request.order = "serial"

\* `phase` is "calling" until upstream has answered; `part` says of each part
\* of a Responses answer whether it is new, begun or done, and `item` what an
\* output item is.
NewUpstream(phase) ==
  [phase |-> phase, fed |-> 0, finished |-> FALSE, signed |-> FALSE,
   created |-> FALSE, part |-> [k \in PartKeys |-> "new"],
   item |-> [o \in Outputs |-> "none"]]

Idle == pending = <<>> /\ inner = <<>>

\* Chunks of turn `t`: the identity of a call is its turn's.
CallId(t, k) == <<t, k>>

Calls(t, tools) ==
  {NoCall} \cup
  {Call(k, CallId(t, k), name, args) :
     k \in CallIndices, name \in tools \cup {"none"}, args \in BOOLEAN}

Chunks ==
  [reasoning : BOOLEAN, content : {"none", "empty", "text"}, opaque : BOOLEAN,
   call : Calls(0, {"client"}), finish : {"none", "end_turn", "tool_use"}]

\* The agent's chunks go through the same translator: reasoning is left out, a
\* call comes with its arguments, and not in one chunk with text.  An upstream
\* without manners calls web tools only.
TurnCalls(t) ==
  {c \in Calls(t, IF Mannered THEN {"client"} \cup WebTools ELSE WebTools) :
     c = NoCall \/ (c.name # "none" /\ c.args)}

TurnChunks(t) ==
  {c \in [reasoning : {FALSE}, content : {"none", "text"}, opaque : {FALSE},
          call : TurnCalls(t), finish : {"none", "end_turn", "tool_use"}] :
     c.content = "text" => c.call = NoCall}

\* What a chat upstream with manners sends: one opaque signature, when no tool
\* call is open; arguments of the last call announced, each call once; one
\* finish_reason, not straight after reasoning that nothing has closed, and
\* nothing after it.
OrderlyChunk(chunk) ==
  /\ ~upstream.finished
  /\ chunk.opaque => ~upstream.signed /\ ~IsToolBlockOpen(chat)
  /\ chunk.call # NoCall =>
       IF chunk.call.name # "none" THEN chat.calls[chunk.call.index] = NoBlock
       ELSE /\ IsToolBlockOpen(chat) /\ chunk.content # "text" /\ ~chunk.reasoning
            /\ Serial => chat.calls[chunk.call.index] = chat.index
  /\ chunk.finish # "none" /\ (chat.thinking \/ chunk.reasoning) =>
         \/ chunk.content = "text" \/ chunk.call # NoCall
         \/ chunk.content = "empty" /\ chunk.opaque

Fed(chunk) ==
  upstream' = [upstream EXCEPT !.fed = @ + 1, !.finished = @ \/ chunk.finish # "none",
                               !.signed = @ \/ chunk.opaque]

\* A frame of the chat flow.  Frames that do not parse are skipped.
ChatChunk ==
  /\ request.flow = "chat" /\ upstream.phase = "open" /\ Idle
  /\ upstream.fed < MaxFed
  /\ \E chunk \in Chunks :
       /\ Mannered => OrderlyChunk(chunk)
       /\ upstream.fed + 1 = MaxFed /\ Mannered => chunk.finish # "none"
       /\ LET p == TranslateChunk(chat, chunk)
          IN chat' = p.st /\ pending' = p.out
       /\ Fed(chunk)
  /\ UNCHANGED <<request, responses, agent, inner, wire>>

\* [DONE] or the end of the chat upstream: the flow returns.  One with
\* manners has finished.
ChatEnds ==
  /\ request.flow = "chat" /\ upstream.phase = "open" /\ Idle
  /\ Mannered => upstream.finished
  /\ upstream' = [upstream EXCEPT !.phase = "ended"]
  /\ UNCHANGED <<request, chat, responses, agent, inner, pending, wire>>

\* The upstream throws while it is called or read (in the agent also a frame
\* that does not parse): emitStreamError.
UpstreamFails ==
  /\ upstream.phase \in {"calling", "open"} /\ Idle /\ agent.tool = NoCall
  /\ Mannered => ~upstream.finished
  /\ upstream' = [upstream EXCEPT !.phase = "ended"]
  /\ pending' = <<ErrorEvent>>
  /\ UNCHANGED <<request, chat, responses, agent, inner, wire>>

----------------------------------------------------------------------------
(* The Responses flow.                                                     *)

\* Events of the parts of output items, with the kind of item they belong to.
ItemEvents ==
  [type : {"text_delta", "text_done", "reasoning_delta"},
   out : Outputs, part : Parts, body : {TRUE}, tail : {"text"}]
  \cup [type : {"reasoning_done"},
        out : Outputs, part : Parts, body : BOOLEAN, tail : {"text"}]
  \cup [type : {"reasoning_item_done", "compaction_done"},
        out : Outputs, part : {0}, body : BOOLEAN, tail : {"text"}]
  \cup [type : {"function_added", "arguments_done"},
        out : Outputs, part : {0}, body : {TRUE}, tail : {"text", "breaks"}]
  \cup [type : {"function_added", "arguments_done"},
        out : Outputs, part : {0}, body : {FALSE}, tail : {"text"}]
  \cup [type : {"arguments_delta"}, out : Outputs, part : {0}, body : {TRUE},
        tail : {"text", "breaks", "spaces"}]

ItemKind(e) ==
  CASE e.type \in {"text_delta", "text_done"} -> "message"
    [] e.type \in {"function_added", "arguments_delta", "arguments_done"} -> "function"
    [] OTHER -> "reasoning"

EndsItem(e) == e.type \in {"reasoning_item_done", "compaction_done"}

Ends(e) == EndsItem(e) \/ e.type \in {"text_done", "arguments_done"}

AfterEvent(e) ==
  IF Ends(e) THEN "done" ELSE IF e.type = "reasoning_done" THEN "told" ELSE "begun"

\* The parts an event is about: its own, or every summary of an item that ends.
Touched(e) ==
  {k \in PartKeys : k = PartKey(e.out, e.part) \/ (EndsItem(e) /\ k[1] = e.out)}

PartsAfter(e) ==
  [k \in PartKeys |-> IF k \in Touched(e) THEN AfterEvent(e) ELSE upstream.part[k]]

\* Every upstream: an item keeps its kind, a call is announced first, a part
\* that is done is done, and so is a summary that was told.
PossibleEvent(e) ==
  LET key == PartKey(e.out, e.part)
  IN /\ upstream.part[key] # "done"
     /\ upstream.part[key] = "told" => Ends(e)
     /\ upstream.item[e.out] \in {"none", ItemKind(e)}
     /\ e.type = "function_added" <=>
          (ItemKind(e) = "function" /\ upstream.part[key] = "new")

\* A serial one ends a part before it begins another, except that an item's
\* summaries end together.
OrderlyEvent(e) ==
  \A k \in PartKeys \ Touched(e) :
    \/ upstream.part[k] \in {"new", "done"}
    \/ upstream.part[k] = "told" /\ k[1] = e.out

Control(type, body) == [type |-> type, out |-> 0, part |-> 0, body |-> body,
                        tail |-> "text"]

\* An event is translated; one that completes the message ends the loop.
Translated(e) ==
  LET p == TranslateResponsesEvent(responses, e)
  IN /\ responses' = p.st
     /\ pending' = p.out
     /\ upstream' = [upstream EXCEPT
          !.fed = @ + 1,
          !.created = @ \/ e.type = "created",
          !.phase = IF p.st.completed THEN "ended" ELSE @,
          !.part = IF e \in ItemEvents THEN PartsAfter(e) ELSE @,
          !.item = IF e \in ItemEvents THEN [@ EXCEPT ![e.out] = ItemKind(e)] ELSE @]
     /\ UNCHANGED <<request, chat, agent, inner, wire>>

ReadingResponses ==
  request.flow = "responses" /\ upstream.phase = "open" /\ Idle

ResponsesCreated ==
  /\ ReadingResponses /\ ~upstream.created
  /\ Translated(Control("created", TRUE))

ResponsesItem ==
  /\ ReadingResponses /\ upstream.created /\ upstream.fed < MaxEvents
  /\ \E e \in ItemEvents :
       /\ PossibleEvent(e)
       /\ Serial => OrderlyEvent(e)
       /\ Translated(e)

\* Any time after the start; failed and error possibly before.
ResponsesTerminal ==
  /\ ReadingResponses
  /\ \/ \E body \in BOOLEAN :
          upstream.created /\ Translated(Control("completed", body))
     \/ \E type \in {"failed", "error"} : Translated(Control(type, FALSE))

\* Mutant: the end of the upstream is taken for the end of the message.
ResponsesEndsQuietly ==
  /\ ReadingResponses
  /\ upstream' = [upstream EXCEPT !.phase = "ended"]
  /\ UNCHANGED <<request, chat, responses, agent, inner, pending, wire>>

\* The upstream ends without a completion: an error event.
ResponsesEnds ==
  /\ ReadingResponses
  /\ upstream' = [upstream EXCEPT !.phase = "ended"]
  /\ pending' = <<ErrorEvent>>
  /\ UNCHANGED <<request, chat, responses, agent, inner, wire>>

\* A ping is forwarded; one with manners comes after the start.
ResponsesPing ==
  /\ ReadingResponses
  /\ Mannered => upstream.created
  /\ wire.last.type # "ping"
  /\ wire' = Read(wire, Event("ping"))
  /\ UNCHANGED <<request, upstream, chat, responses, agent, inner, pending>>

----------------------------------------------------------------------------
(* The web-tools agent.                                                    *)

\* upstreamToClient: the turn's open blocks, by their index in the turn.
Entry(e, client) ==
  [client |-> client, web |-> e.name \in WebTools, call |-> Call(0, e.of, e.name, FALSE)]
With(map, b, entry) == [x \in DOMAIN map \cup {b} |-> IF x = b THEN entry ELSE map[x]]
Without(map, b) == [x \in DOMAIN map \ {b} |-> map[x]]

\* `tool` is the web tool being executed, `buffered` the turn's message_delta
\* and message_stop, `usage` the summed usage, `uses` the use counters.
NewAgent ==
  [turn |-> 0, cursor |-> 0, started |-> FALSE, map |-> <<>>, stop |-> "none",
   outcomes |-> 0, buffered |-> <<>>, usage |-> 0,
   uses |-> [t \in WebTools |-> 0], tool |-> NoCall]

InAgent == request.flow = "agent" /\ agent.tool = NoCall

\* upstreamCall resolves.
UpstreamAnswers ==
  /\ InAgent /\ upstream.phase = "calling" /\ Idle
  /\ upstream' = [upstream EXCEPT !.phase = "open"]
  /\ UNCHANGED <<request, chat, responses, agent, inner, pending, wire>>

AgentChunk ==
  /\ InAgent /\ upstream.phase = "open" /\ Idle
  /\ upstream.fed < MaxTurnFed
  /\ \E chunk \in TurnChunks(agent.turn) :
       /\ Mannered => OrderlyChunk(chunk)
       /\ upstream.fed + 1 = MaxTurnFed /\ Mannered => chunk.finish # "none"
       /\ LET p == TranslateChunk(chat, chunk)
          IN chat' = p.st /\ inner' = p.out
       /\ Fed(chunk)
  /\ UNCHANGED <<request, responses, agent, pending, wire>>

\* dispatchEvent: the next translated event.
Dispatching(type) ==
  /\ InAgent /\ pending = <<>> /\ inner # <<>>
  /\ Head(inner).type = type
  /\ inner' = Tail(inner)
  /\ UNCHANGED <<request, upstream, chat, responses, wire>>

\* Only the first turn's is forwarded.
DispatchMessageStart ==
  /\ Dispatching("message_start")
  /\ pending' = IF agent.started THEN <<>> ELSE <<Head(inner)>>
  /\ agent' = [agent EXCEPT !.started = TRUE]

\* Mutant: the client cursor starts again with every turn.
HandleBlockStartPerTurn ==
  /\ Dispatching("content_block_start")
  /\ LET e == Head(inner) IN
       /\ agent' = [agent EXCEPT !.cursor = e.index + 1,
                               !.map = With(@, e.index, Entry(e, e.index))]
       /\ pending' = <<[e EXCEPT !.kind =
                          IF e.name \in WebTools THEN "server_tool_use" ELSE @]>>

\* The block gets the next client index; a web tool is a server_tool_use.
HandleBlockStart ==
  /\ Dispatching("content_block_start")
  /\ LET e == Head(inner) IN
       /\ agent' = [agent EXCEPT !.cursor = @ + 1,
                               !.map = With(@, e.index, Entry(e, agent.cursor))]
       /\ pending' = <<[e EXCEPT !.index = agent.cursor,
                                 !.kind = IF e.name \in WebTools THEN "server_tool_use" ELSE @]>>

\* Deltas and stops of a block nobody opened are dropped.
HandleBlockDelta ==
  /\ Dispatching("content_block_delta")
  /\ LET e == Head(inner)
     IN pending' = IF e.index \notin DOMAIN agent.map THEN <<>>
                   ELSE <<[e EXCEPT !.index = agent.map[e.index].client]>>
  /\ UNCHANGED agent

\* The stop of a web tool's block starts its execution.
HandleBlockStop ==
  /\ Dispatching("content_block_stop")
  /\ LET e == Head(inner)
     IN IF e.index \notin DOMAIN agent.map THEN pending' = <<>> /\ UNCHANGED agent
        ELSE LET entry == agent.map[e.index]
             IN /\ pending' = <<[e EXCEPT !.index = entry.client]>>
                /\ agent' = [agent EXCEPT !.map = Without(@, e.index),
                                          !.tool = IF entry.web THEN entry.call ELSE NoCall]

\* Terminal events are held back until the last turn.
BufferTerminal ==
  /\ \E type \in {"message_delta", "message_stop"} : Dispatching(type)
  /\ LET e == Head(inner)
     IN agent' = [agent EXCEPT !.buffered = Append(@, e),
                               !.stop = IF e.type = "message_delta" THEN e.reason ELSE @]
  /\ UNCHANGED pending

\* executeToolUse: the policy refuses the call (undeclared tool, bad input,
\* max_uses), or the tool is run and fails or succeeds.
Outcomes == {"refused", "failed", "ok"}

\* Success alone counts as a use.
Counted(outcome) ==
  [agent.uses EXCEPT ![agent.tool.name] = IF outcome = "ok" THEN @ + 1 ELSE @]

Result(outcome) ==
  << [BlockStart(agent.cursor, "result", agent.tool.id) EXCEPT !.reason = outcome],
     BlockStop(agent.cursor) >>

\* Mutant: the result block is left out when the tool did not succeed.
ToolSettlesUnanswered ==
  /\ agent.tool # NoCall /\ pending = <<>>
  /\ \E outcome \in Outcomes :
       /\ outcome # "refused" => agent.uses[agent.tool.name] < MaxUses
       /\ agent' = [agent EXCEPT !.uses = Counted(outcome), !.outcomes = @ + 1,
                      !.tool = NoCall, !.cursor = IF outcome = "ok" THEN @ + 1 ELSE @]
       /\ pending' = IF outcome = "ok" THEN Result(outcome) ELSE <<>>
  /\ UNCHANGED <<request, upstream, chat, responses, inner, wire>>

\* Whatever came out is a result block of its own, at the next client index.
ToolSettles ==
  /\ agent.tool # NoCall /\ pending = <<>>
  /\ \E outcome \in Outcomes :
       /\ outcome # "refused" => agent.uses[agent.tool.name] < MaxUses
       /\ agent' = [agent EXCEPT !.uses = Counted(outcome), !.outcomes = @ + 1,
                      !.cursor = @ + 1, !.tool = NoCall]
       /\ pending' = Result(outcome)
  /\ UNCHANGED <<request, upstream, chat, responses, inner, wire>>

\* withHeartbeat: pings while a tool runs or the next turn's upstream is being
\* called, not before message_start.  A second ping in a row is left out.
Heartbeat ==
  /\ request.flow = "agent" /\ pending = <<>> /\ agent.started
  /\ agent.tool # NoCall \/ (upstream.phase = "calling" /\ inner = <<>>)
  /\ wire.last.type # "ping"
  /\ wire' = Read(wire, Event("ping"))
  /\ UNCHANGED <<request, upstream, chat, responses, agent, inner, pending>>

TurnUsage(events) ==
  Cardinality({i \in 1 .. Len(events) : events[i].type = "message_delta"})

Stamped(events, usage) ==
  [i \in 1 .. Len(events) |->
     IF events[i].type = "message_delta" THEN [events[i] EXCEPT !.usage = usage]
     ELSE events[i]]

GoesOn == agent.stop = "tool_use" /\ agent.outcomes > 0 /\ agent.turn + 1 < MaxTurns

TurnOver ==
  /\ InAgent /\ upstream.phase = "open" /\ Idle
  /\ Mannered => upstream.finished

\* The turn's tools were run for the model: its results go upstream again.
NextTurn ==
  /\ TurnOver /\ GoesOn
  /\ agent' = [agent EXCEPT !.turn = @ + 1, !.map = <<>>, !.stop = "none",
                 !.outcomes = 0, !.buffered = <<>>,
                 !.usage = @ + TurnUsage(agent.buffered)]
  /\ chat' = Fresh
  /\ upstream' = NewUpstream("calling")
  /\ UNCHANGED <<request, responses, inner, pending, wire>>

\* Mutant: the last turn's usage alone is reported.
LastTurnUnsummed ==
  /\ TurnOver /\ ~GoesOn
  /\ pending' = Stamped(agent.buffered, TurnUsage(agent.buffered))
  /\ agent' = [agent EXCEPT !.buffered = <<>>, !.usage = @ + TurnUsage(agent.buffered)]
  /\ upstream' = [upstream EXCEPT !.phase = "ended"]
  /\ UNCHANGED <<request, chat, responses, inner, wire>>

\* The last turn, or the ceiling: its terminal events, with the whole usage.
LastTurn ==
  /\ TurnOver /\ ~GoesOn
  /\ LET usage == agent.usage + TurnUsage(agent.buffered)
     IN /\ pending' = Stamped(agent.buffered, usage)
        /\ agent' = [agent EXCEPT !.buffered = <<>>, !.usage = usage]
  /\ upstream' = [upstream EXCEPT !.phase = "ended"]
  /\ UNCHANGED <<request, chat, responses, inner, wire>>

----------------------------------------------------------------------------
Init ==
  /\ request \in Requests
  /\ upstream = NewUpstream(IF request.flow = "agent" THEN "calling" ELSE "open")
  /\ chat = Fresh
  /\ responses = FreshResponses
  /\ agent = NewAgent
  /\ inner = <<>>
  /\ pending = <<>>
  /\ wire = NewWire

\* The upstream answers, sends, ends or fails.
UpstreamStep ==
  \/ ChatChunk \/ ChatEnds
  \/ ResponsesCreated \/ ResponsesItem \/ ResponsesTerminal \/ ResponsesEnds
  \/ UpstreamAnswers \/ AgentChunk \/ NextTurn \/ LastTurn
  \/ UpstreamFails

ServerStep ==
  \/ Write
  \/ DispatchMessageStart \/ HandleBlockStart \/ HandleBlockDelta
  \/ HandleBlockStop \/ BufferTerminal

Next == UpstreamStep \/ ServerStep \/ ToolSettles \/ ResponsesPing \/ Heartbeat

\* Writes and dispatches are run by the event loop.  A completion's call has no
\* timeout (send-request.ts), nor has every tool: of them nothing is assumed.
Fairness == WF_vars(ServerStep)

Spec == Init /\ [][Next]_vars /\ Fairness

----------------------------------------------------------------------------
(* Properties.                                                             *)

EventTypes ==
  {"none", "message_start", "content_block_start", "content_block_delta",
   "content_block_stop", "message_delta", "message_stop", "ping", "error"}

\* Types of the translators', the agent's and the client's state.  Of the two
\* Responses structures that are sets, no two blocks are ever open together,
\* whatever the upstream interleaves, and only an open block has had a delta.
TypeOK ==
  /\ chat.index \in Nat /\ chat.calls \in [CallIndices -> Nat \cup {NoBlock}]
  /\ responses.next \in Nat
  /\ responses.blockByKey \in [PartKeys -> Nat \cup {NoBlock}]
  /\ responses.open \in SUBSET (0 .. responses.next - 1)
  /\ Cardinality(responses.open) <= 1
  /\ responses.hasDelta \subseteq responses.open
  /\ agent.turn \in 0 .. MaxTurns - 1 /\ agent.uses \in [WebTools -> 0 .. MaxUses]
  /\ wire.phase \in {"before", "open", "ended"}
  /\ wire.last.type \in EventTypes
  /\ \A i \in 1 .. Len(pending) : pending[i].type \in EventTypes

\* Of a serial upstream every flow makes a well-formed stream: what the
\* client reads is a behaviour of BlockProtocol.  Streams of other upstreams
\* are mapped to the initial state, which says nothing of them.
SerialStream == INSTANCE BlockProtocol WITH
  phase <- IF Serial THEN wire.phase ELSE "before",
  block <- IF Serial /\ wire.open # {} THEN "open" ELSE "none",
  next  <- IF Serial THEN wire.next ELSE 0,
  last  <- IF Serial THEN wire.last ELSE NewWire.last

ImplementsBlockProtocol == SerialStream!Spec

\* Whatever the upstream of the agent does, across all turns, tool results
\* and pings included, no block index is given out twice and message_start is
\* sent at most once (stream.ts:18 "the client cursor must keep climbing").
AgentIndicesClimb ==
  [][request.flow = "agent" =>
       /\ (wire'.last # wire.last /\ wire'.last.type = "content_block_start")
            => wire'.last.index = wire.next
       /\ (wire'.last # wire.last /\ wire'.last.type = "message_start")
            => wire.phase = "before"]_vars

\* The arguments of a tool call are read in the block that was started for the
\* call, also when calls are interleaved (stream-translation.ts toolCalls,
\* openFunctionCallBlock).
ArgumentsReachTheirCall ==
  Mannered => \A pair \in wire.args :
    /\ pair[1] < Len(wire.blocks)
    /\ wire.blocks[pair[1] + 1].of = pair[2]

\* A serial upstream's texts and arguments are read once: the complete text
\* that closes a part is not sent on top of its deltas, nor twice.
PartsReadOnce == Serial => wire.twice = {}

\* A run of line breaks longer than the limit is not passed on, however it is
\* spread over deltas (MAX_CONSECUTIVE_FUNCTION_CALL_WHITESPACE); the breaks of
\* initial and whole arguments, which the code sends uncounted, come on top.
WhitespaceCut == \A k \in PartKeys : wire.breaks[k] <= MaxWhitespace

\* Every server_tool_use block is followed by the result of that very call
\* before any other block and before a regular end (stream.ts:4 "after that
\* block ends -> synthesized web_*_tool_result").
ServerToolsAnswered ==
  Mannered => \A i \in 1 .. Len(wire.blocks) :
    wire.blocks[i].kind = "server_tool_use" =>
      IF i < Len(wire.blocks)
      THEN wire.blocks[i + 1] = [kind |-> "result", of |-> wire.blocks[i].of]
      ELSE wire.last.type # "message_stop"

\* The usage a client of the agent is told at the end counts every turn's call
\* (stream.ts:100 "separately-billed").
EveryTurnBilled ==
  (request.flow = "agent" /\ Mannered /\ wire.last.type = "message_stop")
    => wire.billed = agent.turn + 1

\* An upstream and a tool that never settle keep the client waiting; if none
\* stays silent for ever, the client is told how its stream ends, by
\* message_stop or by an error: of a Responses stream whatever the upstream
\* sends, of the others when the upstream finishes or fails.
EveryStreamEndsTold ==
  WF_vars(UpstreamStep) /\ WF_vars(ToolSettles) =>
    ((request.flow = "responses" \/ Mannered) ~> (wire.phase = "ended"))
=============================================================================
