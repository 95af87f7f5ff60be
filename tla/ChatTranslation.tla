-------------------------- MODULE ChatTranslation --------------------------
(***************************************************************************)
(* translateChunkToAnthropicEvents (src/routes/messages/                   *)
(* stream-translation.ts): one chat-completions chunk to the Anthropic     *)
(* events it becomes.  Each handler maps a pair [st, out] of the           *)
(* translator's state and the events so far to the next one.  Texts and    *)
(* signatures are left out; what matters of a chunk is which of its parts  *)
(* are there.                                                              *)
(***************************************************************************)
EXTENDS Integers, Sequences, FiniteSets

CONSTANT CallIndices  \* the indices upstream gives its tool calls

NoBlock == -1         \* the index of no block

----------------------------------------------------------------------------
(* Events.  `kind` is the type of a block or of a delta, `of` the identity *)
(* of what it carries (a tool call, an output part; <<>>: nothing that is  *)
(* told apart), `whole` whether a delta repeats the complete text of its   *)
(* part, `name` the tool's.                                                *)

Event(type) ==
  [type |-> type, index |-> 0, kind |-> "none", of |-> <<>>, whole |-> FALSE,
   name |-> "none", reason |-> "none", usage |-> 0]

BlockStart(i, kind, of) ==
  [Event("content_block_start") EXCEPT !.index = i, !.kind = kind, !.of = of]

ToolStart(i, of, name) == [BlockStart(i, "tool_use", of) EXCEPT !.name = name]

BlockDelta(i, kind, of) ==
  [Event("content_block_delta") EXCEPT !.index = i, !.kind = kind, !.of = of]

WholeDelta(i, kind, of) == [BlockDelta(i, kind, of) EXCEPT !.whole = TRUE]

BlockStop(i) == [Event("content_block_stop") EXCEPT !.index = i]

Terminal(reason) ==
  << [Event("message_delta") EXCEPT !.reason = reason, !.usage = 1],
     Event("message_stop") >>

ErrorEvent == Event("error")

----------------------------------------------------------------------------
(* The translator's state (AnthropicStreamState).                          *)

Fresh == [started  |-> FALSE, index |-> 0, open |-> FALSE, thinking |-> FALSE,
          calls |-> [k \in CallIndices |-> NoBlock]]

\* A chunk: reasoning_text, content, reasoning_opaque, at most one tool call
\* (a chunk with two is like two chunks), finish_reason.
NoCall == [index |-> NoBlock, id |-> <<>>, name |-> "none", args |-> FALSE]

Call(k, id, name, args) == [index |-> k, id |-> id, name |-> name, args |-> args]

IsToolBlockOpen(st) ==
  st.open /\ \E k \in CallIndices : st.calls[k] = st.index

\* Close the block that contentBlockOpen stands for.
CloseContent(p) ==
  [st  |-> [p.st EXCEPT !.open = FALSE, !.index = @ + 1],
   out |-> Append(p.out, BlockStop(p.st.index))]

CloseThinkingBlockIfOpen(p) ==
  IF ~p.st.thinking THEN p
  ELSE [st  |-> [p.st EXCEPT !.thinking = FALSE, !.index = @ + 1],
        out |-> p.out \o << BlockDelta(p.st.index, "signature", <<>>),
                            BlockStop(p.st.index) >>]

\* A whole thinking block for an opaque signature.
HandleReasoningOpaque(p, chunk) ==
  IF ~chunk.opaque THEN p
  ELSE [st  |-> [p.st EXCEPT !.index = @ + 1],
        out |-> p.out \o << BlockStart(p.st.index, "thinking", <<>>),
                            BlockDelta(p.st.index, "thinking", <<>>),
                            BlockDelta(p.st.index, "signature", <<>>),
                            BlockStop(p.st.index) >>]

HandleMessageStart(p) ==
  IF p.st.started THEN p
  ELSE [st  |-> [p.st EXCEPT !.started = TRUE],
        out |-> Append(p.out, Event("message_start"))]

\* Reasoning that arrives while a content block is open becomes its content.
Rerouted(st, chunk) ==
  IF chunk.reasoning /\ st.open
  THEN [chunk EXCEPT !.content = "text", !.reasoning = FALSE] ELSE chunk

HandleThinkingText(p, chunk) ==
  IF ~chunk.reasoning THEN p
  ELSE LET start == IF p.st.thinking THEN <<>>
                    ELSE <<BlockStart(p.st.index, "thinking", <<>>)>>
       IN [st  |-> [p.st EXCEPT !.thinking = TRUE],
           out |-> p.out \o start \o <<BlockDelta(p.st.index, "thinking", <<>>)>>]

HandleText(p, chunk) ==
  IF chunk.content # "text" THEN p
  ELSE LET t     == CloseThinkingBlockIfOpen(p)
           q     == IF IsToolBlockOpen(t.st) THEN CloseContent(t) ELSE t
           start == IF q.st.open THEN <<>> ELSE <<BlockStart(q.st.index, "text", <<>>)>>
       IN [st  |-> [q.st EXCEPT !.open = TRUE],
           out |-> q.out \o start \o <<BlockDelta(q.st.index, "text", <<>>)>>]

\* An opaque signature with empty content closes the thinking block.
HandleSignature(p, chunk) ==
  IF ~(chunk.content = "empty" /\ chunk.opaque /\ p.st.thinking) THEN p
  ELSE [st  |-> [p.st EXCEPT !.thinking = FALSE, !.index = @ + 1],
        out |-> p.out \o << BlockDelta(p.st.index, "signature", <<>>),
                            BlockStop(p.st.index) >>]

HandleContent(p, chunk) == HandleSignature(HandleText(p, chunk), chunk)

HandleReasoningOpaqueInToolCalls(p, chunk) ==
  HandleReasoningOpaque(
    IF p.st.open /\ ~IsToolBlockOpen(p.st) THEN CloseContent(p) ELSE p, chunk)

\* A call with an id and a name opens a block of its own.
NewToolCall(p, call) ==
  LET q == IF p.st.open THEN CloseContent(p) ELSE p
  IN [st  |-> [q.st EXCEPT !.open = TRUE, !.calls[call.index] = q.st.index],
      out |-> Append(q.out, ToolStart(q.st.index, call.id, call.name))]

\* Mutant: arguments go to the block that is current instead of their call's.
ArgumentsToCurrentBlock(p, call, id) ==
  IF p.st.calls[call.index] = NoBlock THEN p
  ELSE [p EXCEPT !.out = Append(@, BlockDelta(p.st.index, "input_json", id))]

\* Arguments go to the block of the call they name, if it was announced.
ToolArguments(p, call, id) ==
  IF p.st.calls[call.index] = NoBlock THEN p
  ELSE [p EXCEPT !.out =
          Append(@, BlockDelta(p.st.calls[call.index], "input_json", id))]

\* `id` is the identity of the call the arguments are meant for.
HandleToolCalls(p, chunk) ==
  IF chunk.call = NoCall THEN p
  ELSE LET opened == HandleReasoningOpaqueInToolCalls(CloseThinkingBlockIfOpen(p), chunk)
           named  == IF chunk.call.name = "none" THEN opened
                     ELSE NewToolCall(opened, chunk.call)
       IN IF chunk.call.args THEN ToolArguments(named, chunk.call, chunk.call.id)
          ELSE named

\* Mutant: the open block is left open at the end.
FinishWithoutStop(p, chunk) ==
  IF chunk.finish = "none" THEN p
  ELSE [p EXCEPT !.out = @ \o Terminal(chunk.finish)]

HandleFinish(p, chunk) ==
  IF chunk.finish = "none" THEN p
  ELSE LET tool   == IsToolBlockOpen(p.st)
           q      == IF p.st.open THEN CloseContent(p) ELSE p
           closed == IF p.st.open /\ ~tool THEN HandleReasoningOpaque(q, chunk) ELSE q
       IN [closed EXCEPT !.out = @ \o Terminal(chunk.finish)]

\* One chunk: [st, out] after all the handlers, in their order.
TranslateChunk(st, chunk) ==
  LET begun    == HandleMessageStart([st |-> st, out |-> <<>>])
      delta    == Rerouted(begun.st, chunk)
      thought  == HandleThinkingText(begun, delta)
      content  == HandleContent(thought, delta)
      called   == HandleToolCalls(content, delta)
  IN HandleFinish(called, delta)
=============================================================================
