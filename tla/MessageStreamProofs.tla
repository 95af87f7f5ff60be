------------------------ MODULE MessageStreamProofs ------------------------
(***************************************************************************)
(* Proofs about MessageStream: its types, the indices of the agent's       *)
(* blocks, the usage the agent reports and the limit on line breaks.       *)
(* Before them, lemmas about the two stream translators: the states and    *)
(* events their handlers make, for any call indices, outputs and parts.    *)
(***************************************************************************)
EXTENDS MessageStream, SequenceTheorems, FiniteSetTheorems, TLAPS

-----------------------------------------------------------------------------
(* Events *)

Idents == {<<>>} \cup PartKeys \cup (Nat \X CallIndices)
BlockKinds == {"none", "text", "thinking", "signature", "input_json", "tool_use"}
Names == {"none", "client"} \cup WebTools
Reasons == {"none", "end_turn", "tool_use", "uncounted"} \cup Outcomes
Tails == {"text", "breaks", "spaces"}

\* Events of `types` that carry no complete text: all that the chat translator makes.
EventsOf(types) ==
    [type: types, index: Nat, kind: BlockKinds, of: Idents, whole: {FALSE}, name: Names,
     reason: Reasons, usage: Nat]

BodyTypes == {"message_start", "content_block_start", "content_block_delta",
              "content_block_stop"}
TerminalTypes == {"message_delta", "message_stop"}
Body == EventsOf(BodyTypes)

LEMMA EventTyped ==
    ASSUME NEW types, NEW t \in types PROVE Event(t) \in EventsOf(types)
<1>1. <<>> \in Idents
  BY DEF Idents
<1> QED
  BY <1>1 DEF Event, EventsOf, BlockKinds, Names, Reasons

LEMMA BodyTyped ==
    ASSUME NEW i \in Nat, NEW kind \in BlockKinds, NEW of \in Idents, NEW name \in Names
    PROVE  /\ BlockStart(i, kind, of) \in Body /\ ToolStart(i, of, name) \in Body
           /\ BlockDelta(i, kind, of) \in Body
           /\ BlockStop(i) \in Body /\ Event("message_start") \in Body
<1>1. \A t \in BodyTypes : Event(t) \in Body
  BY EventTyped DEF Body
<1>2. ASSUME NEW e \in Body, NEW k \in BlockKinds
      PROVE  [e EXCEPT !.index = i, !.kind = k, !.of = of] \in Body
  BY DEF Body, EventsOf
<1>3. BlockStart(i, kind, of) \in Body /\ BlockDelta(i, kind, of) \in Body
  BY <1>1, <1>2 DEF BlockStart, BlockDelta, BodyTypes
<1>4. BlockStart(i, "tool_use", of) \in Body
  BY <1>1, <1>2 DEF BlockStart, BodyTypes, BlockKinds
<1>5. ToolStart(i, of, name) \in Body
  BY <1>4 DEF ToolStart, Body, EventsOf
<1>6. BlockStop(i) \in Body
  BY <1>1 DEF BlockStop, Body, EventsOf, BodyTypes
<1> QED
  BY <1>1, <1>3, <1>5, <1>6 DEF BodyTypes

LEMMA TerminalTyped ==
    ASSUME NEW reason \in Reasons
    PROVE  /\ Terminal(reason) \in Seq(EventsOf(TerminalTypes)) /\ Len(Terminal(reason)) = 2
           /\ Terminal(reason)[1].type = "message_delta" /\ Terminal(reason)[1].usage = 1
           /\ Terminal(reason)[2].type = "message_stop"
<1>1. \A t \in TerminalTypes : Event(t) \in EventsOf(TerminalTypes) /\ Event(t).type = t
  BY EventTyped DEF Event
<1> DEFINE d == [Event("message_delta") EXCEPT !.reason = reason, !.usage = 1]
           s == Event("message_stop")
<1>2. d \in EventsOf(TerminalTypes) /\ d.type = "message_delta" /\ d.usage = 1
  BY <1>1 DEF EventsOf, TerminalTypes
<1>3. s \in EventsOf(TerminalTypes) /\ s.type = "message_stop"
  BY <1>1 DEF TerminalTypes
<1>4. Terminal(reason) = <<d, s>>
  BY DEF Terminal
<1> HIDE DEF d, s
<1> QED
  BY <1>2, <1>3, <1>4

-----------------------------------------------------------------------------
(* The chat-completions translator *)

CallRecord ==
    {NoCall} \cup [index: CallIndices, id: Idents, name: Names, args: BOOLEAN]
ChunkRecord ==
    [reasoning: BOOLEAN, content: {"none", "empty", "text"}, opaque: BOOLEAN,
     call: CallRecord, finish: Reasons]
ChatState ==
    [started: BOOLEAN, index: Nat, open: BOOLEAN, thinking: BOOLEAN,
     calls: [CallIndices -> Nat \cup {NoBlock}]]
ChatPair == [st: ChatState, out: Seq(Body)]

LEMMA FreshTyped == Fresh \in ChatState
  BY DEF Fresh, ChatState

\* A handler's result from the parts it changes.
LEMMA PairTyped ==
    ASSUME NEW st \in ChatState, NEW out \in Seq(Body)
    PROVE  [st |-> st, out |-> out] \in ChatPair
  BY DEF ChatPair

\* The block that is current is closed: the index moves on.
LEMMA MovedOn ==
    ASSUME NEW st \in ChatState
    PROVE  /\ [st EXCEPT !.index = @ + 1] \in ChatState
           /\ [st EXCEPT !.open = FALSE, !.index = @ + 1] \in ChatState
           /\ [st EXCEPT !.thinking = FALSE, !.index = @ + 1] \in ChatState
<1>1. st.index + 1 \in Nat
  BY DEF ChatState
<1>2. ASSUME NEW n \in Nat
      PROVE  /\ [st EXCEPT !.index = n] \in ChatState
             /\ [st EXCEPT !.open = FALSE, !.index = n] \in ChatState
             /\ [st EXCEPT !.thinking = FALSE, !.index = n] \in ChatState
  BY DEF ChatState
<1>3. /\ [st EXCEPT !.index = st.index + 1] \in ChatState
      /\ [st EXCEPT !.open = FALSE, !.index = st.index + 1] \in ChatState
      /\ [st EXCEPT !.thinking = FALSE, !.index = st.index + 1] \in ChatState
  BY <1>1, <1>2
<1> QED
  BY <1>3 DEF ChatState

LEMMA CloseContentTyped ==
    ASSUME NEW p \in ChatPair PROVE CloseContent(p) \in ChatPair
<1>1. p.st \in ChatState /\ p.out \in Seq(Body) /\ p.st.index \in Nat
  BY DEF ChatPair, ChatState
<1>2. BlockStop(p.st.index) \in Body
  BY <1>1, BodyTyped DEF Idents, BlockKinds, Names
<1>3. Append(p.out, BlockStop(p.st.index)) \in Seq(Body)
  BY <1>1, <1>2, AppendProperties
<1>4. [p.st EXCEPT !.open = FALSE, !.index = @ + 1] \in ChatState
  BY <1>1, MovedOn
<1> QED
  BY <1>3, <1>4, PairTyped DEF CloseContent

\* Closing a thinking block, with its signature.
Signed(p) ==
    [st  |-> [p.st EXCEPT !.thinking = FALSE, !.index = @ + 1],
     out |-> p.out \o << BlockDelta(p.st.index, "signature", <<>>), BlockStop(p.st.index) >>]

LEMMA SignedTyped ==
    ASSUME NEW p \in ChatPair PROVE Signed(p) \in ChatPair
<1>1. p.st \in ChatState /\ p.out \in Seq(Body) /\ p.st.index \in Nat
  BY DEF ChatPair, ChatState
<1>2. BlockDelta(p.st.index, "signature", <<>>) \in Body /\ BlockStop(p.st.index) \in Body
  BY <1>1, BodyTyped DEF Idents, BlockKinds, Names
<1>3. << BlockDelta(p.st.index, "signature", <<>>), BlockStop(p.st.index) >> \in Seq(Body)
  BY <1>2
<1> QED
  BY <1>1, <1>3, MovedOn, ConcatProperties DEF Signed, ChatPair

LEMMA CloseThinkingTyped ==
    ASSUME NEW p \in ChatPair PROVE CloseThinkingBlockIfOpen(p) \in ChatPair
  BY SignedTyped DEF CloseThinkingBlockIfOpen, Signed

LEMMA ReasoningOpaqueTyped ==
    ASSUME NEW p \in ChatPair, NEW chunk PROVE HandleReasoningOpaque(p, chunk) \in ChatPair
<1>1. p.st \in ChatState /\ p.out \in Seq(Body) /\ p.st.index \in Nat
  BY DEF ChatPair, ChatState
<1>2. /\ BlockStart(p.st.index, "thinking", <<>>) \in Body
      /\ BlockDelta(p.st.index, "thinking", <<>>) \in Body
      /\ BlockDelta(p.st.index, "signature", <<>>) \in Body /\ BlockStop(p.st.index) \in Body
  BY <1>1, BodyTyped DEF Idents, BlockKinds, Names
<1>3. << BlockStart(p.st.index, "thinking", <<>>), BlockDelta(p.st.index, "thinking", <<>>),
         BlockDelta(p.st.index, "signature", <<>>), BlockStop(p.st.index) >> \in Seq(Body)
  BY <1>2
<1> QED
  BY <1>1, <1>3, MovedOn, ConcatProperties DEF HandleReasoningOpaque, ChatPair

LEMMA MessageStartTyped ==
    ASSUME NEW p \in ChatPair PROVE HandleMessageStart(p) \in ChatPair
<1>1. p.st \in ChatState /\ p.out \in Seq(Body)
  BY DEF ChatPair
<1>2. Event("message_start") \in Body
  BY EventTyped DEF Body, BodyTypes
<1>3. Append(p.out, Event("message_start")) \in Seq(Body)
  BY <1>1, <1>2, AppendProperties
<1>4. [p.st EXCEPT !.started = TRUE] \in ChatState
  BY <1>1 DEF ChatState
<1> QED
  BY <1>3, <1>4, PairTyped DEF HandleMessageStart

LEMMA ReroutedTyped ==
    ASSUME NEW st, NEW chunk \in ChunkRecord
    PROVE  Rerouted(st, chunk) \in ChunkRecord /\ Rerouted(st, chunk).call = chunk.call
           /\ Rerouted(st, chunk).finish = chunk.finish
  BY DEF Rerouted, ChunkRecord

\* A block's start, where it is needed, and a first delta.
LEMMA BegunTyped ==
    ASSUME NEW out \in Seq(Body), NEW i \in Nat, NEW kind \in BlockKinds, NEW running \in BOOLEAN
    PROVE  out \o (IF running THEN <<>> ELSE <<BlockStart(i, kind, <<>>)>>)
               \o <<BlockDelta(i, kind, <<>>)>> \in Seq(Body)
<1>1. BlockStart(i, kind, <<>>) \in Body /\ BlockDelta(i, kind, <<>>) \in Body
  BY BodyTyped DEF Idents, Names
<1> DEFINE start == IF running THEN <<>> ELSE <<BlockStart(i, kind, <<>>)>>
<1>2. start \in Seq(Body) /\ <<BlockDelta(i, kind, <<>>)>> \in Seq(Body)
  BY <1>1
<1> HIDE DEF start
<1>3. out \o start \in Seq(Body)
  BY <1>2, ConcatProperties
<1>4. out \o start \o <<BlockDelta(i, kind, <<>>)>> \in Seq(Body)
  BY <1>2, <1>3, ConcatProperties
<1> QED
  BY <1>4 DEF start

LEMMA ThinkingTextTyped ==
    ASSUME NEW p \in ChatPair, NEW chunk PROVE HandleThinkingText(p, chunk) \in ChatPair
<1>1. p.st \in ChatState /\ p.out \in Seq(Body) /\ p.st.index \in Nat /\ p.st.thinking \in BOOLEAN
  BY DEF ChatPair, ChatState
<1>2. [p.st EXCEPT !.thinking = TRUE] \in ChatState
  BY <1>1 DEF ChatState
<1>3. "thinking" \in BlockKinds
  BY DEF BlockKinds
<1>4. p.out \o (IF p.st.thinking THEN <<>> ELSE <<BlockStart(p.st.index, "thinking", <<>>)>>)
          \o <<BlockDelta(p.st.index, "thinking", <<>>)>> \in Seq(Body)
  BY <1>1, <1>3, BegunTyped
<1> QED
  BY <1>2, <1>4, PairTyped DEF HandleThinkingText

LEMMA TextTyped ==
    ASSUME NEW p \in ChatPair, NEW chunk PROVE HandleText(p, chunk) \in ChatPair
<1> DEFINE t == CloseThinkingBlockIfOpen(p)
           q == IF IsToolBlockOpen(t.st) THEN CloseContent(t) ELSE t
<1>1. q \in ChatPair
  BY CloseThinkingTyped, CloseContentTyped
<1> HIDE DEF q
<1>2. q.st \in ChatState /\ q.out \in Seq(Body) /\ q.st.index \in Nat /\ q.st.open \in BOOLEAN
  BY <1>1 DEF ChatPair, ChatState
<1>3. [q.st EXCEPT !.open = TRUE] \in ChatState
  BY <1>2 DEF ChatState
<1>4. "text" \in BlockKinds
  BY DEF BlockKinds
<1>5. q.out \o (IF q.st.open THEN <<>> ELSE <<BlockStart(q.st.index, "text", <<>>)>>)
          \o <<BlockDelta(q.st.index, "text", <<>>)>> \in Seq(Body)
  BY <1>2, <1>4, BegunTyped
<1>6. [st |-> [q.st EXCEPT !.open = TRUE],
       out |-> q.out \o (IF q.st.open THEN <<>> ELSE <<BlockStart(q.st.index, "text", <<>>)>>)
          \o <<BlockDelta(q.st.index, "text", <<>>)>>] \in ChatPair
  BY <1>3, <1>5, PairTyped
<1> QED
  BY <1>6 DEF HandleText, q

LEMMA ContentTyped ==
    ASSUME NEW p \in ChatPair, NEW chunk PROVE HandleContent(p, chunk) \in ChatPair
<1>1. HandleText(p, chunk) \in ChatPair
  BY TextTyped
<1>2. ASSUME NEW q \in ChatPair PROVE HandleSignature(q, chunk) \in ChatPair
  BY SignedTyped DEF HandleSignature, Signed
<1> QED
  BY <1>1, <1>2 DEF HandleContent

LEMMA OpaqueInToolCallsTyped ==
    ASSUME NEW p \in ChatPair, NEW chunk
    PROVE  HandleReasoningOpaqueInToolCalls(p, chunk) \in ChatPair
<1>1. (IF p.st.open /\ ~IsToolBlockOpen(p.st) THEN CloseContent(p) ELSE p) \in ChatPair
  BY CloseContentTyped
<1> QED
  BY <1>1, ReasoningOpaqueTyped DEF HandleReasoningOpaqueInToolCalls

LEMMA NewToolCallTyped ==
    ASSUME NEW p \in ChatPair, NEW call \in CallRecord \ {NoCall}
    PROVE  NewToolCall(p, call) \in ChatPair
<1> DEFINE q == IF p.st.open THEN CloseContent(p) ELSE p
<1>1. q \in ChatPair
  BY CloseContentTyped
<1> HIDE DEF q
<1>2. q.st \in ChatState /\ q.out \in Seq(Body) /\ q.st.index \in Nat
      /\ q.st.calls \in [CallIndices -> Nat \cup {NoBlock}]
  BY <1>1 DEF ChatPair, ChatState
<1>3. call.index \in CallIndices /\ call.id \in Idents /\ call.name \in Names
  BY DEF CallRecord
<1>4. ToolStart(q.st.index, call.id, call.name) \in Body
  BY <1>2, <1>3, BodyTyped DEF BlockKinds
<1>5. Append(q.out, ToolStart(q.st.index, call.id, call.name)) \in Seq(Body)
  BY <1>2, <1>4, AppendProperties
<1>6. [q.st EXCEPT !.open = TRUE, !.calls[call.index] = q.st.index] \in ChatState
  BY <1>2, <1>3 DEF ChatState
<1>7. [st  |-> [q.st EXCEPT !.open = TRUE, !.calls[call.index] = q.st.index],
       out |-> Append(q.out, ToolStart(q.st.index, call.id, call.name))] \in ChatPair
  BY <1>5, <1>6, PairTyped
<1> QED
  BY <1>7 DEF NewToolCall, q

LEMMA ToolArgumentsTyped ==
    ASSUME NEW p \in ChatPair, NEW call \in CallRecord \ {NoCall}, NEW id \in Idents
    PROVE  ToolArguments(p, call, id) \in ChatPair
<1>1. SUFFICES ASSUME p.st.calls[call.index] # NoBlock
               PROVE  ToolArguments(p, call, id) \in ChatPair
  BY DEF ToolArguments
<1>2. call.index \in CallIndices /\ p.st.calls \in [CallIndices -> Nat \cup {NoBlock}]
      /\ p.out \in Seq(Body)
  BY DEF CallRecord, ChatPair, ChatState
<1>3. p.st.calls[call.index] \in Nat
  BY <1>1, <1>2
<1>4. BlockDelta(p.st.calls[call.index], "input_json", id) \in Body
  BY <1>3, BodyTyped DEF BlockKinds, Names
<1>5. Append(p.out, BlockDelta(p.st.calls[call.index], "input_json", id)) \in Seq(Body)
  BY <1>2, <1>4, AppendProperties
<1> QED
  BY <1>1, <1>5 DEF ToolArguments, ChatPair

LEMMA ToolCallsTyped ==
    ASSUME NEW p \in ChatPair, NEW chunk \in ChunkRecord
    PROVE  HandleToolCalls(p, chunk) \in ChatPair
<1>1. SUFFICES ASSUME chunk.call # NoCall PROVE HandleToolCalls(p, chunk) \in ChatPair
  BY DEF HandleToolCalls
<1>2. chunk.call \in CallRecord \ {NoCall} /\ chunk.call.id \in Idents
  BY <1>1 DEF ChunkRecord, CallRecord
<1> DEFINE opened == HandleReasoningOpaqueInToolCalls(CloseThinkingBlockIfOpen(p), chunk)
           named  == IF chunk.call.name = "none" THEN opened ELSE NewToolCall(opened, chunk.call)
<1>3. opened \in ChatPair
  BY CloseThinkingTyped, OpaqueInToolCallsTyped
<1>4. named \in ChatPair
  BY <1>2, <1>3, NewToolCallTyped
<1> HIDE DEF opened, named
<1>5. ToolArguments(named, chunk.call, chunk.call.id) \in ChatPair
  BY <1>2, <1>4, ToolArgumentsTyped
<1> QED
  BY <1>1, <1>4, <1>5 DEF HandleToolCalls, opened, named

\* What a chunk becomes: events of blocks, and the terminal ones if it finishes the message.
LEMMA ChunkTyped ==
    ASSUME NEW st \in ChatState, NEW chunk \in ChunkRecord
    PROVE  \E p \in ChatPair :
             /\ TranslateChunk(st, chunk).st = p.st
             /\ TranslateChunk(st, chunk).out =
                  IF chunk.finish = "none" THEN p.out ELSE p.out \o Terminal(chunk.finish)
<1> DEFINE begun   == HandleMessageStart([st |-> st, out |-> <<>>])
           delta   == Rerouted(begun.st, chunk)
           thought == HandleThinkingText(begun, delta)
           content == HandleContent(thought, delta)
           called  == HandleToolCalls(content, delta)
           tool    == IsToolBlockOpen(called.st)
           q       == IF called.st.open THEN CloseContent(called) ELSE called
           closed  == IF called.st.open /\ ~tool THEN HandleReasoningOpaque(q, delta) ELSE q
<1>1. begun \in ChatPair
  <2>1. [st |-> st, out |-> <<>>] \in ChatPair
    BY DEF ChatPair
  <2> QED
    BY <2>1, MessageStartTyped
<1>2. delta \in ChunkRecord /\ delta.finish = chunk.finish
  BY ReroutedTyped
<1>3. thought \in ChatPair
  BY <1>1, ThinkingTextTyped
<1>4. content \in ChatPair
  BY <1>3, ContentTyped
<1>5. called \in ChatPair
  BY <1>2, <1>4, ToolCallsTyped
<1>6. TranslateChunk(st, chunk) = HandleFinish(called, delta)
  BY DEF TranslateChunk
<1>7. CASE chunk.finish = "none"
  <2>1. HandleFinish(called, delta) = called
    BY <1>2, <1>7 DEF HandleFinish
  <2> HIDE DEF called
  <2> QED
    BY <1>5, <1>6, <1>7, <2>1
<1>8. CASE chunk.finish # "none"
  <2>1. q \in ChatPair
    BY <1>5, CloseContentTyped
  <2>2. closed \in ChatPair
    BY <2>1, ReasoningOpaqueTyped
  <2>3. HandleFinish(called, delta) = [closed EXCEPT !.out = @ \o Terminal(chunk.finish)]
    BY <1>2, <1>8 DEF HandleFinish
  <2> HIDE DEF closed
  <2>4. [closed EXCEPT !.out = @ \o Terminal(chunk.finish)].st = closed.st
        /\ [closed EXCEPT !.out = @ \o Terminal(chunk.finish)].out =
             closed.out \o Terminal(chunk.finish)
    BY <2>2 DEF ChatPair
  <2> QED
    BY <1>6, <1>8, <2>2, <2>3, <2>4
<1> QED
  BY <1>7, <1>8

-----------------------------------------------------------------------------
(* The Responses translator *)

StreamTypes == BodyTypes \cup TerminalTypes \cup {"error"}
Stream ==
    [type: StreamTypes, index: Nat, kind: BlockKinds, of: Idents, whole: BOOLEAN, name: Names,
     reason: Reasons, usage: Nat]

FunctionRecord == [block: Int, breaks: Nat]

\* A delta of function arguments, which tells how it ends.
ArgumentsDelta ==
    [type: {"content_block_delta"}, index: Nat, kind: {"input_json"}, of: PartKeys,
     whole: {FALSE}, name: Names, reason: Tails, usage: Nat]

\* Blocks are allocated below `next`; at most one is open, and it alone had a delta.
Numbered(st) ==
    /\ st.open = {} \/ \E b \in 0 .. st.next - 1 : st.open = {b}
    /\ st.hasDelta \subseteq st.open
    /\ \A k \in PartKeys : st.blockByKey[k] = NoBlock \/ st.blockByKey[k] \in 0 .. st.next - 1
    /\ \A o \in Outputs :
         st.functions[o] = NoFunction \/ st.functions[o].block \in 0 .. st.next - 1

ResponsesFields ==
    [completed: BOOLEAN, next: Nat, blockByKey: [PartKeys -> Int], open: SUBSET Int,
     hasDelta: SUBSET Int, functions: [Outputs -> FunctionRecord]]
ResponsesState == {st \in ResponsesFields : Numbered(st)}
ResponsesPair == [st: ResponsesState, out: Seq(Stream)]

LEMMA StreamTyped ==
    /\ Body \subseteq Stream /\ ErrorEvent \in Stream
    /\ \A reason \in Reasons : Terminal(reason) \in Seq(Stream)
<1>1. Body \subseteq Stream /\ EventsOf(TerminalTypes) \subseteq Stream
  BY DEF Body, Stream, StreamTypes, EventsOf
<1>2. ErrorEvent \in Stream
  BY EventTyped DEF ErrorEvent, Stream, StreamTypes, EventsOf
<1>3. ASSUME NEW reason \in Reasons PROVE Terminal(reason) \in Seq(Stream)
  <2>1. Terminal(reason) \in Seq(EventsOf(TerminalTypes)) /\ Len(Terminal(reason)) = 2
    BY TerminalTyped
  <2>2. Terminal(reason) = <<Terminal(reason)[1], Terminal(reason)[2]>>
    BY DEF Terminal
  <2>3. Terminal(reason)[1] \in Stream /\ Terminal(reason)[2] \in Stream
    BY <1>1, <2>1
  <2>4. \A a, b \in Stream : <<a, b>> \in Seq(Stream)
    OBVIOUS
  <2>5. <<Terminal(reason)[1], Terminal(reason)[2]>> \in Seq(Stream)
    BY <2>3, <2>4
  <2> QED
    BY <2>2, <2>5
<1> QED
  BY <1>1, <1>2, <1>3

LEMMA FreshResponsesTyped == FreshResponses \in ResponsesState
<1>1. FreshResponses \in ResponsesFields
  BY DEF FreshResponses, ResponsesFields, NoBlock, NoFunction, FunctionRecord
<1>2. Numbered(FreshResponses)
  BY DEF FreshResponses, Numbered
<1> QED
  BY <1>1, <1>2 DEF ResponsesState

LEMMA ResponsesPairTyped ==
    ASSUME NEW st \in ResponsesState, NEW out \in Seq(Stream)
    PROVE  [st |-> st, out |-> out] \in ResponsesPair
  BY DEF ResponsesPair

LEMMA UnchangedTyped ==
    ASSUME NEW st \in ResponsesState PROVE Unchanged(st) \in ResponsesPair
  BY DEF Unchanged, ResponsesPair

LEMMA EmitTyped ==
    ASSUME NEW p \in ResponsesPair, NEW e \in Stream
    PROVE  /\ Emit(p, e) = [st |-> p.st, out |-> Append(p.out, e)]
           /\ Emit(p, e) \in ResponsesPair
<1>1. Emit(p, e) = [st |-> p.st, out |-> Append(p.out, e)]
  <2>1. PICK st \in ResponsesState, out \in Seq(Stream) : p = [st |-> st, out |-> out]
    BY DEF ResponsesPair
  <2>2. Emit(p, e) = [p EXCEPT !.out = Append(p.out, e)]
    BY DEF Emit
  <2> QED
    BY <2>1, <2>2
<1>2. Append(p.out, e) \in Seq(Stream) /\ p.st \in ResponsesState
  BY AppendProperties DEF ResponsesPair
<1> QED
  BY <1>1, <1>2, ResponsesPairTyped

LEMMA EmitKeeps ==
    ASSUME NEW p \in ResponsesPair, NEW e \in Stream
    PROVE  Emit(p, e) \in ResponsesPair /\ Emit(p, e).st = p.st
<1>1. Emit(p, e) = [st |-> p.st, out |-> Append(p.out, e)] /\ Emit(p, e) \in ResponsesPair
  BY EmitTyped
<1> QED
  BY <1>1

\* An update of one field of the translator's state.
LEMMA NestedUpdate ==
    ASSUME NEW st, NEW out, NEW f
    PROVE  [[st |-> st, out |-> out] EXCEPT !.st.functions = f]
             = [st |-> [st EXCEPT !.functions = f], out |-> out]
  OBVIOUS

LEMMA CompletedUpdate ==
    ASSUME NEW st, NEW out
    PROVE  [[st |-> st, out |-> out] EXCEPT !.st.completed = TRUE]
             = [st |-> [st EXCEPT !.completed = TRUE], out |-> out]
<1>1. ASSUME NEW f
      PROVE  [[st |-> st, out |-> out] EXCEPT !.st.completed = f]
               = [st |-> [st EXCEPT !.completed = f], out |-> out]
  OBVIOUS
<1> QED
  BY <1>1, Zenon

\* Updates of an entry of one of its tables, and of a set of blocks.
LEMMA NestedEntry ==
    ASSUME NEW st, NEW n, NEW k, NEW f
    PROVE  /\ [st EXCEPT !.next = n, !.blockByKey[k] = f]
                = [st EXCEPT !.next = n, !.blockByKey = [st.blockByKey EXCEPT ![k] = f]]
           /\ [st EXCEPT !.next = n, !.functions[k] = f]
                = [st EXCEPT !.next = n, !.functions = [st.functions EXCEPT ![k] = f]]
  OBVIOUS

LEMMA OpenUpdate ==
    ASSUME NEW st, NEW out, NEW f
    PROVE  [[st |-> st, out |-> out] EXCEPT !.st.open = @ \cup f]
             = [st |-> [st EXCEPT !.open = st.open \cup f], out |-> out]
  OBVIOUS

LEMMA DeltaUpdate ==
    ASSUME NEW st, NEW out, NEW f
    PROVE  [[st |-> st, out |-> out] EXCEPT !.st.hasDelta = @ \cup f]
             = [st |-> [st EXCEPT !.hasDelta = st.hasDelta \cup f], out |-> out]
  OBVIOUS

\* The stops of the open blocks: there is at most one.
Stops(open) == [i \in 1 .. Cardinality(open) |-> BlockStop(SetToSeq(open)[i])]

LEMMA OneStop ==
    /\ Stops({}) = <<>>
    /\ \A b : Stops({b}) = <<BlockStop(b)>>
<1>1. Stops({}) = <<>>
  BY FS_EmptySet DEF Stops
<1>2. ASSUME NEW b PROVE Stops({b}) = <<BlockStop(b)>>
  <2>1. Cardinality({b}) = 1
    BY FS_Singleton
  <2>2. <<b>> \in [1 .. 1 -> {b}] /\ IsInjective(<<b>>)
    BY DEF IsInjective
  <2>3. SetToSeq({b}) \in [1 .. 1 -> {b}]
    BY <2>1, <2>2 DEF SetToSeq
  <2>4. SetToSeq({b})[1] = b
    BY <2>3
  <2> QED
    BY <2>1, <2>4 DEF Stops
<1> QED
  BY <1>1, <1>2

LEMMA StopsTyped ==
    ASSUME NEW p \in ResponsesPair PROVE Stops(p.st.open) \in Seq(Stream)
<1>1. p.st \in ResponsesFields /\ Numbered(p.st)
  BY DEF ResponsesPair, ResponsesState
<1>2. Stops({}) \in Seq(Stream)
  BY OneStop, EmptySeq
<1>3. ASSUME NEW b \in 0 .. p.st.next - 1, p.st.open = {b} PROVE Stops(p.st.open) \in Seq(Stream)
  <2>1. BlockStop(b) \in Stream
    BY <1>1, BodyTyped, StreamTyped DEF Idents, BlockKinds, Names, ResponsesFields
  <2>2. <<BlockStop(b)>> \in Seq(Stream)
    BY <2>1
  <2>3. Stops({b}) \in Seq(Stream)
    BY <2>2, OneStop
  <2> QED
    BY <1>3, <2>3
<1> QED
  BY <1>1, <1>2, <1>3 DEF Numbered

LEMMA ClosedTyped ==
    ASSUME NEW p \in ResponsesPair
    PROVE  /\ CloseOpenBlocks(p) \in ResponsesPair
           /\ CloseOpenBlocks(p).out = p.out \o Stops(p.st.open)
           /\ CloseOpenBlocks(p).st = [p.st EXCEPT !.open = {}, !.hasDelta = {}]
<1>1. p.st \in ResponsesFields /\ Numbered(p.st) /\ p.out \in Seq(Stream)
  BY DEF ResponsesPair, ResponsesState
<1>2. p.st.hasDelta \ p.st.open = {}
  BY <1>1 DEF Numbered
<1>3. CloseOpenBlocks(p) = [st  |-> [p.st EXCEPT !.open = {}, !.hasDelta = {}],
                            out |-> p.out \o Stops(p.st.open)]
  BY <1>1, <1>2 DEF CloseOpenBlocks, Stops, ResponsesFields
<1>4. Stops(p.st.open) \in Seq(Stream)
  BY StopsTyped
<1>5. [p.st EXCEPT !.open = {}, !.hasDelta = {}] \in ResponsesState
  BY <1>1 DEF ResponsesState, ResponsesFields, Numbered
<1>6. p.out \o Stops(p.st.open) \in Seq(Stream)
  BY <1>1, <1>4, ConcatProperties
<1> DEFINE st == [p.st EXCEPT !.open = {}, !.hasDelta = {}]
           out == p.out \o Stops(p.st.open)
<1> HIDE DEF st, out
<1>7. CloseOpenBlocks(p) = [st |-> st, out |-> out]
  BY <1>3 DEF st, out
<1>8. [st |-> st, out |-> out] \in ResponsesPair
  BY <1>5, <1>6, ResponsesPairTyped DEF st, out
<1>9. CloseOpenBlocks(p).st = st /\ CloseOpenBlocks(p).out = out
  BY <1>7
<1> QED
  BY <1>7, <1>8, <1>9 DEF st, out

LEMMA ClosedAllTyped ==
    ASSUME NEW p \in ResponsesPair
    PROVE  /\ CloseAllOpenBlocks(p) \in ResponsesPair
           /\ CloseAllOpenBlocks(p).out = p.out \o Stops(p.st.open)
           /\ CloseAllOpenBlocks(p).st =
                [p.st EXCEPT !.open = {}, !.hasDelta = {},
                             !.functions = [o \in Outputs |-> NoFunction]]
<1> DEFINE q == CloseOpenBlocks(p)
           none == [o \in Outputs |-> NoFunction]
<1>1. q \in ResponsesPair /\ q.out = p.out \o Stops(p.st.open)
      /\ q.st = [p.st EXCEPT !.open = {}, !.hasDelta = {}]
  BY ClosedTyped
<1> HIDE DEF q
<1>2. q.st \in ResponsesFields /\ Numbered(q.st) /\ p.st \in ResponsesFields
  BY <1>1 DEF ResponsesPair, ResponsesState
<1>4. none \in [Outputs -> FunctionRecord] /\ \A o \in Outputs : none[o] = NoFunction
  BY DEF NoFunction, FunctionRecord, NoBlock
<1> HIDE DEF none
<1>3. [q EXCEPT !.st.functions = none] = [st |-> [q.st EXCEPT !.functions = none], out |-> q.out]
  <2>1. q = [st |-> q.st, out |-> q.out]
    BY <1>1 DEF ResponsesPair
  <2> QED
    BY <2>1, NestedUpdate
<1>5. [q.st EXCEPT !.functions = none] \in ResponsesState
  BY <1>2, <1>4 DEF ResponsesState, ResponsesFields, Numbered
<1>6. [q.st EXCEPT !.functions = none] =
        [p.st EXCEPT !.open = {}, !.hasDelta = {}, !.functions = none]
  BY <1>1, <1>2 DEF ResponsesFields
<1> DEFINE st == [q.st EXCEPT !.functions = none]
<1> HIDE DEF st
<1>7. CloseAllOpenBlocks(p) = [st |-> st, out |-> q.out]
  BY <1>3 DEF CloseAllOpenBlocks, q, none, st
<1>8. q.out \in Seq(Stream) /\ st \in ResponsesState
  BY <1>1, <1>5 DEF ResponsesPair, st
<1>9. CloseAllOpenBlocks(p) \in ResponsesPair
  BY <1>7, <1>8, ResponsesPairTyped
<1>10. CloseAllOpenBlocks(p).st = st /\ CloseAllOpenBlocks(p).out = q.out
  BY <1>7
<1> QED
  BY <1>1, <1>6, <1>9, <1>10 DEF none, st

\* A block is opened: the others are closed, unless it is open already.
Opened(st, b) ==
    IF b \in st.open THEN st ELSE [st EXCEPT !.open = {b}, !.hasDelta = {}]

OpeningOf(open, b, start) == IF b \in open THEN <<>> ELSE Append(Stops(open), start)

LEMMA OpenedTyped ==
    ASSUME NEW p \in ResponsesPair, NEW b \in 0 .. p.st.next - 1, NEW start \in Stream
    PROVE  /\ OpenIfNeeded(p, b, start) \in ResponsesPair
           /\ OpenIfNeeded(p, b, start).st = Opened(p.st, b)
           /\ OpenIfNeeded(p, b, start).out = p.out \o OpeningOf(p.st.open, b, start)
           /\ OpenIfNeeded(p, b, start).st.open = {b}
<1> DEFINE q == CloseOpenBlocks(p)
<1>1. p.st \in ResponsesFields /\ Numbered(p.st)
  BY DEF ResponsesPair, ResponsesState
<1>2. CASE b \in p.st.open
  <2>1. p.st.open = {b}
    BY <1>1, <1>2 DEF Numbered
  <2>2. p.out \in Seq(Stream)
    BY DEF ResponsesPair
  <2>3. p.out = p.out \o <<>>
    BY <2>2, ConcatEmptySeq
  <2> QED
    BY <1>2, <2>1, <2>3 DEF OpenIfNeeded, Opened, OpeningOf
<1>3. CASE b \notin p.st.open
  <2>1. /\ q \in ResponsesPair /\ q.out = p.out \o Stops(p.st.open)
        /\ q.st = [p.st EXCEPT !.open = {}, !.hasDelta = {}]
    BY ClosedTyped
  <2> HIDE DEF q
  <2>2. q = [st |-> q.st, out |-> q.out] /\ q.st \in ResponsesFields /\ q.st.open = {}
    BY <2>1, <1>1 DEF ResponsesPair, ResponsesState, ResponsesFields
  <2> DEFINE st == [p.st EXCEPT !.open = {b}, !.hasDelta = {}]
             out == Append(p.out \o Stops(p.st.open), start)
  <2>3. [q.st EXCEPT !.open = q.st.open \cup {b}] = st
    BY <1>1, <2>1, <2>2 DEF ResponsesFields
  <2>4. st \in ResponsesState /\ st.open = {b}
    <3>0. {b} \in SUBSET Int
      BY <1>1 DEF ResponsesFields
    <3>1. /\ st \in ResponsesFields /\ st.open = {b} /\ st.hasDelta = {} /\ st.next = p.st.next
          /\ st.blockByKey = p.st.blockByKey /\ st.functions = p.st.functions
      BY <1>1, <3>0 DEF ResponsesFields
    <3> HIDE DEF st
    <3>2. Numbered(st)
      BY <1>1, <3>1 DEF Numbered
    <3> QED
      BY <3>1, <3>2 DEF ResponsesState
  <2>5. [q EXCEPT !.st.open = @ \cup {b}] = [st |-> st, out |-> q.out]
    <3>1. q = [st |-> q.st, out |-> q.out]
      BY <2>2
    <3>2. [[st |-> q.st, out |-> q.out] EXCEPT !.st.open = @ \cup {b}] = [st |-> st, out |-> q.out]
      BY <2>3, OpenUpdate
    <3> QED
      BY <3>1, <3>2
  <2> HIDE DEF st
  <2>6. [st |-> st, out |-> q.out] \in ResponsesPair
    BY <2>1, <2>4, ResponsesPairTyped DEF ResponsesPair
  <2>7. /\ Emit([st |-> st, out |-> q.out], start) = [st |-> st, out |-> out]
        /\ Emit([st |-> st, out |-> q.out], start) \in ResponsesPair
    BY <2>1, <2>6, EmitTyped
  <2>8. OpenIfNeeded(p, b, start) = [st |-> st, out |-> out]
    BY <1>3, <2>5, <2>7 DEF OpenIfNeeded, q
  <2> HIDE DEF out
  <2>9. OpenIfNeeded(p, b, start).st = st /\ OpenIfNeeded(p, b, start).out = out
    BY <2>8
  <2>10. st = Opened(p.st, b)
    BY <1>3 DEF st, Opened
  <2>11. out = p.out \o OpeningOf(p.st.open, b, start)
    <3> DEFINE told == p.out
               stops == Stops(p.st.open)
    <3>1. told \in Seq(Stream) /\ stops \in Seq(Stream)
      <4>1. told \in Seq(Stream)
        BY DEF ResponsesPair
      <4>2. stops \in Seq(Stream)
        BY StopsTyped
      <4> QED
        BY <4>1, <4>2
    <3> HIDE DEF told, stops
    <3> DEFINE both == told \o stops
               more == Append(stops, start)
               one == <<start>>
    <3>2. one \in Seq(Stream) /\ both \in Seq(Stream)
      BY <3>1, ConcatProperties
    <3>3. more = stops \o one /\ Append(both, start) = both \o one
      BY <3>1, <3>2, AppendIsConcat
    <3> HIDE DEF more, one
    <3>4. both \o one = told \o (stops \o one)
      BY <3>1, <3>2, ConcatAssociative
    <3> HIDE DEF both
    <3>5. OpeningOf(p.st.open, b, start) = more
      BY <1>3 DEF OpeningOf, stops, more
    <3>6. out = Append(both, start)
      BY DEF out, told, stops, both
    <3> QED
      BY <3>3, <3>4, <3>5, <3>6 DEF told
  <2> QED
    BY <2>4, <2>7, <2>8, <2>9, <2>10, <2>11
<1> QED
  BY <1>2, <1>3

\* The runs of line breaks of these outputs are as they were.
SameRuns(a, b, outputs) ==
    \A o \in outputs : b.functions[o].breaks = a.functions[o].breaks

\* The state with the block of a part allocated.
PartAllocated(st, key) ==
    IF st.blockByKey[key] = NoBlock
    THEN [st EXCEPT !.next = @ + 1, !.blockByKey[key] = st.next] ELSE st

LEMMA PartAllocatedTyped ==
    ASSUME NEW st \in ResponsesState, NEW key \in PartKeys
    PROVE  /\ PartAllocated(st, key) \in ResponsesState
           /\ PartAllocated(st, key).blockByKey[key] \in 0 .. PartAllocated(st, key).next - 1
<1>1. st \in ResponsesFields /\ Numbered(st) /\ st.next \in Nat
  BY DEF ResponsesState, ResponsesFields
<1>2. CASE st.blockByKey[key] # NoBlock
  BY <1>1, <1>2 DEF PartAllocated, Numbered
<1>3. CASE st.blockByKey[key] = NoBlock
  <2> DEFINE blocks == [st.blockByKey EXCEPT ![key] = st.next]
             new == [st EXCEPT !.next = st.next + 1, !.blockByKey = blocks]
  <2>1. blocks \in [PartKeys -> Int]
    BY <1>1 DEF ResponsesFields
  <2> HIDE DEF blocks
  <2>2. new \in ResponsesFields
    <3>1. ASSUME NEW n \in Nat
          PROVE  [st EXCEPT !.next = n, !.blockByKey = blocks] \in ResponsesFields
      BY <1>1, <2>1 DEF ResponsesFields
    <3>2. st.next + 1 \in Nat
      BY <1>1
    <3> QED
      BY <3>1, <3>2
  <2>3. /\ new.next = st.next + 1 /\ new.open = st.open /\ new.hasDelta = st.hasDelta
        /\ new.functions = st.functions /\ new.blockByKey = blocks
    BY <1>1 DEF ResponsesFields
  <2>4. st.blockByKey \in [PartKeys -> Int]
    BY <1>1 DEF ResponsesFields
  <2>5. PartAllocated(st, key) = new
    BY <1>3, NestedEntry DEF PartAllocated, blocks
  <2> HIDE DEF new
  <2>6. Numbered(new) /\ new.blockByKey[key] \in 0 .. new.next - 1
    BY <1>1, <2>3, <2>4 DEF Numbered, blocks
  <2> QED
    BY <2>2, <2>5, <2>6 DEF ResponsesState
<1> QED
  BY <1>2, <1>3

LEMMA OpenPartTyped ==
    ASSUME NEW st \in ResponsesState, NEW kind \in BlockKinds, NEW key \in PartKeys
    PROVE  LET kept == PartAllocated(st, key)
               b    == kept.blockByKey[key]
           IN /\ OpenPart(st, kind, key) =
                   OpenIfNeeded(Unchanged(kept), b, BlockStart(b, kind, key))
              /\ OpenPart(st, kind, key) \in ResponsesPair
              /\ OpenPart(st, kind, key).st.blockByKey[key] = b /\ b \in Nat
              /\ OpenPart(st, kind, key).st.open = {b}
              /\ OpenPart(st, kind, key).st.functions = st.functions
<1> DEFINE kept == PartAllocated(st, key)
           b == kept.blockByKey[key]
           r == OpenIfNeeded(Unchanged(kept), b, BlockStart(b, kind, key))
<1>1. kept \in ResponsesState /\ b \in 0 .. kept.next - 1
  BY PartAllocatedTyped
<1>2. b = IF st.blockByKey[key] = NoBlock THEN st.next ELSE st.blockByKey[key]
  BY DEF PartAllocated, ResponsesState, ResponsesFields
<1>3. OpenPart(st, kind, key) = r
  BY <1>2 DEF OpenPart, PartAllocated
<1> HIDE DEF kept
<1>4. kept \in ResponsesFields /\ b \in Nat
  BY <1>1 DEF ResponsesState, ResponsesFields
<1>5. BlockStart(b, kind, key) \in Stream
  BY <1>4, BodyTyped, StreamTyped DEF Idents, Names
<1>6. Unchanged(kept) \in ResponsesPair /\ Unchanged(kept).st = kept
  BY <1>1, UnchangedTyped DEF Unchanged
<1>7. /\ r \in ResponsesPair /\ r.st.open = {b}
      /\ r.st = Opened(kept, b)
  <2>1. Unchanged(kept) \in ResponsesPair /\ b \in 0 .. Unchanged(kept).st.next - 1
    BY <1>1, <1>6
  <2>2. r \in ResponsesPair /\ r.st.open = {b} /\ r.st = Opened(Unchanged(kept).st, b)
    <3> DEFINE u == Unchanged(kept)
    <3>1. u \in ResponsesPair /\ b \in 0 .. u.st.next - 1
      BY <2>1
    <3> HIDE DEF u, b
    <3>2. ASSUME NEW e \in Stream
          PROVE  /\ OpenIfNeeded(u, b, e) \in ResponsesPair
                 /\ OpenIfNeeded(u, b, e).st.open = {b}
                 /\ OpenIfNeeded(u, b, e).st = Opened(u.st, b)
      BY <3>1, OpenedTyped
    <3> QED
      BY <1>5, <3>2 DEF u
  <2> QED
    BY <1>6, <2>2
<1>8. r.st.blockByKey[key] = b /\ r.st.functions = kept.functions
  BY <1>4, <1>7 DEF Opened, ResponsesFields
<1>9. kept.functions = st.functions
  BY DEF kept, PartAllocated, ResponsesState, ResponsesFields
<1> QED
  BY <1>3, <1>4, <1>7, <1>8, <1>9 DEF kept

\* The state with the block of a call allocated.
CallAllocated(st, o) ==
    IF st.functions[o] = NoFunction
    THEN [st EXCEPT !.next = @ + 1, !.functions[o] = [block |-> st.next, breaks |-> 0]] ELSE st

LEMMA CallAllocatedTyped ==
    ASSUME NEW st \in ResponsesState, NEW o \in Outputs
    PROVE  /\ CallAllocated(st, o) \in ResponsesState
           /\ CallAllocated(st, o).functions[o].block \in 0 .. CallAllocated(st, o).next - 1
<1>1. st \in ResponsesFields /\ Numbered(st) /\ st.next \in Nat
  BY DEF ResponsesState, ResponsesFields
<1>2. CASE st.functions[o] # NoFunction
  BY <1>1, <1>2 DEF CallAllocated, Numbered
<1>3. CASE st.functions[o] = NoFunction
  <2> DEFINE call == [block |-> st.next, breaks |-> 0]
  <2>1. call \in FunctionRecord /\ call.block = st.next
    BY <1>1 DEF FunctionRecord
  <2> DEFINE calls == [st.functions EXCEPT ![o] = call]
             new == [st EXCEPT !.next = st.next + 1, !.functions = calls]
  <2>2. CallAllocated(st, o) = new
    BY <1>3, NestedEntry DEF CallAllocated
  <2> HIDE DEF call
  <2>3. calls \in [Outputs -> FunctionRecord]
    BY <1>1, <2>1 DEF ResponsesFields
  <2> HIDE DEF calls
  <2>4. new \in ResponsesFields
    <3>1. ASSUME NEW n \in Nat
          PROVE  [st EXCEPT !.next = n, !.functions = calls] \in ResponsesFields
      BY <1>1, <2>3 DEF ResponsesFields
    <3>2. st.next + 1 \in Nat
      BY <1>1
    <3> QED
      BY <3>1, <3>2
  <2>5. /\ new.next = st.next + 1 /\ new.open = st.open /\ new.hasDelta = st.hasDelta
        /\ new.blockByKey = st.blockByKey /\ new.functions = calls
    BY <1>1 DEF ResponsesFields
  <2>6. st.functions \in [Outputs -> FunctionRecord] /\ st.blockByKey \in [PartKeys -> Int]
    BY <1>1 DEF ResponsesFields
  <2> HIDE DEF new
  <2>7. new.functions[o] = call /\ \A x \in Outputs : x # o => new.functions[x] = st.functions[x]
    BY <2>5, <2>6 DEF calls
  <2>8. Numbered(new)
    BY <1>1, <2>1, <2>5, <2>6, <2>7 DEF Numbered
  <2>9. new.functions[o].block \in 0 .. new.next - 1
    BY <1>1, <2>1, <2>5, <2>7
  <2> QED
    BY <2>2, <2>4, <2>8, <2>9 DEF ResponsesState
<1> QED
  BY <1>2, <1>3

LEMMA KeyTyped ==
    ASSUME NEW o \in Outputs, NEW part \in Parts
    PROVE  PartKey(o, part) \in PartKeys /\ PartKey(o, 0) \in PartKeys
  BY PartsAssumption DEF PartKey, PartKeys

LEMMA CallRuns ==
    ASSUME NEW st \in ResponsesState, NEW o \in Outputs
    PROVE  SameRuns(st, CallAllocated(st, o), Outputs)
  BY DEF SameRuns, CallAllocated, NoFunction, ResponsesState, ResponsesFields, FunctionRecord

LEMMA OpenFunctionTyped ==
    ASSUME NEW st \in ResponsesState, NEW o \in Outputs
    PROVE  LET kept == CallAllocated(st, o)
               b    == kept.functions[o].block
           IN /\ OpenFunction(st, o) =
                   OpenIfNeeded(Unchanged(kept), b, ToolStart(b, PartKey(o, 0), "client"))
              /\ OpenFunction(st, o) \in ResponsesPair
              /\ OpenFunction(st, o).st.functions[o] = kept.functions[o] /\ b \in Nat
              /\ OpenFunction(st, o).st.open = {b}
              /\ SameRuns(st, OpenFunction(st, o).st, Outputs)
<1> DEFINE kept == CallAllocated(st, o)
           b == kept.functions[o].block
           r == OpenIfNeeded(Unchanged(kept), b, ToolStart(b, PartKey(o, 0), "client"))
<1>1. kept \in ResponsesState /\ b \in 0 .. kept.next - 1
  BY CallAllocatedTyped
<1>2. b = IF st.functions[o] = NoFunction THEN st.next ELSE st.functions[o].block
  BY DEF CallAllocated, ResponsesState, ResponsesFields
<1>3. SameRuns(st, kept, Outputs)
  BY CallRuns
<1>4. OpenFunction(st, o) = r
  <2>1. CASE st.functions[o] = NoFunction
    <3>1. kept = [st EXCEPT !.next = @ + 1, !.functions[o] = [block |-> b, breaks |-> 0]]
      BY <1>2, <2>1 DEF CallAllocated
    <3>2. b = st.next
      BY <1>2, <2>1
    <3> HIDE DEF kept
    <3> QED
      BY <2>1, <3>1, <3>2 DEF OpenFunction
  <2>2. CASE st.functions[o] # NoFunction
    BY <1>2, <2>2 DEF OpenFunction, CallAllocated
  <2> QED
    BY <2>1, <2>2
<1> HIDE DEF kept
<1>5. kept \in ResponsesFields /\ b \in Nat
  BY <1>1 DEF ResponsesState, ResponsesFields
<1>6. ToolStart(b, PartKey(o, 0), "client") \in Stream
  BY <1>5, BodyTyped, StreamTyped, KeyTyped, PartsAssumption DEF Idents, Names, BlockKinds
<1>7. Unchanged(kept) \in ResponsesPair /\ Unchanged(kept).st = kept
  BY <1>1, UnchangedTyped DEF Unchanged
<1>8. /\ r \in ResponsesPair /\ r.st.open = {b}
      /\ r.st = Opened(kept, b)
  <2>1. Unchanged(kept) \in ResponsesPair /\ b \in 0 .. Unchanged(kept).st.next - 1
    BY <1>1, <1>7
  <2>2. r \in ResponsesPair /\ r.st.open = {b} /\ r.st = Opened(Unchanged(kept).st, b)
    <3> DEFINE u == Unchanged(kept)
    <3>1. u \in ResponsesPair /\ b \in 0 .. u.st.next - 1
      BY <2>1
    <3> HIDE DEF u, b
    <3>2. ASSUME NEW e \in Stream
          PROVE  /\ OpenIfNeeded(u, b, e) \in ResponsesPair
                 /\ OpenIfNeeded(u, b, e).st.open = {b}
                 /\ OpenIfNeeded(u, b, e).st = Opened(u.st, b)
      BY <3>1, OpenedTyped
    <3> QED
      BY <1>6, <3>2 DEF u
  <2> QED
    BY <1>7, <2>2
<1>9. r.st.functions[o] = kept.functions[o]
  BY <1>5, <1>8 DEF Opened, ResponsesFields
<1>10. r.st.functions = kept.functions
  BY <1>5, <1>8 DEF Opened, ResponsesFields
<1>11. SameRuns(st, r.st, Outputs)
  BY <1>3, <1>10 DEF SameRuns
<1> QED
  BY <1>4, <1>5, <1>8, <1>9, <1>11 DEF kept

LEMMA WithDeltaTyped ==
    ASSUME NEW p \in ResponsesPair, NEW e, p.st.open = {e.index}
    PROVE  /\ e \in Stream => WithDelta(p, e) \in ResponsesPair
           /\ WithDelta(p, e).st \in ResponsesState
           /\ WithDelta(p, e).st = [p.st EXCEPT !.hasDelta = {e.index}]
           /\ WithDelta(p, e).out = Append(p.out, e)
<1>1. p.st \in ResponsesFields /\ Numbered(p.st)
  BY DEF ResponsesPair, ResponsesState
<1> DEFINE st == [p.st EXCEPT !.hasDelta = {e.index}]
           out == Append(p.out, e)
<1>2. p.st.hasDelta \cup {e.index} = {e.index}
  BY <1>1 DEF Numbered
<1>3. Emit(p, e) = [st |-> p.st, out |-> out]
  BY DEF Emit, ResponsesPair
<1> HIDE DEF out
<1>4. [[st |-> p.st, out |-> out] EXCEPT !.st.hasDelta = @ \cup {e.index}]
        = [st |-> [p.st EXCEPT !.hasDelta = p.st.hasDelta \cup {e.index}], out |-> out]
  BY DeltaUpdate
<1>5. WithDelta(p, e) = [st |-> st, out |-> out]
  BY <1>2, <1>3, <1>4 DEF WithDelta
<1>6. st \in ResponsesState
  BY <1>1 DEF ResponsesState, ResponsesFields, Numbered
<1>7. e \in Stream => out \in Seq(Stream)
  BY AppendProperties DEF ResponsesPair, out
<1> HIDE DEF st
<1>8. WithDelta(p, e).st = st /\ WithDelta(p, e).out = out
  BY <1>5
<1> QED
  BY <1>5, <1>6, <1>7, <1>8, ResponsesPairTyped DEF st, out

LEMMA DeltaEvent ==
    ASSUME NEW b \in Nat, NEW kind \in BlockKinds, NEW of \in Idents
    PROVE  /\ BlockDelta(b, kind, of) \in Stream /\ BlockDelta(b, kind, of).index = b
           /\ WholeDelta(b, kind, of) \in Stream /\ WholeDelta(b, kind, of).index = b
<1>1. BlockDelta(b, kind, of) \in Stream /\ WholeDelta(b, kind, of) \in Stream
  <2>1. BlockDelta(b, kind, of) \in Stream
    BY BodyTyped, StreamTyped DEF Names
  <2> QED
    BY <2>1 DEF WholeDelta, Stream
<1>2. BlockDelta(b, kind, of).index = b
  BY DEF BlockDelta, Event
<1>3. WholeDelta(b, kind, of).index = b
  BY <1>1, <1>2 DEF WholeDelta, BlockDelta, Event
<1> QED
  BY <1>1, <1>2, <1>3

LEMMA ArgumentsDeltaEvent ==
    ASSUME NEW b \in Nat, NEW key \in PartKeys, NEW t \in Tails
    PROVE  /\ [BlockDelta(b, "input_json", key) EXCEPT !.reason = t] \in ArgumentsDelta
           /\ [BlockDelta(b, "input_json", key) EXCEPT !.reason = t].index = b
           /\ [BlockDelta(b, "input_json", key) EXCEPT !.reason = t].of = key
           /\ [BlockDelta(b, "input_json", key) EXCEPT !.reason = t].reason = t
<1>1. ASSUME NEW e \in EventsOf({"content_block_delta"})
      PROVE  LET d == [e EXCEPT !.index = b, !.kind = "input_json", !.of = key]
             IN d \in [type: {"content_block_delta"}, index: {b}, kind: {"input_json"},
                       of: {key}, whole: {FALSE}, name: Names, reason: Reasons, usage: Nat]
  BY DEF EventsOf
<1> DEFINE d == BlockDelta(b, "input_json", key)
<1>2. d \in [type: {"content_block_delta"}, index: {b}, kind: {"input_json"},
             of: {key}, whole: {FALSE}, name: Names, reason: Reasons, usage: Nat]
  BY <1>1, EventTyped DEF BlockDelta
<1> HIDE DEF d
<1>3. [d EXCEPT !.reason = t] \in
        [type: {"content_block_delta"}, index: {b}, kind: {"input_json"}, of: {key},
         whole: {FALSE}, name: Names, reason: {t}, usage: Nat]
  BY <1>2
<1> QED
  BY <1>3 DEF ArgumentsDelta, d

LEMMA WholeTyped ==
    ASSUME NEW p \in ResponsesPair, NEW e \in Stream
    PROVE  WholeIfSilent(p, e) \in ResponsesPair
  BY EmitTyped DEF WholeIfSilent

\* Another run of line breaks for an open call.
WithRun(st, o, n) == [st EXCEPT !.functions[o].breaks = n]

LEMMA WithRunTyped ==
    ASSUME NEW p \in ResponsesPair, NEW o \in Outputs, NEW n \in Nat,
           p.st.functions[o].block \in 0 .. p.st.next - 1
    PROVE  /\ [p EXCEPT !.st.functions[o].breaks = n] = [st |-> WithRun(p.st, o, n), out |-> p.out]
           /\ [p EXCEPT !.st.functions[o].breaks = n] \in ResponsesPair
           /\ WithRun(p.st, o, n).open = p.st.open
<1>1. p.st \in ResponsesFields /\ Numbered(p.st)
  BY DEF ResponsesPair, ResponsesState
<1>2. p = [st |-> p.st, out |-> p.out] /\ p.out \in Seq(Stream)
  BY DEF ResponsesPair
<1>3. ASSUME NEW st, NEW out
      PROVE  [[st |-> st, out |-> out] EXCEPT !.st.functions[o].breaks = n]
                = [st |-> [st EXCEPT !.functions[o].breaks = n], out |-> out]
  OBVIOUS
<1>4. [p EXCEPT !.st.functions[o].breaks = n] = [st |-> WithRun(p.st, o, n), out |-> p.out]
  BY <1>2, <1>3 DEF WithRun
<1> DEFINE call == [p.st.functions[o] EXCEPT !.breaks = n]
           calls == [p.st.functions EXCEPT ![o] = call]
<1>5. p.st.functions \in [Outputs -> FunctionRecord]
  BY <1>1 DEF ResponsesFields
<1>6. call \in FunctionRecord /\ call.block = p.st.functions[o].block
  BY <1>5 DEF FunctionRecord
<1>7. WithRun(p.st, o, n) = [p.st EXCEPT !.functions = calls]
  BY DEF WithRun
<1> HIDE DEF call
<1>8. calls \in [Outputs -> FunctionRecord] /\ calls[o] = call
      /\ \A x \in Outputs : x # o => calls[x] = p.st.functions[x]
  BY <1>5, <1>6
<1> HIDE DEF calls
<1> DEFINE st == [p.st EXCEPT !.functions = calls]
<1>9. /\ st \in ResponsesFields /\ st.open = p.st.open /\ st.hasDelta = p.st.hasDelta
      /\ st.next = p.st.next /\ st.blockByKey = p.st.blockByKey /\ st.functions = calls
  BY <1>1, <1>8 DEF ResponsesFields
<1> HIDE DEF st
<1>10. Numbered(st)
  BY <1>1, <1>6, <1>8, <1>9 DEF Numbered
<1>11. st \in ResponsesState /\ WithRun(p.st, o, n) = st
  BY <1>7, <1>9, <1>10 DEF ResponsesState, st
<1> QED
  BY <1>2, <1>4, <1>9, <1>11, ResponsesPairTyped

\* A call is forgotten.
LEMMA ForgottenTyped ==
    ASSUME NEW p \in ResponsesPair, NEW o \in Outputs
    PROVE  [p EXCEPT !.st.functions[o] = NoFunction] \in ResponsesPair
<1>1. p.st \in ResponsesFields /\ Numbered(p.st)
  BY DEF ResponsesPair, ResponsesState
<1>2. p = [st |-> p.st, out |-> p.out] /\ p.out \in Seq(Stream)
  BY DEF ResponsesPair
<1> DEFINE calls == [p.st.functions EXCEPT ![o] = NoFunction]
           st == [p.st EXCEPT !.functions = calls]
<1>3. ASSUME NEW s, NEW out
      PROVE  [[st |-> s, out |-> out] EXCEPT !.st.functions[o] = NoFunction]
                = [st |-> [s EXCEPT !.functions = [s.functions EXCEPT ![o] = NoFunction]],
                   out |-> out]
  OBVIOUS
<1>4. [p EXCEPT !.st.functions[o] = NoFunction] = [st |-> st, out |-> p.out]
  BY <1>2, <1>3
<1>5. p.st.functions \in [Outputs -> FunctionRecord] /\ NoFunction \in FunctionRecord
  BY <1>1 DEF ResponsesFields, NoFunction, NoBlock, FunctionRecord
<1>6. calls \in [Outputs -> FunctionRecord] /\ calls[o] = NoFunction
      /\ \A x \in Outputs : x # o => calls[x] = p.st.functions[x]
  BY <1>5
<1> HIDE DEF calls
<1>7. /\ st \in ResponsesFields /\ st.open = p.st.open /\ st.hasDelta = p.st.hasDelta
      /\ st.next = p.st.next /\ st.blockByKey = p.st.blockByKey /\ st.functions = calls
  BY <1>1, <1>6 DEF ResponsesFields
<1> HIDE DEF st
<1>8. Numbered(st)
  BY <1>1, <1>6, <1>7 DEF Numbered
<1>9. st \in ResponsesState
  BY <1>7, <1>8 DEF ResponsesState
<1> QED
  BY <1>2, <1>4, <1>9, ResponsesPairTyped

LEMMA CompletedTyped ==
    ASSUME NEW st \in ResponsesState PROVE [st EXCEPT !.completed = TRUE] \in ResponsesState
<1> DEFINE new == [st EXCEPT !.completed = TRUE]
<1>1. /\ new \in ResponsesFields /\ new.open = st.open /\ new.hasDelta = st.hasDelta
      /\ new.next = st.next /\ new.blockByKey = st.blockByKey /\ new.functions = st.functions
  BY DEF ResponsesState, ResponsesFields
<1> HIDE DEF new
<1>2. Numbered(new)
  BY <1>1 DEF ResponsesState, Numbered
<1>3. new \in ResponsesState
  BY <1>1, <1>2 DEF ResponsesState
<1> QED
  BY <1>3 DEF new

LEMMA FailedTyped ==
    ASSUME NEW p \in ResponsesPair
    PROVE  /\ Failed(p) \in ResponsesPair /\ Failed(p).st.completed = TRUE
           /\ Failed(p).out = Append(p.out \o Stops(p.st.open), ErrorEvent)
<1> DEFINE q == CloseAllOpenBlocks(p)
           st == [q.st EXCEPT !.completed = TRUE]
<1>1. q \in ResponsesPair /\ q.out = p.out \o Stops(p.st.open)
  BY ClosedAllTyped
<1> HIDE DEF q
<1>2. q = [st |-> q.st, out |-> q.out] /\ q.out \in Seq(Stream) /\ q.st \in ResponsesState
  BY <1>1 DEF ResponsesPair
<1>3. [q EXCEPT !.st.completed = TRUE] = [st |-> st, out |-> q.out]
  BY <1>2, CompletedUpdate
<1>4. st \in ResponsesState /\ st.completed = TRUE
  BY <1>2, CompletedTyped DEF ResponsesState, ResponsesFields
<1> HIDE DEF st
<1>5. [st |-> st, out |-> q.out] \in ResponsesPair
  BY <1>2, <1>4, ResponsesPairTyped
<1>6. ErrorEvent \in Stream
  BY StreamTyped
<1>7. /\ Emit([st |-> st, out |-> q.out], ErrorEvent) = [st |-> st, out |-> Append(q.out, ErrorEvent)]
      /\ Emit([st |-> st, out |-> q.out], ErrorEvent) \in ResponsesPair
  BY <1>5, <1>6, EmitTyped
<1>8. Failed(p) = Emit([st |-> st, out |-> q.out], ErrorEvent)
  BY <1>3 DEF Failed, q
<1>9. Failed(p) = [st |-> st, out |-> Append(q.out, ErrorEvent)] /\ Failed(p) \in ResponsesPair
  BY <1>7, <1>8
<1>10. Failed(p).st = st /\ Failed(p).out = Append(q.out, ErrorEvent)
  BY <1>9
<1> QED
  BY <1>1, <1>4, <1>9, <1>10

\* The events of output items and of the response as a whole.
ItemTypes == {"text_delta", "text_done", "function_added", "arguments_done", "reasoning_delta",
              "reasoning_done", "reasoning_item_done", "compaction_done", "arguments_delta"}
ItemRecord ==
    [type: ItemTypes, out: Outputs, part: Parts, body: BOOLEAN, tail: {"text", "breaks", "spaces"}]

\* A delta of the block that is open.
LEMMA DeltaTyped ==
    ASSUME NEW p \in ResponsesPair, NEW b \in Nat, p.st.open = {b}, NEW kind \in BlockKinds,
           NEW of \in Idents
    PROVE  /\ WithDelta(p, BlockDelta(b, kind, of)) \in ResponsesPair
           /\ WithDelta(p, WholeDelta(b, kind, of)) \in ResponsesPair
<1>1. ASSUME NEW e \in Stream, e.index = b PROVE WithDelta(p, e) \in ResponsesPair
  BY <1>1, WithDeltaTyped
<1>2. /\ BlockDelta(b, kind, of) \in Stream /\ BlockDelta(b, kind, of).index = b
      /\ WholeDelta(b, kind, of) \in Stream /\ WholeDelta(b, kind, of).index = b
  BY DeltaEvent
<1> QED
  BY <1>1, <1>2

\* A delta that is not looked at.
LEMMA UncheckedTyped ==
    ASSUME NEW d \in Stream, NEW tail
    PROVE  /\ Unchecked(d, tail) \in Stream /\ Unchecked(d, tail).index = d.index
           /\ Unchecked(d, tail).type = d.type /\ Unchecked(d, tail).kind = d.kind
           /\ Unchecked(d, tail).of = d.of /\ Unchecked(d, tail).whole = d.whole
<1> DEFINE r == IF tail = "breaks" THEN "uncounted" ELSE "none"
<1>1. r \in Reasons
  BY DEF Reasons
<1> HIDE DEF r
<1> QED
  BY <1>1 DEF Unchecked, Stream, r

LEMMA UncheckedDelta ==
    ASSUME NEW p \in ResponsesPair, NEW b \in Nat, p.st.open = {b}, NEW of \in Idents, NEW tail
    PROVE  /\ WithDelta(p, Unchecked(BlockDelta(b, "input_json", of), tail)) \in ResponsesPair
           /\ WithDelta(p, Unchecked(WholeDelta(b, "input_json", of), tail)) \in ResponsesPair
<1>1. ASSUME NEW e \in Stream, e.index = b PROVE WithDelta(p, e) \in ResponsesPair
  BY <1>1, WithDeltaTyped
<1>2. "input_json" \in BlockKinds
  BY DEF BlockKinds
<1> QED
  BY <1>1, <1>2, DeltaEvent, UncheckedTyped

LEMMA ItemAddedTyped ==
    ASSUME NEW st \in ResponsesState, NEW e \in ItemRecord
    PROVE  HandleOutputItemAdded(st, e) \in ResponsesPair
<1> DEFINE p == OpenFunction(st, e.out)
           b == p.st.functions[e.out].block
<1>1. e.out \in Outputs
  BY DEF ItemRecord
<1>2. p \in ResponsesPair /\ p.st.open = {b} /\ b \in Nat
  BY <1>1, OpenFunctionTyped
<1> HIDE DEF p
<1>3. PartKey(e.out, 0) \in Idents
  BY <1>1, PartsAssumption, KeyTyped DEF Idents
<1>4. WithDelta(p, Unchecked(BlockDelta(b, "input_json", PartKey(e.out, 0)), e.tail))
        \in ResponsesPair
  BY <1>2, <1>3, UncheckedDelta
<1> QED
  BY <1>2, <1>4 DEF HandleOutputItemAdded, p

\* A delta of arguments: its run of line breaks goes on, or the answer fails.
LEMMA ArgumentsDeltaTyped ==
    ASSUME NEW st \in ResponsesState, NEW e \in ItemRecord
    PROVE  LET h == HandleFunctionCallArgumentsDelta(st, e)
               n == Breaks(st.functions[e.out].breaks, e.tail)
           IN \/ h \in ResponsesPair /\ h.st.completed = TRUE
              \/ \E s \in Seq(Stream), d \in ArgumentsDelta :
                   /\ h.st \in ResponsesState /\ h.out = Append(s, d)
                   /\ d.of = PartKey(e.out, 0) /\ d.reason = e.tail
                   /\ n \in Nat /\ ~(n > MaxWhitespace)
                   /\ h.st.functions[e.out].breaks = n
                   /\ SameRuns(st, h.st, Outputs \ {e.out})
<1> DEFINE p == OpenFunction(st, e.out)
           n == Breaks(st.functions[e.out].breaks, e.tail)
           b == p.st.functions[e.out].block
           q == [p EXCEPT !.st.functions[e.out].breaks = n]
           d == [BlockDelta(b, "input_json", PartKey(e.out, 0)) EXCEPT !.reason = e.tail]
           h == HandleFunctionCallArgumentsDelta(st, e)
<1>1. e.out \in Outputs /\ e.tail \in Tails
  BY DEF ItemRecord, Tails
<1>2. p \in ResponsesPair /\ p.st.open = {b} /\ b \in Nat /\ SameRuns(st, p.st, Outputs)
  BY <1>1, OpenFunctionTyped
<1>3. n = Breaks(p.st.functions[e.out].breaks, e.tail)
  BY <1>1, <1>2 DEF SameRuns
<1>4. CASE n > MaxWhitespace
  <2>1. h = Failed(p)
    BY <1>3, <1>4 DEF HandleFunctionCallArgumentsDelta
  <2> QED
    BY <1>2, <2>1, FailedTyped
<1>5. CASE ~(n > MaxWhitespace)
  <2>1. h = WithDelta(q, d)
    BY <1>3, <1>5 DEF HandleFunctionCallArgumentsDelta
  <2> HIDE DEF p, h
  <2>2. p.st \in ResponsesFields /\ Numbered(p.st) /\ p.out \in Seq(Stream)
    BY <1>2 DEF ResponsesPair, ResponsesState
  <2>3. n \in Nat /\ b \in 0 .. p.st.next - 1
    <3>1. p.st.functions[e.out].breaks \in Nat
      BY <1>1, <2>2 DEF ResponsesFields, FunctionRecord
    <3>2. p.st.functions[e.out] # NoFunction
      BY <1>2 DEF NoFunction, NoBlock
    <3>3. n \in Nat
      <4> HIDE DEF n
      <4> QED
        BY <1>3, <3>1 DEF Breaks
    <3>4. b \in 0 .. p.st.next - 1
      <4>1. \A o \in Outputs : \/ p.st.functions[o] = NoFunction
                               \/ p.st.functions[o].block \in 0 .. p.st.next - 1
        BY <2>2 DEF Numbered
      <4> QED
        BY <1>1, <3>2, <4>1
    <3> QED
      BY <3>3, <3>4
  <2> HIDE DEF n, b
  <2>4. PartKey(e.out, 0) \in PartKeys
    BY <1>1, PartsAssumption, KeyTyped
  <2>5. d \in ArgumentsDelta /\ d.index = b /\ d.of = PartKey(e.out, 0) /\ d.reason = e.tail
    BY <1>1, <1>2, <2>4, ArgumentsDeltaEvent
  <2> HIDE DEF d
  <2>6. /\ q = [st |-> WithRun(p.st, e.out, n), out |-> p.out] /\ q \in ResponsesPair
        /\ WithRun(p.st, e.out, n).open = {b}
    BY <1>1, <1>2, <2>3, WithRunTyped DEF b
  <2>7. q.st = WithRun(p.st, e.out, n) /\ q.out = p.out
    BY <2>6
  <2> HIDE DEF q
  <2>8. /\ h.st \in ResponsesState /\ h.st = [q.st EXCEPT !.hasDelta = {d.index}]
        /\ h.out = Append(q.out, d)
    BY <2>1, <2>5, <2>6, <2>7, WithDeltaTyped
  <2>9. h.st.functions = q.st.functions
    BY <2>6, <2>8 DEF ResponsesPair, ResponsesState, ResponsesFields
  <2>10. /\ q.st.functions[e.out].breaks = n
         /\ \A o \in Outputs \ {e.out} : q.st.functions[o] = p.st.functions[o]
    BY <1>1, <2>2, <2>7 DEF WithRun, ResponsesFields, FunctionRecord
  <2>11. SameRuns(st, h.st, Outputs \ {e.out})
    BY <1>2, <2>9, <2>10 DEF SameRuns
  <2>12. h.out = Append(p.out, d) /\ h.st.functions[e.out].breaks = n
    BY <2>7, <2>8, <2>9, <2>10
  <2> QED
    BY <1>5, <2>2, <2>3, <2>5, <2>8, <2>11, <2>12 DEF n, h
<1> QED
  BY <1>4, <1>5

LEMMA ArgumentsDoneTyped ==
    ASSUME NEW st \in ResponsesState, NEW e \in ItemRecord
    PROVE  HandleFunctionCallArgumentsDone(st, e) \in ResponsesPair
<1> DEFINE p == OpenFunction(st, e.out)
           b == p.st.functions[e.out].block
           d == Unchecked(WholeDelta(b, "input_json", PartKey(e.out, 0)), e.tail)
           q == IF b \in p.st.hasDelta \/ ~e.body THEN p ELSE WithDelta(p, d)
<1>1. e.out \in Outputs
  BY DEF ItemRecord
<1>2. p \in ResponsesPair /\ p.st.open = {b} /\ b \in Nat
  BY <1>1, OpenFunctionTyped
<1> HIDE DEF p
<1>3. PartKey(e.out, 0) \in Idents
  BY <1>1, PartsAssumption, KeyTyped DEF Idents
<1>4. WithDelta(p, d) \in ResponsesPair
  BY <1>2, <1>3, UncheckedDelta
<1>5. q \in ResponsesPair
  BY <1>2, <1>4
<1>6. HandleFunctionCallArgumentsDone(st, e) = [q EXCEPT !.st.functions[e.out] = NoFunction]
  BY DEF HandleFunctionCallArgumentsDone, p
<1> HIDE DEF q
<1> QED
  BY <1>1, <1>5, <1>6, ForgottenTyped

\* Text, reasoning and the ends of reasoning items: the part's block is opened.
LEMMA PartEventsTyped ==
    ASSUME NEW st \in ResponsesState, NEW e \in ItemRecord
    PROVE  /\ HandleOutputTextDelta(st, e) \in ResponsesPair
           /\ HandleOutputTextDone(st, e) \in ResponsesPair
           /\ HandleReasoningSummaryTextDelta(st, e) \in ResponsesPair
           /\ HandleReasoningSummaryTextDone(st, e) \in ResponsesPair
           /\ HandleOutputItemDone(st, e) \in ResponsesPair
<1>1. /\ PartKey(e.out, e.part) \in PartKeys /\ PartKey(e.out, 0) \in PartKeys
      /\ PartKeys \subseteq Idents
  BY KeyTyped DEF ItemRecord, Idents
<1>2. ASSUME NEW kind \in {"text", "thinking"}, NEW key \in PartKeys,
             NEW of \in PartKeys
      PROVE  LET p == OpenPart(st, kind, key)
                 b == p.st.blockByKey[key]
             IN /\ p \in ResponsesPair
                /\ WithDelta(p, BlockDelta(b, kind, of)) \in ResponsesPair
                /\ WholeIfSilent(p, WholeDelta(b, kind, of)) \in ResponsesPair
                /\ WithDelta(p, BlockDelta(b, "signature", key)) \in ResponsesPair
                /\ WithDelta(Emit(p, BlockDelta(b, "thinking", <<>>)),
                             BlockDelta(b, "signature", key)) \in ResponsesPair
  <2> DEFINE p == OpenPart(st, kind, key)
             b == p.st.blockByKey[key]
             q == Emit(p, BlockDelta(b, "thinking", <<>>))
  <2>1. kind \in BlockKinds /\ "signature" \in BlockKinds /\ "thinking" \in BlockKinds
    BY DEF BlockKinds
  <2>2. p \in ResponsesPair /\ p.st.open = {b} /\ b \in Nat
    BY <2>1, OpenPartTyped
  <2> HIDE DEF p
  <2>3. key \in Idents /\ of \in Idents /\ <<>> \in Idents
    BY <1>1 DEF Idents
  <2>4. WholeDelta(b, kind, of) \in Stream /\ BlockDelta(b, "thinking", <<>>) \in Stream
    BY <2>1, <2>2, <2>3, DeltaEvent
  <2>5. q \in ResponsesPair /\ q.st = p.st
    BY <2>2, <2>4, EmitKeeps
  <2> HIDE DEF q
  <2>6. WithDelta(q, BlockDelta(b, "signature", key)) \in ResponsesPair
    BY <2>1, <2>2, <2>3, <2>5, DeltaTyped
  <2>7. /\ WithDelta(p, BlockDelta(b, kind, of)) \in ResponsesPair
        /\ WithDelta(p, BlockDelta(b, "signature", key)) \in ResponsesPair
    BY <2>1, <2>2, <2>3, DeltaTyped
  <2>8. WholeIfSilent(p, WholeDelta(b, kind, of)) \in ResponsesPair
    BY <2>2, <2>4, WholeTyped
  <2> QED
    BY <2>2, <2>6, <2>7, <2>8 DEF p, q
<1>3. HandleOutputTextDelta(st, e) \in ResponsesPair
  BY <1>1, <1>2 DEF HandleOutputTextDelta
<1>4. HandleOutputTextDone(st, e) \in ResponsesPair
  BY <1>1, <1>2 DEF HandleOutputTextDone
<1>5. HandleReasoningSummaryTextDelta(st, e) \in ResponsesPair
  BY <1>1, <1>2 DEF HandleReasoningSummaryTextDelta
<1>6. HandleReasoningSummaryTextDone(st, e) \in ResponsesPair
  BY <1>1, <1>2 DEF HandleReasoningSummaryTextDone
<1>7. HandleOutputItemDone(st, e) \in ResponsesPair
  BY <1>1, <1>2 DEF HandleOutputItemDone
<1> QED
  BY <1>3, <1>4, <1>5, <1>6, <1>7

LEMMA ResponseEndsTyped ==
    ASSUME NEW st \in ResponsesState, NEW e
    PROVE  /\ HandleResponseCreated(st, e) \in ResponsesPair
           /\ HandleResponseCompleted(st, e) \in ResponsesPair
           /\ HandleResponseFailed(st) \in ResponsesPair
           /\ HandleErrorEvent(st) \in ResponsesPair
<1>1. Unchanged(st) \in ResponsesPair
  BY UnchangedTyped
<1>2. HandleResponseCreated(st, e) \in ResponsesPair
  <2>1. Event("message_start") \in Stream
    BY EventTyped DEF Stream, StreamTypes, BodyTypes, EventsOf
  <2> QED
    BY <1>1, <2>1, EmitTyped DEF HandleResponseCreated
<1>3. Failed(Unchanged(st)) \in ResponsesPair
  BY <1>1, FailedTyped
<1>4. HandleResponseCompleted(st, e) \in ResponsesPair
  <2> DEFINE p == CloseAllOpenBlocks(Unchanged(st))
  <2>1. p \in ResponsesPair
    BY <1>1, ClosedAllTyped
  <2> HIDE DEF p
  <2>2. p.st \in ResponsesState /\ p.out \in Seq(Stream)
    BY <2>1 DEF ResponsesPair
  <2>3. p.out \o Terminal("end_turn") \in Seq(Stream)
    BY <2>2, StreamTyped, ConcatProperties DEF Reasons
  <2>4. [st |-> [p.st EXCEPT !.completed = TRUE], out |-> p.out \o Terminal("end_turn")]
          \in ResponsesPair
    BY <2>2, <2>3, CompletedTyped, ResponsesPairTyped
  <2> QED
    BY <1>3, <2>4 DEF HandleResponseCompleted, p
<1>5. HandleErrorEvent(st) \in ResponsesPair
  <2>1. Unchanged([st EXCEPT !.completed = TRUE]) \in ResponsesPair
    BY CompletedTyped, UnchangedTyped
  <2> QED
    BY <2>1, StreamTyped, EmitTyped DEF HandleErrorEvent
<1> QED
  BY <1>2, <1>3, <1>4, <1>5 DEF HandleResponseFailed

\* Every event but a delta of arguments.
LEMMA ResponsesEventTyped ==
    ASSUME NEW st \in ResponsesState, NEW e, e.type # "arguments_delta",
           e \in ItemRecord \/ e.type \in {"created", "completed", "failed", "error"}
    PROVE  TranslateResponsesEvent(st, e) \in ResponsesPair
<1>1. CASE e.type \in {"created", "completed", "failed", "error"}
  BY <1>1, ResponseEndsTyped DEF TranslateResponsesEvent
<1>2. CASE e \in ItemRecord
  <2>1. e.type \in ItemTypes \ {"arguments_delta"}
    BY <1>2 DEF ItemRecord
  <2> QED
    BY <1>2, <2>1, ItemAddedTyped, ArgumentsDoneTyped, PartEventsTyped
       DEF TranslateResponsesEvent, ItemTypes
<1> QED
  BY <1>1, <1>2

\* What is sent of a block that is open leaves the table of calls alone.
LEMMA DeltaKeepsCalls ==
    ASSUME NEW p \in ResponsesPair, NEW b, p.st.open = {b}, NEW e, e.index = b
    PROVE  WithDelta(p, e).st.functions = p.st.functions
<1>1. WithDelta(p, e).st = [p.st EXCEPT !.hasDelta = {e.index}]
  BY WithDeltaTyped
<1> QED
  BY <1>1 DEF ResponsesPair, ResponsesState, ResponsesFields

\* The runs of line breaks change with a call's deltas and with its end only.
LEMMA RunsKept ==
    ASSUME NEW st \in ResponsesState, NEW e \in ItemRecord, e.type # "arguments_delta"
    PROVE  /\ SameRuns(st, TranslateResponsesEvent(st, e).st, Outputs \ {e.out})
           /\ e.type # "arguments_done" =>
                SameRuns(st, TranslateResponsesEvent(st, e).st, Outputs)
<1>1. /\ PartKey(e.out, e.part) \in PartKeys /\ PartKey(e.out, 0) \in PartKeys
      /\ PartKeys \subseteq Idents /\ e.out \in Outputs /\ <<>> \in Idents
  BY KeyTyped DEF ItemRecord, Idents
<1>2. ASSUME NEW kind \in {"text", "thinking"}, NEW key \in PartKeys,
             NEW of \in PartKeys
      PROVE  LET p == OpenPart(st, kind, key)
                 b == p.st.blockByKey[key]
             IN /\ p.st.functions = st.functions
                /\ WithDelta(p, BlockDelta(b, kind, of)).st.functions = st.functions
                /\ WholeIfSilent(p, WholeDelta(b, kind, of)).st.functions = st.functions
                /\ WithDelta(p, BlockDelta(b, "signature", key)).st.functions = st.functions
                /\ WithDelta(Emit(p, BlockDelta(b, "thinking", <<>>)),
                             BlockDelta(b, "signature", key)).st.functions = st.functions
  <2> DEFINE p == OpenPart(st, kind, key)
             b == p.st.blockByKey[key]
             q == Emit(p, BlockDelta(b, "thinking", <<>>))
  <2>1. kind \in BlockKinds /\ "signature" \in BlockKinds /\ "thinking" \in BlockKinds
    BY DEF BlockKinds
  <2>2. p \in ResponsesPair /\ p.st.open = {b} /\ b \in Nat /\ p.st.functions = st.functions
    BY <2>1, OpenPartTyped
  <2> HIDE DEF p
  <2>3. key \in Idents /\ of \in Idents /\ <<>> \in Idents
    BY <1>1 DEF Idents
  <2>4. /\ WholeDelta(b, kind, of) \in Stream /\ BlockDelta(b, "thinking", <<>>) \in Stream
        /\ BlockDelta(b, kind, of).index = b /\ BlockDelta(b, "signature", key).index = b
    BY <2>1, <2>2, <2>3, DeltaEvent
  <2>5. q \in ResponsesPair /\ q.st = p.st
    BY <2>2, <2>4, EmitKeeps
  <2> HIDE DEF q
  <2>6. ASSUME NEW r \in ResponsesPair, r.st = p.st, NEW d, d.index = b
        PROVE  WithDelta(r, d).st.functions = st.functions
    <3>1. r.st.open = {b}
      BY <2>2, <2>6
    <3>2. WithDelta(r, d).st.functions = r.st.functions
      BY <2>6, <3>1, DeltaKeepsCalls
    <3> QED
      BY <2>2, <2>6, <3>2
  <2>7. /\ WithDelta(p, BlockDelta(b, kind, of)).st.functions = st.functions
        /\ WithDelta(p, BlockDelta(b, "signature", key)).st.functions = st.functions
        /\ WithDelta(q, BlockDelta(b, "signature", key)).st.functions = st.functions
    BY <2>2, <2>4, <2>5, <2>6
  <2>8. WholeIfSilent(p, WholeDelta(b, kind, of)).st = p.st
    <3> DEFINE d == WholeDelta(b, kind, of)
    <3>1. d \in Stream
      BY <2>4
    <3> HIDE DEF d
    <3>2. Emit(p, d).st = p.st
      BY <2>2, <3>1, EmitKeeps
    <3>3. WholeIfSilent(p, d) = p \/ WholeIfSilent(p, d) = Emit(p, d)
      BY DEF WholeIfSilent
    <3> QED
      BY <3>2, <3>3 DEF d
  <2> QED
    BY <2>2, <2>7, <2>8 DEF p, q
<1>3. ASSUME e.type \notin {"function_added", "arguments_done"}
      PROVE  TranslateResponsesEvent(st, e).st.functions = st.functions
  <2>1. HandleOutputTextDelta(st, e).st.functions = st.functions
    BY <1>1, <1>2 DEF HandleOutputTextDelta
  <2>2. HandleOutputTextDone(st, e).st.functions = st.functions
    BY <1>1, <1>2 DEF HandleOutputTextDone
  <2>3. HandleReasoningSummaryTextDelta(st, e).st.functions = st.functions
    BY <1>1, <1>2 DEF HandleReasoningSummaryTextDelta
  <2>4. HandleReasoningSummaryTextDone(st, e).st.functions = st.functions
    BY <1>1, <1>2 DEF HandleReasoningSummaryTextDone
  <2>5. HandleOutputItemDone(st, e).st.functions = st.functions
    BY <1>1, <1>2 DEF HandleOutputItemDone
  <2>6. e.type \in ItemTypes \ {"arguments_delta", "function_added", "arguments_done"}
    BY <1>3 DEF ItemRecord
  <2> QED
    BY <2>1, <2>2, <2>3, <2>4, <2>5, <2>6 DEF TranslateResponsesEvent, ItemTypes
<1> DEFINE p == OpenFunction(st, e.out)
           b == p.st.functions[e.out].block
           key == PartKey(e.out, 0)
           given == Unchecked(BlockDelta(b, "input_json", key), e.tail)
           whole == Unchecked(WholeDelta(b, "input_json", key), e.tail)
<1>4. /\ p \in ResponsesPair /\ p.st.open = {b} /\ b \in Nat /\ SameRuns(st, p.st, Outputs)
  BY <1>1, OpenFunctionTyped
<1> HIDE DEF p
<1>5. whole.index = b /\ given.index = b /\ whole \in Stream
  <2>1. /\ WholeDelta(b, "input_json", key) \in Stream
        /\ WholeDelta(b, "input_json", key).index = b
        /\ BlockDelta(b, "input_json", key) \in Stream
        /\ BlockDelta(b, "input_json", key).index = b
    BY <1>1, <1>4, DeltaEvent DEF BlockKinds
  <2> QED
    BY <2>1, UncheckedTyped
<1> HIDE DEF given, whole
<1>6. CASE e.type = "function_added"
  <2>1. TranslateResponsesEvent(st, e) = HandleOutputItemAdded(st, e)
    BY <1>6 DEF TranslateResponsesEvent
  <2>2. WithDelta(p, given).st.functions = p.st.functions
    BY <1>4, <1>5, DeltaKeepsCalls
  <2>3. HandleOutputItemAdded(st, e).st.functions = p.st.functions
    BY <2>2 DEF HandleOutputItemAdded, p, given
  <2> QED
    BY <1>4, <2>1, <2>3 DEF SameRuns
<1>7. CASE e.type = "arguments_done"
  <2> DEFINE d == whole
             q == IF b \in p.st.hasDelta \/ ~e.body THEN p ELSE WithDelta(p, d)
  <2>1. TranslateResponsesEvent(st, e) = [q EXCEPT !.st.functions[e.out] = NoFunction]
    BY <1>7 DEF TranslateResponsesEvent, HandleFunctionCallArgumentsDone, p, whole
  <2>2. WithDelta(p, d) \in ResponsesPair /\ WithDelta(p, d).st.functions = p.st.functions
    <3>1. d \in Stream /\ d.index = b
      BY <1>5
    <3> HIDE DEF d, b
    <3>2. WithDelta(p, d) \in ResponsesPair
      BY <1>4, <3>1, WithDeltaTyped
    <3>3. WithDelta(p, d).st.functions = p.st.functions
      BY <1>4, <3>1, DeltaKeepsCalls
    <3> QED
      BY <3>2, <3>3
  <2>3. q \in ResponsesPair /\ q.st.functions = p.st.functions
    BY <1>4, <2>2
  <2> HIDE DEF q
  <2>4. \A o \in Outputs \ {e.out} :
          [q EXCEPT !.st.functions[e.out] = NoFunction].st.functions[o] = q.st.functions[o]
    BY <2>3 DEF ResponsesPair, ResponsesState, ResponsesFields
  <2> QED
    BY <1>4, <1>7, <2>1, <2>3, <2>4 DEF SameRuns
<1> QED
  BY <1>3, <1>6, <1>7 DEF SameRuns

-----------------------------------------------------------------------------
(* Types *)

ToolCall == [index: Nat, id: Idents, name: Names, args: BOOLEAN]
ToolRecord == {NoCall} \cup ToolCall
EntryRecord == [client: Nat, web: BOOLEAN, call: ToolCall]
Maps == UNION {[S -> EntryRecord] : S \in SUBSET Nat}

\* Translators make no server_tool_use and no result; the agent does.
Kinds == BlockKinds \cup {"server_tool_use", "result"}

Terminals == EventsOf(TerminalTypes)
Inner == EventsOf(BodyTypes \cup TerminalTypes)
Sent ==
    [type: StreamTypes, index: Nat, kind: Kinds, of: Idents, whole: BOOLEAN, name: Names,
     reason: Reasons, usage: Nat]
\* All that the chat flow and the agent send: no complete text.
Pieces ==
    [type: StreamTypes, index: Nat, kind: Kinds, of: Idents, whole: {FALSE}, name: Names,
     reason: Reasons, usage: Nat]
Written == Sent \cup ArgumentsDelta
Readable ==
    [type: EventTypes, index: Nat, kind: Kinds, of: Idents, whole: BOOLEAN, name: Names,
     reason: Reasons \cup Tails, usage: Nat]

UpstreamState ==
    [phase: {"calling", "open", "ended"}, fed: Nat, finished: BOOLEAN, signed: BOOLEAN,
     created: BOOLEAN, part: [PartKeys -> {"new", "begun", "told", "done"}],
     item: [Outputs -> {"none", "message", "function", "reasoning"}]]

AgentState ==
    [turn: 0 .. MaxTurns - 1, cursor: Nat, started: BOOLEAN, map: Maps, stop: Reasons,
     outcomes: Nat, buffered: Seq(Terminals), usage: Nat, uses: [WebTools -> 0 .. MaxUses],
     tool: ToolRecord]

WireState ==
    [phase: {"before", "open", "ended"}, open: SUBSET Nat, next: Nat,
     blocks: Seq([kind: Kinds, of: Idents]), args: SUBSET (Nat \X Idents),
     parts: SUBSET (Kinds \X Idents), wholes: SUBSET (Kinds \X Idents),
     twice: SUBSET (Kinds \X Idents), breaks: [PartKeys -> Nat], billed: Nat,
     last: [type: EventTypes, index: Nat, parity: Int]]

Typed ==
    /\ request \in Requests
    /\ upstream \in UpstreamState
    /\ chat \in ChatState
    /\ responses \in ResponsesState
    /\ agent \in AgentState
    /\ inner \in Seq(Inner)
    /\ pending \in Seq(Written)
    /\ wire \in WireState

LEMMA WrittenReadable ==
    /\ Written \subseteq Readable /\ Event("ping") \in Readable
    /\ Body \subseteq Sent /\ Terminals \subseteq Sent /\ Sent \subseteq Written
    /\ Stream \subseteq Sent /\ \A s \in Seq(Stream) : s \in Seq(Sent)
    /\ Body \subseteq Inner /\ Terminals \subseteq Inner /\ Inner \subseteq Pieces
    /\ Pieces \subseteq Sent /\ Inner \subseteq Sent
<1>1. Event("ping") \in Readable
  BY EventTyped DEF EventsOf, Readable, EventTypes, Kinds
<1>2. Sent \subseteq Readable
  BY DEF Sent, StreamTypes, EventsOf, Readable, EventTypes, BodyTypes, TerminalTypes
<1>3. PartKeys \subseteq Idents
  BY DEF Idents
<1>4. ArgumentsDelta \subseteq Readable
  BY <1>3 DEF ArgumentsDelta, Readable, EventTypes, Kinds, BlockKinds
<1>5. /\ Body \subseteq Sent /\ Terminals \subseteq Sent /\ Inner \subseteq Sent
      /\ Stream \subseteq Sent /\ Inner \subseteq Pieces /\ Pieces \subseteq Sent
  BY DEF Body, Terminals, Inner, Stream, Sent, Pieces, StreamTypes, EventsOf, Kinds
<1>6. Body \subseteq Inner /\ Terminals \subseteq Inner
  BY DEF Body, Terminals, Inner, EventsOf
<1>7. \A s \in Seq(Stream) : s \in Seq(Sent)
  BY <1>5, SeqMonotonic
<1> QED
  BY <1>1, <1>2, <1>4, <1>5, <1>6, <1>7 DEF Written

\* The client's reading of a delta.
LEMMA DeltaReadTyped ==
    ASSUME NEW w \in WireState, NEW e \in Readable PROVE DeltaRead(w, e) \in WireState
<1> DEFINE part == <<e.kind, e.of>>
           args == IF e.kind = "input_json" THEN w.args \cup {<<e.index, e.of>>} ELSE w.args
           parts == IF e.whole THEN w.parts ELSE w.parts \cup {part}
           wholes == IF e.whole THEN w.wholes \cup {part} ELSE w.wholes
           twice == IF part \in w.wholes \/ (e.whole /\ part \in w.parts)
                    THEN w.twice \cup {part} ELSE w.twice
           run == BreaksRead(w.breaks[e.of], e.reason)
           breaks == IF e.kind = "input_json" /\ e.reason # "none"
                     THEN [w.breaks EXCEPT ![e.of] = run] ELSE w.breaks
<1>1. part \in Kinds \X Idents /\ <<e.index, e.of>> \in Nat \X Idents
  BY DEF Readable
<1>2. /\ args \in SUBSET (Nat \X Idents)
      /\ parts \in SUBSET (Kinds \X Idents) /\ wholes \in SUBSET (Kinds \X Idents)
      /\ twice \in SUBSET (Kinds \X Idents)
  BY <1>1 DEF WireState
<1>3. breaks \in [PartKeys -> Nat]
  <2>1. e.of \in PartKeys => run \in Nat
    BY DEF WireState, BreaksRead
  <2> HIDE DEF run
  <2> QED
    BY <2>1 DEF WireState
<1>4. DeltaRead(w, e) = [w EXCEPT !.args = args, !.parts = parts, !.wholes = wholes,
                                  !.twice = twice, !.breaks = breaks]
  BY DEF DeltaRead
<1> HIDE DEF args, parts, wholes, twice, breaks
<1> DEFINE v == [w EXCEPT !.args = args, !.parts = parts, !.wholes = wholes, !.twice = twice]
<1>5. v \in WireState
  BY <1>2 DEF WireState
<1>6. DeltaRead(w, e) = [v EXCEPT !.breaks = breaks]
  BY <1>4
<1> HIDE DEF v
<1> QED
  BY <1>3, <1>5, <1>6 DEF WireState

\* The client's reading of any event.
LEMMA ReadTyped ==
    ASSUME NEW w \in WireState, NEW e \in Readable
    PROVE  /\ EventRead(w, e) \in WireState /\ Read(w, e) \in WireState
           /\ Read(w, e).last.type = e.type /\ Read(w, e).last.index = e.index
           /\ Read(w, e).last.parity = 1 - w.last.parity
<1>1. DeltaRead(w, e) \in WireState
  BY DeltaReadTyped
<1>2. [w EXCEPT !.phase = "open"] \in WireState /\ [w EXCEPT !.phase = "ended"] \in WireState
  BY DEF WireState
<1>3. [w EXCEPT !.open = @ \ {e.index}] \in WireState /\ [w EXCEPT !.billed = e.usage] \in WireState
  BY DEF WireState, Readable
<1>4. [w EXCEPT !.open = @ \cup {e.index},
                !.next = IF e.index >= @ THEN e.index + 1 ELSE @,
                !.blocks = IF e.index >= w.next
                           THEN Append(@, [kind |-> e.kind, of |-> e.of]) ELSE @] \in WireState
  <2> DEFINE open == w.open \cup {e.index}
             next == IF e.index >= w.next THEN e.index + 1 ELSE w.next
             blocks == IF e.index >= w.next
                       THEN Append(w.blocks, [kind |-> e.kind, of |-> e.of]) ELSE w.blocks
  <2>1. open \in SUBSET Nat /\ next \in Nat
    BY DEF WireState, Readable
  <2>2. blocks \in Seq([kind: Kinds, of: Idents])
    <3>1. w.blocks \in Seq([kind: Kinds, of: Idents])
      BY DEF WireState
    <3>2. [kind |-> e.kind, of |-> e.of] \in [kind: Kinds, of: Idents]
      BY DEF Readable
    <3>3. Append(w.blocks, [kind |-> e.kind, of |-> e.of]) \in Seq([kind: Kinds, of: Idents])
      BY <3>1, <3>2, AppendProperties
    <3> QED
      BY <3>1, <3>3
  <2> HIDE DEF open, next, blocks
  <2>3. [w EXCEPT !.open = open, !.next = next, !.blocks = blocks] \in WireState
    BY <2>1, <2>2 DEF WireState
  <2> QED
    BY <2>3 DEF open, next, blocks
<1>5. EventRead(w, e) \in WireState
  BY <1>1, <1>2, <1>3, <1>4 DEF EventRead
<1> DEFINE v == EventRead(w, e)
           last == [type |-> e.type, index |-> e.index, parity |-> 1 - w.last.parity]
<1>6. last \in [type: EventTypes, index: Nat, parity: Int]
  BY DEF WireState, Readable
<1>7. Read(w, e) = [v EXCEPT !.last = last]
  BY DEF Read
<1>8. last.type = e.type /\ last.index = e.index /\ last.parity = 1 - w.last.parity
  OBVIOUS
<1> HIDE DEF v, last
<1>9. [v EXCEPT !.last = last] \in WireState /\ [v EXCEPT !.last = last].last = last
  BY <1>5, <1>6 DEF WireState, v
<1> QED
  BY <1>5, <1>7, <1>8, <1>9 DEF v

LEMMA FreshStates ==
    /\ \A ph \in {"calling", "open", "ended"} : NewUpstream(ph) \in UpstreamState
    /\ NewAgent \in AgentState
    /\ NewWire \in WireState
<1>1. \A ph \in {"calling", "open", "ended"} : NewUpstream(ph) \in UpstreamState
  BY DEF NewUpstream, UpstreamState
<1>2. <<>> \in Maps
  <2>1. <<>> \in [{} -> EntryRecord]
    OBVIOUS
  <2> QED
    BY <2>1 DEF Maps
<1>3. <<>> \in Seq(Terminals)
  BY EmptySeq
<1>4. NewAgent \in AgentState
  BY <1>2, <1>3, LimitsAssumption DEF NewAgent, AgentState, ToolRecord, Reasons
<1>5. <<>> \in Seq([kind: Kinds, of: Idents])
  BY EmptySeq
<1>6. [k \in PartKeys |-> 0] \in [PartKeys -> Nat]
  OBVIOUS
<1>7. [type |-> "none", index |-> 0, parity |-> 0] \in [type: EventTypes, index: Nat, parity: Int]
  BY DEF EventTypes
<1>8. NewWire \in WireState
  BY <1>5, <1>6, <1>7 DEF NewWire, WireState
<1> QED
  BY <1>1, <1>4, <1>8

LEMMA CallsTyped ==
    /\ Chunks \subseteq ChunkRecord
    /\ \A t \in Nat : TurnChunks(t) \subseteq ChunkRecord
    /\ ItemEvents \subseteq ItemRecord
<1>1. ASSUME NEW t \in Nat, NEW k \in CallIndices, NEW name \in Names, NEW args \in BOOLEAN
      PROVE  Call(k, CallId(t, k), name, args) \in CallRecord
  BY DEF Call, CallId, CallRecord, Idents
<1>2. NoCall \in CallRecord
  BY DEF CallRecord
<1>3. ASSUME NEW t \in Nat, NEW tools \in SUBSET ({"client"} \cup WebTools)
      PROVE  Calls(t, tools) \subseteq CallRecord
  BY <1>1, <1>2 DEF Calls, Names
<1>4. Chunks \subseteq ChunkRecord
  BY <1>3 DEF Chunks, ChunkRecord, Reasons
<1>5. ASSUME NEW t \in Nat PROVE TurnChunks(t) \subseteq ChunkRecord
  <2>1. TurnCalls(t) \subseteq CallRecord
    <3>1. Calls(t, IF Mannered THEN {"client"} \cup WebTools ELSE WebTools) \subseteq CallRecord
      BY <1>3
    <3> QED
      BY <3>1 DEF TurnCalls
  <2> QED
    BY <2>1 DEF TurnChunks, ChunkRecord, Reasons
<1>6. ItemEvents \subseteq ItemRecord
  BY PartsAssumption DEF ItemEvents, ItemRecord, ItemTypes
<1> QED
  BY <1>4, <1>5, <1>6

LEMMA TypedInit == Init => Typed
<1> SUFFICES ASSUME Init PROVE Typed
  OBVIOUS
<1>1. request \in Requests
  BY DEF Init
<1>2. upstream \in UpstreamState /\ agent \in AgentState /\ wire \in WireState
  BY FreshStates DEF Init
<1>3. chat \in ChatState /\ responses \in ResponsesState
  BY FreshTyped, FreshResponsesTyped DEF Init
<1>4. inner \in Seq(Inner) /\ pending \in Seq(Written)
  BY EmptySeq DEF Init
<1> QED
  BY <1>1, <1>2, <1>3, <1>4 DEF Typed

\* What a chunk of a turn becomes, as the agent and the chat flow take it.
LEMMA ChunkOut ==
    ASSUME NEW chunk \in ChunkRecord, chat \in ChatState
    PROVE  /\ TranslateChunk(chat, chunk).st \in ChatState
           /\ TranslateChunk(chat, chunk).out \in Seq(Inner)
           /\ TranslateChunk(chat, chunk).out \in Seq(Pieces)
<1>1. PICK p \in ChatPair :
        /\ TranslateChunk(chat, chunk).st = p.st
        /\ TranslateChunk(chat, chunk).out =
             IF chunk.finish = "none" THEN p.out ELSE p.out \o Terminal(chunk.finish)
  BY ChunkTyped
<1>2. p.st \in ChatState /\ p.out \in Seq(Body)
  BY DEF ChatPair
<1>3. p.out \in Seq(Inner) /\ Terminal(chunk.finish) \in Seq(Inner)
  <2>1. Terminal(chunk.finish) \in Seq(Terminals)
    BY TerminalTyped DEF Terminals, ChunkRecord
  <2> QED
    BY <1>2, <2>1, WrittenReadable, SeqMonotonic
<1>4. TranslateChunk(chat, chunk).out \in Seq(Inner)
  BY <1>1, <1>3, ConcatProperties
<1>5. TranslateChunk(chat, chunk).out \in Seq(Pieces)
  BY <1>4, WrittenReadable, SeqMonotonic
<1> QED
  BY <1>1, <1>2, <1>4, <1>5

LEMMA FedTyped ==
    ASSUME NEW chunk \in ChunkRecord, upstream \in UpstreamState, Fed(chunk)
    PROVE  upstream' \in UpstreamState
<1>1. upstream.fed + 1 \in Nat
  BY DEF UpstreamState
<1>2. ASSUME NEW n \in Nat, NEW f \in BOOLEAN, NEW s \in BOOLEAN
      PROVE  [upstream EXCEPT !.fed = n, !.finished = f, !.signed = s] \in UpstreamState
  BY DEF UpstreamState
<1>3. (upstream.finished \/ chunk.finish # "none") \in BOOLEAN
      /\ (upstream.signed \/ chunk.opaque) \in BOOLEAN
  OBVIOUS
<1> QED
  BY <1>1, <1>2, <1>3 DEF Fed

\* The upstream after an event of a Responses answer.
LEMMA TranslatedTyped ==
    ASSUME Typed, NEW e, Translated(e),
           e \in ItemEvents \/ e.type \in {"created", "completed", "failed", "error"}
    PROVE  Typed'
<1> DEFINE p == TranslateResponsesEvent(responses, e)
<1>1. e \in ItemRecord \/ e.type \in {"created", "completed", "failed", "error"}
  BY CallsTyped
<1>2. p.st \in ResponsesState /\ p.out \in Seq(Written)
  <2>1. CASE e.type # "arguments_delta"
    <3>1. p \in ResponsesPair
      BY <1>1, <2>1, ResponsesEventTyped DEF Typed
    <3> HIDE DEF p
    <3>2. p.out \in Seq(Sent)
      BY <3>1, WrittenReadable DEF ResponsesPair
    <3> QED
      BY <3>1, <3>2, WrittenReadable, SeqMonotonic DEF ResponsesPair
  <2>2. CASE e.type = "arguments_delta"
    <3>1. e \in ItemRecord
      BY <1>1, <2>2
    <3>2. p = HandleFunctionCallArgumentsDelta(responses, e)
      BY <2>2 DEF TranslateResponsesEvent
    <3> HIDE DEF p
    <3>3. \/ p \in ResponsesPair
          \/ \E s \in Seq(Sent), d \in ArgumentsDelta :
               p.st \in ResponsesState /\ p.out = Append(s, d)
      BY <3>1, <3>2, ArgumentsDeltaTyped, WrittenReadable DEF Typed
    <3>4. CASE p \in ResponsesPair
      <4>1. p.out \in Seq(Sent)
        BY <3>4, WrittenReadable DEF ResponsesPair
      <4> QED
        BY <3>4, <4>1, WrittenReadable, SeqMonotonic DEF ResponsesPair
    <3>5. ASSUME NEW s \in Seq(Sent), NEW d \in ArgumentsDelta,
                 p.st \in ResponsesState, p.out = Append(s, d)
          PROVE  p.st \in ResponsesState /\ p.out \in Seq(Written)
      <4>1. s \in Seq(Written) /\ d \in Written
        BY WrittenReadable, SeqMonotonic DEF Written
      <4> QED
        BY <3>5, <4>1, AppendProperties
    <3> QED
      BY <3>3, <3>4, <3>5
  <2> QED
    BY <2>1, <2>2
<1>3. upstream' \in UpstreamState
  <2> DEFINE phase == IF p.st.completed THEN "ended" ELSE upstream.phase
             created == upstream.created \/ e.type = "created"
             part == IF e \in ItemEvents THEN PartsAfter(e) ELSE upstream.part
             item == IF e \in ItemEvents THEN [upstream.item EXCEPT ![e.out] = ItemKind(e)]
                     ELSE upstream.item
  <2>1. upstream' = [upstream EXCEPT !.fed = upstream.fed + 1, !.created = created,
                       !.phase = phase, !.part = part, !.item = item]
    BY DEF Translated
  <2>2. phase \in {"calling", "open", "ended"} /\ upstream.fed + 1 \in Nat
    BY DEF Typed, UpstreamState
  <2>3. part \in [PartKeys -> {"new", "begun", "told", "done"}]
    <3>1. AfterEvent(e) \in {"new", "begun", "told", "done"}
      BY DEF AfterEvent
    <3> QED
      BY <3>1 DEF Typed, UpstreamState, PartsAfter
  <2>4. item \in [Outputs -> {"none", "message", "function", "reasoning"}]
    BY DEF Typed, UpstreamState, ItemKind
  <2>5. created \in BOOLEAN
    OBVIOUS
  <2> HIDE DEF phase, created, part, item
  <2>6. ASSUME NEW n \in Nat
        PROVE  [upstream EXCEPT !.fed = n, !.created = created, !.phase = phase,
                  !.part = part, !.item = item] \in UpstreamState
    BY <2>2, <2>3, <2>4, <2>5 DEF Typed, UpstreamState
  <2> QED
    BY <2>1, <2>2, <2>6
<1> QED
  BY <1>2, <1>3 DEF Typed, Translated

\* The entries of the turn's blocks.
LEMMA MapTyped ==
    ASSUME NEW map \in Maps, NEW b \in Nat
    PROVE  /\ \A entry \in EntryRecord : With(map, b, entry) \in Maps
           /\ Without(map, b) \in Maps
           /\ b \in DOMAIN map => map[b] \in EntryRecord
<1>1. PICK S \in SUBSET Nat : map \in [S -> EntryRecord]
  BY DEF Maps
<1>2. ASSUME NEW entry \in EntryRecord PROVE With(map, b, entry) \in Maps
  <2>1. With(map, b, entry) \in [S \cup {b} -> EntryRecord]
    BY <1>1 DEF With
  <2> QED
    BY <2>1 DEF Maps
<1>3. Without(map, b) \in Maps
  <2>1. Without(map, b) \in [S \ {b} -> EntryRecord]
    BY <1>1 DEF Without
  <2> QED
    BY <2>1 DEF Maps
<1> QED
  BY <1>1, <1>2, <1>3

LEMMA EntryTyped ==
    ASSUME NEW e \in Inner, NEW client \in Nat PROVE Entry(e, client) \in EntryRecord
  BY DEF Entry, Call, EntryRecord, ToolCall, Inner, EventsOf

\* An event moved from one place to another, with another index or kind.
LEMMA EventReindexed ==
    ASSUME NEW e \in Inner, NEW i \in Nat
    PROVE  <<[e EXCEPT !.index = i]>> \in Seq(Pieces)
<1>1. [e EXCEPT !.index = i] \in Inner
  BY DEF Inner, EventsOf
<1> QED
  BY <1>1, WrittenReadable

LEMMA EventMoved ==
    ASSUME NEW e \in Inner, NEW i \in Nat, NEW kind \in Kinds
    PROVE  <<[e EXCEPT !.index = i, !.kind = kind]>> \in Seq(Pieces)
<1>1. [e EXCEPT !.index = i, !.kind = kind] \in Pieces
  BY DEF Inner, EventsOf, Pieces, StreamTypes
<1> QED
  BY <1>1

LEMMA StampedTyped ==
    ASSUME NEW s \in Seq(Terminals), NEW n \in Nat
    PROVE  /\ Stamped(s, n) \in Seq(Terminals) /\ Stamped(s, n) \in Seq(Pieces)
           /\ Len(Stamped(s, n)) = Len(s)
<1>1. \A e \in Terminals : [e EXCEPT !.usage = n] \in Terminals
  BY DEF Terminals, EventsOf
<1>2. \A i \in 1 .. Len(s) : (IF s[i].type = "message_delta" THEN [s[i] EXCEPT !.usage = n]
                             ELSE s[i]) \in Terminals
  BY <1>1
<1>3. Len(s) \in Nat
  OBVIOUS
<1>4. Stamped(s, n) \in Seq(Terminals) /\ Len(Stamped(s, n)) = Len(s)
  BY <1>2, <1>3, IsASeq DEF Stamped
<1>5. Stamped(s, n) \in Seq(Pieces)
  BY <1>4, WrittenReadable, SeqMonotonic
<1> QED
  BY <1>4, <1>5

LEMMA TurnUsageTyped ==
    ASSUME NEW s \in Seq(Terminals) PROVE TurnUsage(s) \in Nat
<1>1. IsFiniteSet(1 .. Len(s))
  BY FS_Interval
<1>2. IsFiniteSet({i \in 1 .. Len(s) : s[i].type = "message_delta"})
  BY <1>1, FS_Subset
<1> QED
  BY <1>2, FS_CardinalityType DEF TurnUsage

LEMMA HeadTyped ==
    ASSUME NEW S, NEW s \in Seq(S), s # <<>>
    PROVE  Head(s) \in S /\ Tail(s) \in Seq(S) /\ Len(s) \in Nat \ {0}
  BY HeadTailProperties, LenProperties

LEMMA PhaseTyped ==
    ASSUME NEW u \in UpstreamState, NEW ph \in {"calling", "open", "ended"}
    PROVE  [u EXCEPT !.phase = ph] \in UpstreamState
  BY DEF UpstreamState

LEMMA OneErrorTyped == <<ErrorEvent>> \in Seq(Pieces)
<1>1. ErrorEvent \in EventsOf({"error"})
  BY EventTyped DEF ErrorEvent
<1>2. ErrorEvent \in Pieces
  BY <1>1 DEF EventsOf, Pieces, StreamTypes, Kinds
<1> QED
  BY <1>2

\* A step that writes no delta of function arguments.
Quietly == Typed /\ pending \in Seq(Pieces)

LEMMA StreamWritten == \A s \in Seq(Sent) : s \in Seq(Written)
  BY WrittenReadable, SeqMonotonic

LEMMA PiecesSent == \A s \in Seq(Pieces) : s \in Seq(Sent) /\ s \in Seq(Written)
  BY WrittenReadable, StreamWritten, SeqMonotonic

LEMMA TypedDispatch ==
    ASSUME Typed
    PROVE  /\ DispatchMessageStart => Quietly'
           /\ HandleBlockStart => Quietly'
           /\ HandleBlockDelta => Quietly'
           /\ HandleBlockStop => Quietly'
           /\ BufferTerminal => Quietly'
<1> DEFINE e == Head(inner)
<1>1. ASSUME NEW type, Dispatching(type)
      PROVE  /\ e \in Inner /\ Tail(inner) \in Seq(Inner) /\ inner' = Tail(inner) /\ e.type = type
             /\ e.index \in Nat
             /\ UNCHANGED <<request, upstream, chat, responses, wire>>
  <2>1. e \in Inner /\ Tail(inner) \in Seq(Inner)
    BY <1>1, HeadTyped DEF Dispatching, Typed
  <2> QED
    BY <1>1, <2>1 DEF Dispatching, Inner, EventsOf
<1> HIDE DEF e
<1>2. agent \in AgentState /\ agent.map \in Maps /\ agent.cursor \in Nat
      /\ agent.buffered \in Seq(Terminals) /\ agent.stop \in Reasons
  BY DEF Typed, AgentState
<1>3. <<>> \in Seq(Pieces)
  BY EmptySeq
<1>4. ASSUME DispatchMessageStart PROVE Quietly'
  <2>1. /\ Dispatching("message_start")
        /\ pending' = IF agent.started THEN <<>> ELSE <<e>>
        /\ agent' = [agent EXCEPT !.started = TRUE]
    BY <1>4 DEF DispatchMessageStart, e
  <2>2. e \in Inner
    BY <1>1, <2>1
  <2>3. <<e>> \in Seq(Pieces)
    BY <2>2, WrittenReadable
  <2>4. agent' \in AgentState
    BY <1>2, <2>1 DEF AgentState
  <2> QED
    BY <1>1, <1>3, <2>1, <2>3, <2>4, PiecesSent DEF Typed, Quietly
<1>5. ASSUME HandleBlockStart PROVE Quietly'
  <2> DEFINE kind == IF e.name \in WebTools THEN "server_tool_use" ELSE e.kind
             map == With(agent.map, e.index, Entry(e, agent.cursor))
  <2>1. /\ Dispatching("content_block_start")
        /\ agent' = [agent EXCEPT !.cursor = agent.cursor + 1, !.map = map]
        /\ pending' = <<[e EXCEPT !.index = agent.cursor, !.kind = kind]>>
    BY <1>5 DEF HandleBlockStart, e
  <2>2. e \in Inner /\ e.index \in Nat
    BY <1>1, <2>1
  <2>3. kind \in Kinds /\ map \in Maps
    BY <1>2, <2>2, EntryTyped, MapTyped DEF Inner, EventsOf, Kinds
  <2> HIDE DEF kind, map
  <2>4. pending' \in Seq(Pieces)
    BY <1>2, <2>1, <2>2, <2>3, EventMoved
  <2>5. agent.cursor + 1 \in Nat
    BY <1>2
  <2>6. \A n \in Nat : [agent EXCEPT !.cursor = n, !.map = map] \in AgentState
    BY <1>2, <2>3 DEF AgentState
  <2>7. agent' \in AgentState
    BY <2>1, <2>5, <2>6
  <2> QED
    BY <1>1, <2>1, <2>4, <2>7, PiecesSent DEF Typed, Quietly
<1>6. ASSUME HandleBlockDelta PROVE Quietly'
  <2>1. /\ Dispatching("content_block_delta") /\ agent' = agent
        /\ pending' = IF e.index \notin DOMAIN agent.map THEN <<>>
                      ELSE <<[e EXCEPT !.index = agent.map[e.index].client]>>
    BY <1>6 DEF HandleBlockDelta, e
  <2>2. e \in Inner /\ e.index \in Nat
    BY <1>1, <2>1
  <2>3. e.index \in DOMAIN agent.map => agent.map[e.index].client \in Nat
    BY <1>2, <2>2, MapTyped DEF EntryRecord
  <2>4. e.index \in DOMAIN agent.map =>
          <<[e EXCEPT !.index = agent.map[e.index].client]>> \in Seq(Pieces)
    BY <2>2, <2>3, EventReindexed
  <2> QED
    BY <1>1, <1>2, <1>3, <2>1, <2>4, PiecesSent DEF Typed, Quietly
<1>7. ASSUME HandleBlockStop PROVE Quietly'
  <2> DEFINE entry == agent.map[e.index]
             tool == IF entry.web THEN entry.call ELSE NoCall
             map == Without(agent.map, e.index)
  <2>1. /\ Dispatching("content_block_stop")
        /\ \/ e.index \notin DOMAIN agent.map /\ pending' = <<>> /\ agent' = agent
           \/ /\ e.index \in DOMAIN agent.map
              /\ pending' = <<[e EXCEPT !.index = entry.client]>>
              /\ agent' = [agent EXCEPT !.map = map, !.tool = tool]
    BY <1>7 DEF HandleBlockStop, e
  <2>2. e \in Inner /\ e.index \in Nat
    BY <1>1, <2>1
  <2>3. CASE e.index \notin DOMAIN agent.map
    BY <1>1, <1>2, <1>3, <2>1, <2>3, PiecesSent DEF Typed, Quietly
  <2>4. CASE e.index \in DOMAIN agent.map
    <3>1. entry \in EntryRecord /\ map \in Maps
      BY <1>2, <2>2, <2>4, MapTyped
    <3> HIDE DEF entry, map
    <3>2. tool \in ToolRecord /\ entry.client \in Nat
      BY <3>1 DEF EntryRecord, ToolRecord
    <3> HIDE DEF tool
    <3>3. <<[e EXCEPT !.index = entry.client]>> \in Seq(Pieces)
      BY <2>2, <3>2, EventReindexed
    <3>4. [agent EXCEPT !.map = map, !.tool = tool] \in AgentState
      BY <1>2, <3>1, <3>2 DEF AgentState
    <3> QED
      BY <1>1, <2>1, <2>4, <3>3, <3>4, PiecesSent DEF Typed, Quietly
  <2> QED
    BY <2>3, <2>4
<1>8. ASSUME BufferTerminal PROVE Quietly'
  <2> DEFINE stop == IF e.type = "message_delta" THEN e.reason ELSE agent.stop
             buffered == Append(agent.buffered, e)
  <2>1. PICK type \in {"message_delta", "message_stop"} : Dispatching(type)
    BY <1>8 DEF BufferTerminal
  <2>2. agent' = [agent EXCEPT !.buffered = buffered, !.stop = stop] /\ pending' = pending
    BY <1>8 DEF BufferTerminal, e
  <2>3. e \in Inner /\ e.type = type
    BY <1>1, <2>1
  <2>4. e \in Terminals
    BY <2>1, <2>3 DEF Terminals, Inner, EventsOf, TerminalTypes
  <2>5. buffered \in Seq(Terminals) /\ stop \in Reasons
    BY <1>2, <2>3, <2>4, AppendProperties DEF Inner, EventsOf
  <2> HIDE DEF buffered, stop
  <2>6. agent' \in AgentState
    BY <1>2, <2>2, <2>5 DEF AgentState
  <2> QED
    BY <1>1, <1>3, <2>1, <2>2, <2>6 DEF Typed, Quietly, Dispatching
<1> QED
  BY <1>4, <1>5, <1>6, <1>7, <1>8

\* The block that tells what came out of a tool.
LEMMA ResultTyped ==
    ASSUME NEW outcome \in Outcomes, agent.cursor \in Nat, agent.tool \in ToolRecord
    PROVE  /\ Result(outcome) \in Seq(Pieces) /\ Len(Result(outcome)) = 2
           /\ Result(outcome)[1].type = "content_block_start"
           /\ Result(outcome)[1].index = agent.cursor /\ Result(outcome)[1].kind = "result"
           /\ Result(outcome)[1].of = agent.tool.id
           /\ Result(outcome)[2] = BlockStop(agent.cursor)
<1> DEFINE text  == BlockStart(agent.cursor, "text", agent.tool.id)
           start == [BlockStart(agent.cursor, "result", agent.tool.id) EXCEPT !.reason = outcome]
           stop  == BlockStop(agent.cursor)
<1>1. agent.tool.id \in Idents
  BY DEF ToolRecord, ToolCall, NoCall, Idents
<1>2. stop \in Body /\ text \in Body
  BY <1>1, BodyTyped DEF BlockKinds, Names
<1>3. /\ text.type = "content_block_start" /\ text.index = agent.cursor
      /\ text.of = agent.tool.id
      /\ start = [text EXCEPT !.kind = "result", !.reason = outcome]
  BY DEF BlockStart, Event
<1>4. stop \in Pieces /\ text \in Pieces
  BY <1>2, WrittenReadable
<1> HIDE DEF text
<1>5. /\ start \in Pieces /\ start.type = "content_block_start" /\ start.index = agent.cursor
      /\ start.kind = "result" /\ start.of = agent.tool.id
  BY <1>3, <1>4 DEF Pieces, Kinds, Reasons
<1>6. Result(outcome) = <<start, stop>>
  BY DEF Result
<1> HIDE DEF start, stop
<1>7. /\ Result(outcome) \in Seq(Pieces) /\ Len(Result(outcome)) = 2
      /\ Result(outcome)[1] = start /\ Result(outcome)[2] = stop
  BY <1>4, <1>5, <1>6
<1> QED
  BY <1>5, <1>7 DEF stop

LEMMA TypedTurns ==
    ASSUME Typed
    PROVE  /\ ToolSettles => Quietly'
           /\ NextTurn => Quietly'
           /\ LastTurn => Quietly'
<1>1. /\ agent \in AgentState /\ agent.cursor \in Nat /\ agent.tool \in ToolRecord
      /\ agent.buffered \in Seq(Terminals) /\ agent.usage \in Nat
      /\ agent.uses \in [WebTools -> 0 .. MaxUses]
      /\ agent.outcomes \in Nat /\ agent.turn \in 0 .. MaxTurns - 1
  BY DEF Typed, AgentState
<1>2. ASSUME ToolSettles PROVE Quietly'
  <2>1. PICK outcome \in Outcomes :
          /\ outcome # "refused" => agent.uses[agent.tool.name] < MaxUses
          /\ agent' = [agent EXCEPT !.uses = Counted(outcome), !.outcomes = agent.outcomes + 1,
                                    !.cursor = agent.cursor + 1, !.tool = NoCall]
          /\ pending' = Result(outcome)
    BY <1>2 DEF ToolSettles
  <2> DEFINE uses == Counted(outcome)
  <2>2. /\ uses \in [WebTools -> 0 .. MaxUses]
        /\ agent.outcomes + 1 \in Nat /\ agent.cursor + 1 \in Nat
    <3> DEFINE t == agent.tool.name
    <3>1. ASSUME t \in WebTools, outcome = "ok" PROVE agent.uses[t] + 1 \in 0 .. MaxUses
      <4>1. agent.uses[t] \in 0 .. MaxUses
        BY <1>1, <3>1
      <4>2. agent.uses[t] < MaxUses
        BY <2>1, <3>1
      <4> QED
        BY <4>1, <4>2, LimitsAssumption
    <3> HIDE DEF t
    <3>2. [agent.uses EXCEPT ![t] = IF outcome = "ok" THEN agent.uses[t] + 1 ELSE agent.uses[t]]
            \in [WebTools -> 0 .. MaxUses]
      BY <1>1, <3>1
    <3> QED
      BY <1>1, <3>2 DEF Counted, t
  <2> HIDE DEF uses
  <2>3. \A o, c \in Nat :
          [agent EXCEPT !.uses = uses, !.outcomes = o, !.cursor = c, !.tool = NoCall]
            \in AgentState
    <3>1. NoCall \in ToolRecord
      BY DEF ToolRecord
    <3> QED
      BY <1>1, <2>2, <3>1 DEF AgentState
  <2>4. agent' \in AgentState
    BY <2>1, <2>2, <2>3 DEF uses
  <2>5. Result(outcome) \in Seq(Pieces)
    BY <1>1, ResultTyped
  <2>6. UNCHANGED <<request, upstream, chat, responses, inner, wire>>
    BY <1>2 DEF ToolSettles
  <2> QED
    BY <2>1, <2>4, <2>5, <2>6, PiecesSent DEF Typed, Quietly
<1> DEFINE usage == agent.usage + TurnUsage(agent.buffered)
<1>3. usage \in Nat
  BY <1>1, TurnUsageTyped
<1>4. ASSUME NextTurn PROVE Quietly'
  <2>1. agent' = [agent EXCEPT !.turn = agent.turn + 1, !.map = <<>>, !.stop = "none",
                    !.outcomes = 0, !.buffered = <<>>, !.usage = usage]
    BY <1>4 DEF NextTurn
  <2>2. agent.turn + 1 \in 0 .. MaxTurns - 1
    BY <1>1, <1>4, LimitsAssumption DEF NextTurn, GoesOn
  <2> HIDE DEF usage
  <2>3. <<>> \in Maps /\ <<>> \in Seq(Terminals) /\ "none" \in Reasons
    BY FreshStates DEF NewAgent, AgentState
  <2>4. \A n \in 0 .. MaxTurns - 1 :
          [agent EXCEPT !.turn = n, !.map = <<>>, !.stop = "none",
                    !.outcomes = 0, !.buffered = <<>>, !.usage = usage] \in AgentState
    BY <1>1, <1>3, <2>3 DEF AgentState
  <2>5. agent' \in AgentState
    BY <2>1, <2>2, <2>4
  <2>6. upstream' \in UpstreamState /\ chat' \in ChatState
    BY <1>4, FreshStates, FreshTyped DEF NextTurn
  <2> QED
    BY <1>4, <2>5, <2>6, EmptySeq DEF Typed, Quietly, NextTurn, TurnOver, Idle
<1>5. ASSUME LastTurn PROVE Quietly'
  <2>1. /\ pending' = Stamped(agent.buffered, usage)
        /\ agent' = [agent EXCEPT !.buffered = <<>>, !.usage = usage]
    BY <1>5 DEF LastTurn
  <2> HIDE DEF usage
  <2>2. pending' \in Seq(Pieces)
    BY <1>1, <1>3, <2>1, StampedTyped
  <2>3. <<>> \in Seq(Terminals)
    BY EmptySeq
  <2>4. agent' \in AgentState
    BY <1>1, <1>3, <2>1, <2>3 DEF AgentState
  <2>5. upstream' \in UpstreamState
    BY <1>5, PhaseTyped DEF LastTurn, Typed
  <2> QED
    BY <1>5, <2>2, <2>4, <2>5, PiecesSent DEF Typed, Quietly, LastTurn
<1> QED
  BY <1>2, <1>4, <1>5

LEMMA TypedUpstream ==
    ASSUME Typed
    PROVE  /\ ChatChunk \/ ChatEnds \/ AgentChunk => Quietly'
           /\ ResponsesEnds \/ UpstreamAnswers \/ UpstreamFails => Quietly'
<1> USE DEF Typed
<1>1. \A s \in Seq(Pieces) : s \in Seq(Written)
  BY PiecesSent
<1>2. ASSUME ChatChunk PROVE Quietly'
  <2>1. PICK chunk \in Chunks :
          /\ chat' = TranslateChunk(chat, chunk).st /\ pending' = TranslateChunk(chat, chunk).out
          /\ Fed(chunk)
    BY <1>2 DEF ChatChunk
  <2>2. chunk \in ChunkRecord
    BY CallsTyped
  <2>3. chat' \in ChatState /\ pending' \in Seq(Pieces)
    BY <2>1, <2>2, ChunkOut
  <2>4. upstream' \in UpstreamState
    BY <2>1, <2>2, FedTyped
  <2> QED
    BY <1>1, <1>2, <2>3, <2>4 DEF ChatChunk, Quietly
<1>3. ASSUME AgentChunk PROVE Quietly'
  <2>1. PICK chunk \in TurnChunks(agent.turn) :
          /\ chat' = TranslateChunk(chat, chunk).st /\ inner' = TranslateChunk(chat, chunk).out
          /\ Fed(chunk)
    BY <1>3 DEF AgentChunk
  <2>2. chunk \in ChunkRecord
    <3>1. agent.turn \in Nat
      BY DEF AgentState
    <3> QED
      BY <3>1, CallsTyped
  <2>3. chat' \in ChatState /\ inner' \in Seq(Inner)
    BY <2>1, <2>2, ChunkOut
  <2>4. upstream' \in UpstreamState
    BY <2>1, <2>2, FedTyped
  <2> QED
    BY <1>3, <2>3, <2>4, EmptySeq DEF AgentChunk, Idle, Quietly
<1>4. ASSUME ChatEnds \/ UpstreamAnswers PROVE Quietly'
  <2>1. upstream' \in UpstreamState
    BY <1>4, PhaseTyped DEF ChatEnds, UpstreamAnswers
  <2> QED
    BY <1>4, <2>1, EmptySeq DEF ChatEnds, UpstreamAnswers, Idle, Quietly
<1>5. ASSUME ResponsesEnds \/ UpstreamFails PROVE Quietly'
  <2>1. upstream' \in UpstreamState
    BY <1>5, PhaseTyped DEF ResponsesEnds, UpstreamFails
  <2>2. pending' \in Seq(Pieces)
    BY <1>5, OneErrorTyped DEF ResponsesEnds, UpstreamFails
  <2> QED
    BY <1>1, <1>5, <2>1, <2>2 DEF ResponsesEnds, UpstreamFails, Quietly
<1> QED
  BY <1>2, <1>3, <1>4, <1>5

\* The steps that neither are a Responses event nor written to the client.
QuietStep ==
    \/ ChatChunk \/ ChatEnds \/ AgentChunk
    \/ ResponsesEnds \/ UpstreamAnswers \/ UpstreamFails
    \/ DispatchMessageStart \/ HandleBlockStart \/ HandleBlockDelta \/ HandleBlockStop
    \/ BufferTerminal \/ ToolSettles \/ NextTurn \/ LastTurn

LEMMA QuietSteps ==
    ASSUME Typed, QuietStep PROVE Quietly' /\ pending = <<>> /\ wire' = wire
<1>1. Quietly'
  BY TypedDispatch, TypedTurns, TypedUpstream DEF QuietStep
<1>2. pending = <<>> /\ wire' = wire
  BY DEF QuietStep, ChatChunk, ChatEnds, AgentChunk, ResponsesEnds, UpstreamAnswers, UpstreamFails,
         DispatchMessageStart, HandleBlockStart, HandleBlockDelta, HandleBlockStop, BufferTerminal,
         ToolSettles, NextTurn, LastTurn, TurnOver, Dispatching, Idle, ReadingResponses
<1> QED
  BY <1>1, <1>2

\* A Responses event is translated.
EventStep ==
  \E e : /\ e \in ItemEvents \/ e.type \in {"created", "completed", "failed", "error"}
         /\ ReadingResponses /\ Translated(e)
         /\ e \in ItemEvents => PossibleEvent(e)

\* Every step is one of these.
LEMMA Steps ==
    ASSUME [Next]_vars
    PROVE  \/ Write
           \/ QuietStep
           \/ EventStep
           \/ /\ ResponsesPing \/ Heartbeat
              /\ wire' = Read(wire, Event("ping"))
              /\ UNCHANGED <<request, upstream, chat, responses, agent, inner, pending>>
           \/ UNCHANGED vars
<1>1. ASSUME ResponsesCreated \/ ResponsesItem \/ ResponsesTerminal
      PROVE  EventStep
  <2>1. ASSUME NEW type \in {"created", "completed", "failed", "error"}, NEW body
        PROVE  Control(type, body).type = type /\ Control(type, body) \notin ItemEvents
    BY DEF Control, ItemEvents
  <2>2. CASE ResponsesCreated
    <3>1. ReadingResponses /\ Translated(Control("created", TRUE))
      BY <2>2 DEF ResponsesCreated
    <3> QED
      BY <2>1, <3>1 DEF EventStep
  <2>3. CASE ResponsesItem
    BY <2>3 DEF ResponsesItem, EventStep
  <2>4. CASE ResponsesTerminal
    <3>1. PICK type \in {"completed", "failed", "error"}, body \in BOOLEAN :
            ReadingResponses /\ Translated(Control(type, body))
      BY <2>4 DEF ResponsesTerminal
    <3> QED
      BY <2>1, <3>1 DEF EventStep
  <2> QED
    BY <1>1, <2>2, <2>3, <2>4
<1>2. ASSUME ResponsesPing \/ Heartbeat
      PROVE  /\ ResponsesPing \/ Heartbeat
             /\ wire' = Read(wire, Event("ping"))
             /\ UNCHANGED <<request, upstream, chat, responses, agent, inner, pending>>
  BY <1>2 DEF ResponsesPing, Heartbeat
<1>3. Next => \/ Write
             \/ QuietStep
             \/ ResponsesCreated \/ ResponsesItem \/ ResponsesTerminal
             \/ ResponsesPing \/ Heartbeat
  BY Zenon DEF Next, UpstreamStep, ServerStep, QuietStep
<1>4. CASE UNCHANGED vars
  BY <1>4
<1>5. CASE ResponsesPing \/ Heartbeat
  BY <1>2, <1>5, Zenon
<1>6. CASE ResponsesCreated \/ ResponsesItem \/ ResponsesTerminal
  BY <1>1, <1>6, Zenon
<1>7. CASE Write \/ QuietStep
  BY <1>7, Zenon
<1> QED
  BY <1>3, <1>4, <1>5, <1>6, <1>7, Zenon

LEMMA TypedNext == Typed /\ [Next]_vars => Typed'
<1> SUFFICES ASSUME Typed, [Next]_vars PROVE Typed'
  OBVIOUS
<1>1. ASSUME Write PROVE Typed'
  <2>1. Head(pending) \in Written /\ Tail(pending) \in Seq(Written)
    BY <1>1, HeadTyped DEF Write, Typed
  <2>2. wire' \in WireState
    BY <1>1, <2>1, ReadTyped, WrittenReadable DEF Write, Typed
  <2> QED
    BY <1>1, <2>1, <2>2 DEF Write, Typed
<1>2. ASSUME QuietStep PROVE Typed'
  BY <1>2, QuietSteps DEF Quietly
<1>3. ASSUME wire' = Read(wire, Event("ping")),
             UNCHANGED <<request, upstream, chat, responses, agent, inner, pending>>
      PROVE  Typed'
  <2>1. wire' \in WireState
    BY <1>3, ReadTyped, WrittenReadable DEF Typed
  <2> QED
    BY <1>3, <2>1 DEF Typed
<1>4. CASE UNCHANGED vars
  BY <1>4 DEF vars, Typed
<1> QED
  BY <1>1, <1>2, <1>3, <1>4, Steps, TranslatedTyped DEF EventStep

LEMMA TypedOK == Typed => TypeOK
<1> SUFFICES ASSUME Typed PROVE TypeOK
  OBVIOUS
<1>1. chat.index \in Nat /\ chat.calls \in [CallIndices -> Nat \cup {NoBlock}]
  BY DEF Typed, ChatState
<1>2. responses \in ResponsesFields /\ Numbered(responses)
  BY DEF Typed, ResponsesState
<1>3. responses.next \in Nat /\ responses.hasDelta \subseteq responses.open
      /\ responses.blockByKey \in [PartKeys -> Int]
  BY <1>2 DEF Numbered, ResponsesFields
<1>4. responses.blockByKey \in [PartKeys -> Nat \cup {NoBlock}]
  BY <1>2, <1>3 DEF Numbered
<1>5. responses.open \in SUBSET (0 .. responses.next - 1) /\ Cardinality(responses.open) <= 1
  <2>1. CASE responses.open = {}
    BY <2>1, FS_EmptySet
  <2>2. ASSUME NEW b \in 0 .. responses.next - 1, responses.open = {b}
        PROVE  responses.open \in SUBSET (0 .. responses.next - 1)
               /\ Cardinality(responses.open) <= 1
    <3>1. Cardinality({b}) = 1
      BY FS_Singleton
    <3> QED
      BY <2>2, <3>1
  <2> QED
    BY <1>2, <2>1, <2>2 DEF Numbered
<1>6. agent.turn \in 0 .. MaxTurns - 1 /\ agent.uses \in [WebTools -> 0 .. MaxUses]
  BY DEF Typed, AgentState
<1>7. wire.phase \in {"before", "open", "ended"} /\ wire.last.type \in EventTypes
  BY DEF Typed, WireState
<1>8. \A i \in 1 .. Len(pending) : pending[i].type \in EventTypes
  <2>1. \A i \in 1 .. Len(pending) : pending[i] \in Readable
    BY WrittenReadable DEF Typed
  <2> QED
    BY <2>1 DEF Readable
<1> QED
  BY <1>1, <1>3, <1>4, <1>5, <1>6, <1>7, <1>8 DEF TypeOK

LEMMA AlwaysTyped == Spec => []Typed
  BY TypedInit, TypedNext, PTL DEF Spec

\* The types of the translators', the agent's and the client's state; in
\* particular at most one block of a Responses answer is ever open, in any order
\* of its output items, and only an open block has had a delta.
THEOREM TypeCorrect == Spec => []TypeOK
  BY AlwaysTyped, TypedOK, PTL

-----------------------------------------------------------------------------
(* Runs of line breaks.                                                      *)

\* What reading an event does to the runs of line breaks.
LEMMA RunsRead ==
    ASSUME NEW w \in WireState, NEW e \in Readable
    PROVE  /\ e \in Sent \/ e.type # "content_block_delta" => Read(w, e).breaks = w.breaks
           /\ e \in ArgumentsDelta =>
                Read(w, e).breaks =
                  [w.breaks EXCEPT ![e.of] = BreaksRead(w.breaks[e.of], e.reason)]
<1> DEFINE counts == e.kind = "input_json" /\ e.reason # "none"
           run == BreaksRead(w.breaks[e.of], e.reason)
           breaks == IF counts THEN [w.breaks EXCEPT ![e.of] = run] ELSE w.breaks
<1>1. Read(w, e).breaks = EventRead(w, e).breaks
  <2>1. EventRead(w, e) \in WireState
    BY ReadTyped
  <2> QED
    BY <2>1 DEF Read, WireState
<1>2. e.type # "content_block_delta" => EventRead(w, e).breaks = w.breaks
  BY DEF EventRead, WireState
<1>3. e.type = "content_block_delta" => EventRead(w, e).breaks = breaks
  <2>1. DeltaRead(w, e).breaks = breaks
    BY DEF DeltaRead, WireState
  <2> HIDE DEF breaks
  <2> QED
    BY <2>1 DEF EventRead
<1>4. ASSUME e \in Sent PROVE breaks = w.breaks
  <2>1. e.reason \in Reasons
    BY <1>4 DEF Sent, EventsOf
  <2>2. run = w.breaks[e.of]
    BY <2>1 DEF BreaksRead, Reasons, Outcomes
  <2> HIDE DEF run
  <2> QED
    BY <2>2 DEF WireState
<1>5. ASSUME e \in ArgumentsDelta
      PROVE  e.type = "content_block_delta" /\ breaks = [w.breaks EXCEPT ![e.of] = run]
  BY <1>5 DEF ArgumentsDelta, Tails
<1> HIDE DEF breaks
<1> QED
  BY <1>1, <1>2, <1>3, <1>4, <1>5

\* The run the client will have read of a call once `pending` is written.
RunAfter(w, s, k) == IF s = <<>> THEN w.breaks[k] ELSE Read(w, s[Len(s)]).breaks[k]

Ahead(k) == RunAfter(wire, pending, k)

\* A delta of arguments is written last; no run is too long, nor will be; and
\* the translator's count for a call that is not done is the client's.
RunInv ==
    /\ \A i \in 1 .. Len(pending) : i < Len(pending) => pending[i] \in Sent
    /\ \A k \in PartKeys : wire.breaks[k] <= MaxWhitespace /\ Ahead(k) <= MaxWhitespace
    /\ request.flow = "responses" /\ upstream.phase # "ended" =>
         \A o \in Outputs : upstream.part[PartKey(o, 0)] # "done" =>
           Ahead(PartKey(o, 0)) = responses.functions[o].breaks

LEMMA RunInit == Init => RunInv
  BY FreshStates, PartsAssumption, LimitsAssumption
     DEF Init, RunInv, Ahead, RunAfter, NewWire, FreshResponses, NoFunction, PartKeys, PartKey

\* When all that waits is Sent, nothing changes the runs.
LEMMA AfterStream ==
    ASSUME NEW w \in WireState, NEW s \in Seq(Sent), NEW k
    PROVE  RunAfter(w, s, k) = w.breaks[k]
<1>1. CASE s = <<>>
  BY <1>1 DEF RunAfter
<1>2. CASE s # <<>>
  <2>1. s[Len(s)] \in Sent
    BY <1>2
  <2>2. s[Len(s)] \in Readable
    BY <2>1, WrittenReadable
  <2>3. Read(w, s[Len(s)]).breaks = w.breaks
    BY <2>1, <2>2, RunsRead
  <2> QED
    BY <1>2, <2>3 DEF RunAfter
<1> QED
  BY <1>1, <1>2

LEMMA RunWrite ==
    ASSUME Typed, RunInv, Write PROVE RunInv'
<1>1. /\ pending \in Seq(Written) /\ pending # <<>> /\ wire \in WireState
      /\ pending' = Tail(pending) /\ wire' = Read(wire, Head(pending))
      /\ request' = request /\ upstream' = upstream /\ responses' = responses
  BY DEF Typed, Write
<1>2. Head(pending) = pending[1] /\ pending[1] \in Written
      /\ Len(pending) \in Nat /\ Len(pending) >= 1
      /\ Len(pending') = Len(pending) - 1
      /\ \A i \in 1 .. Len(pending') : pending'[i] = pending[i + 1]
  BY <1>1, HeadTailProperties
<1>3. \A i \in 1 .. Len(pending') : i < Len(pending') => pending'[i] \in Sent
  BY <1>1, <1>2 DEF RunInv
<1>4. ASSUME NEW k \in PartKeys
      PROVE  Ahead(k)' = Ahead(k) /\ wire'.breaks[k] \in {wire.breaks[k], Ahead(k)}
  <2>1. CASE Len(pending) = 1
    <3>1. pending' = <<>>
      BY <1>1, <1>2, <2>1
    <3> QED
      BY <1>1, <1>2, <2>1, <3>1 DEF Ahead, RunAfter
  <2>2. CASE Len(pending) # 1
    <3>1. pending[1] \in Sent /\ pending[1] \in Readable
      BY <1>2, <2>2, WrittenReadable DEF RunInv
    <3>2. wire'.breaks = wire.breaks
      BY <1>1, <1>2, <3>1, RunsRead
    <3>3. wire' \in WireState
      BY <1>1, <1>2, <3>1, ReadTyped
    <3> DEFINE e == pending[Len(pending)]
    <3>4. e \in Written /\ e \in Readable
      BY <1>1, <1>2, WrittenReadable
    <3>5. pending' # <<>> /\ pending'[Len(pending')] = e
      <4>1. Len(pending') \in 1 .. Len(pending') /\ Len(pending') + 1 = Len(pending)
        BY <1>2, <2>2
      <4>2. pending'[Len(pending')] = e
        BY <1>2, <4>1
      <4> QED
        BY <4>1, <4>2
    <3> HIDE DEF e
    <3>6. Read(wire', e).breaks = Read(wire, e).breaks
      <4>1. CASE e \in Sent
        BY <1>1, <3>2, <3>3, <3>4, <4>1, RunsRead
      <4>2. CASE e \in ArgumentsDelta
        <5>1. /\ Read(wire, e).breaks =
                   [wire.breaks EXCEPT ![e.of] = BreaksRead(wire.breaks[e.of], e.reason)]
              /\ Read(wire', e).breaks =
                   [wire'.breaks EXCEPT ![e.of] = BreaksRead(wire'.breaks[e.of], e.reason)]
          BY <1>1, <3>3, <3>4, <4>2, RunsRead
        <5> QED
          BY <3>2, <5>1
      <4> QED
        BY <3>4, <4>1, <4>2 DEF Written
    <3>7. Ahead(k) = Read(wire, e).breaks[k]
      BY <1>1 DEF Ahead, RunAfter, e
    <3>8. Ahead(k)' = Read(wire', e).breaks[k]
      BY <3>5 DEF Ahead, RunAfter
    <3> QED
      BY <3>2, <3>6, <3>7, <3>8
  <2> QED
    BY <2>1, <2>2
<1>5. \A o \in Outputs : PartKey(o, 0) \in PartKeys
  BY PartsAssumption DEF PartKeys, PartKey
<1> QED
  BY <1>1, <1>3, <1>4, <1>5 DEF RunInv

LEMMA QuietKeepsResponses ==
    ASSUME Typed, QuietStep
    PROVE  /\ request' = request /\ responses' = responses
           /\ request.flow = "responses" => upstream'.phase = "ended" \/ upstream' = upstream
<1>1. CASE ChatChunk \/ ChatEnds \/ AgentChunk \/ UpstreamAnswers \/ NextTurn \/ LastTurn
  BY <1>1 DEF ChatChunk, ChatEnds, AgentChunk, UpstreamAnswers, NextTurn, LastTurn, TurnOver, InAgent
<1>2. CASE ToolSettles \/ BufferTerminal \/ DispatchMessageStart \/ HandleBlockStart
           \/ HandleBlockDelta \/ HandleBlockStop
  BY <1>2 DEF ToolSettles, BufferTerminal, DispatchMessageStart, HandleBlockStart,
              HandleBlockDelta, HandleBlockStop, Dispatching
<1>3. ASSUME ResponsesEnds \/ UpstreamFails
      PROVE  request' = request /\ responses' = responses /\ upstream'.phase = "ended"
  BY <1>3 DEF ResponsesEnds, UpstreamFails, Typed, UpstreamState
<1> QED
  BY <1>1, <1>2, <1>3 DEF QuietStep

LEMMA RunQuiet ==
    ASSUME Typed, RunInv, QuietStep PROVE RunInv'
<1>1. Typed' /\ pending' \in Seq(Sent) /\ pending = <<>> /\ wire' = wire
  BY QuietSteps, PiecesSent DEF Quietly
<1>2. ASSUME NEW k PROVE Ahead(k)' = wire.breaks[k] /\ Ahead(k) = wire.breaks[k]
  <2>1. Ahead(k)' = wire'.breaks[k]
    BY <1>1, AfterStream DEF Ahead, Typed
  <2> QED
    BY <1>1, <2>1 DEF Ahead, RunAfter
<1>3. \A o \in Outputs : PartKey(o, 0) \in PartKeys
  BY PartsAssumption DEF PartKeys, PartKey
<1> QED
  BY <1>1, <1>2, <1>3, QuietKeepsResponses DEF RunInv

\* Only the start of a response leaves it uncompleted.
LEMMA ControlCompletes ==
    ASSUME NEW st \in ResponsesState, NEW e,
           e.type \in {"created", "completed", "failed", "error"}
    PROVE  TranslateResponsesEvent(st, e).st \in {t \in ResponsesState : t.completed} \cup {st}
<1>1. Unchanged(st) \in ResponsesPair
  BY UnchangedTyped
<1>2. CASE e.type = "created"
  BY <1>2 DEF TranslateResponsesEvent, HandleResponseCreated, Unchanged, Emit
<1>3. Failed(Unchanged(st)).st.completed = TRUE
  BY <1>1, FailedTyped
<1>4. HandleErrorEvent(st).st.completed = TRUE
  BY DEF HandleErrorEvent, Emit, Unchanged, ResponsesState, ResponsesFields
<1>5. TranslateResponsesEvent(st, e) \in ResponsesPair
  BY ResponsesEventTyped
<1>6. HandleResponseCompleted(st, e).st.completed = TRUE
  <2> DEFINE q == CloseAllOpenBlocks(Unchanged(st))
  <2>1. q.st \in ResponsesState
    BY <1>1, ClosedAllTyped DEF ResponsesPair
  <2> HIDE DEF q
  <2>2. [q.st EXCEPT !.completed = TRUE].completed = TRUE
    BY <2>1 DEF ResponsesState, ResponsesFields
  <2>3. e.body => HandleResponseCompleted(st, e).st = [q.st EXCEPT !.completed = TRUE]
    BY DEF HandleResponseCompleted, q
  <2>4. ~e.body => HandleResponseCompleted(st, e) = Failed(Unchanged(st))
    BY DEF HandleResponseCompleted
  <2> QED
    BY <1>3, <2>2, <2>3, <2>4
<1> QED
  BY <1>2, <1>3, <1>4, <1>5, <1>6 DEF TranslateResponsesEvent, HandleResponseFailed, ResponsesPair

\* An event of the upstream: what is written next and what is counted.
LEMMA RunEvent ==
    ASSUME Typed, RunInv, EventStep PROVE RunInv'
<1>1. PICK e : /\ e \in ItemEvents \/ e.type \in {"created", "completed", "failed", "error"}
               /\ ReadingResponses /\ Translated(e)
               /\ e \in ItemEvents => PossibleEvent(e)
  BY DEF EventStep
<1> DEFINE p == TranslateResponsesEvent(responses, e)
<1>2. /\ pending = <<>> /\ pending' = p.out /\ responses' = p.st /\ wire' = wire
      /\ request' = request /\ request.flow = "responses" /\ upstream.phase = "open"
      /\ p.st.completed => upstream'.phase = "ended"
      /\ ~p.st.completed => upstream'.phase = upstream.phase
      /\ e \notin ItemEvents => upstream'.part = upstream.part
      /\ e \in ItemEvents =>
           upstream'.part = PartsAfter(e)
  BY <1>1 DEF Translated, ReadingResponses, Idle, Typed, UpstreamState
<1>3. e \in ItemRecord \/ e.type \in {"created", "completed", "failed", "error"}
  BY <1>1, CallsTyped
<1>4. Typed'
  BY <1>1, TranslatedTyped
<1>5. \A o \in Outputs : PartKey(o, 0) \in PartKeys
  BY PartsAssumption DEF PartKeys, PartKey
<1>6. ASSUME NEW k PROVE Ahead(k) = wire.breaks[k]
  BY <1>2 DEF Ahead, RunAfter
<1>7. ASSUME NEW o \in Outputs, upstream.part[PartKey(o, 0)] # "done"
      PROVE  wire.breaks[PartKey(o, 0)] = responses.functions[o].breaks
  BY <1>2, <1>6, <1>7 DEF RunInv
<1> HIDE DEF p
<1>8. ASSUME p.out \in Seq(Sent),
             \/ p.st.completed = TRUE
             \/ \A o \in Outputs : upstream'.part[PartKey(o, 0)] # "done" =>
                  /\ upstream.part[PartKey(o, 0)] # "done"
                  /\ p.st.functions[o].breaks = responses.functions[o].breaks
      PROVE  RunInv'
  <2>1. ASSUME NEW k PROVE Ahead(k)' = wire.breaks[k]
    <3>1. Ahead(k)' = wire'.breaks[k]
      BY <1>2, <1>4, <1>8, AfterStream DEF Ahead, Typed
    <3> QED
      BY <1>2, <3>1
  <2>2. \A i \in 1 .. Len(pending') : i < Len(pending') => pending'[i] \in Sent
    BY <1>2, <1>8
  <2>3. upstream'.phase # "ended" =>
          \A o \in Outputs : upstream'.part[PartKey(o, 0)] # "done" =>
            wire.breaks[PartKey(o, 0)] = responses'.functions[o].breaks
    BY <1>2, <1>7, <1>8
  <2> QED
    BY <1>2, <2>1, <2>2, <2>3 DEF RunInv
<1>9. CASE e \in ItemRecord /\ e.type # "arguments_delta"
  <2>1. p \in ResponsesPair
    BY <1>9, ResponsesEventTyped DEF Typed, p
  <2>2. p.out \in Seq(Sent)
    BY <2>1, WrittenReadable DEF ResponsesPair
  <2>3. /\ SameRuns(responses, p.st, Outputs \ {e.out})
        /\ e.type # "arguments_done" => SameRuns(responses, p.st, Outputs)
    BY <1>9, RunsKept DEF Typed, p
  <2>4. /\ e.out \in Outputs
        /\ upstream.part \in [PartKeys -> {"new", "begun", "told", "done"}]
    BY <1>9 DEF ItemRecord, Typed, UpstreamState
  <2>5. ASSUME NEW o \in Outputs, upstream'.part[PartKey(o, 0)] # "done"
        PROVE  /\ upstream.part[PartKey(o, 0)] # "done"
               /\ p.st.functions[o].breaks = responses.functions[o].breaks
    <3>1. CASE e \notin ItemEvents
      <4>1. e.type \in {"created", "completed", "failed", "error"}
        BY <1>1, <3>1
      <4> QED
        BY <1>9, <4>1 DEF ItemRecord, ItemTypes
    <3>2. CASE e \in ItemEvents
      <4>1. /\ upstream.part[PartKey(e.out, e.part)] # "done"
            /\ upstream'.part = PartsAfter(e)
        BY <1>1, <1>2, <3>2 DEF PossibleEvent
      <4>2. upstream.part[PartKey(o, 0)] # "done"
        <5>1. CASE PartKey(o, 0) \in Touched(e)
          <6>1. AfterEvent(e) # "done" /\ ~Ends(e) /\ ~EndsItem(e)
            BY <1>5, <2>5, <4>1, <5>1 DEF PartsAfter, AfterEvent, Ends
          <6> QED
            BY <4>1, <5>1, <6>1 DEF Touched
        <5>2. CASE PartKey(o, 0) \notin Touched(e)
          BY <1>5, <2>5, <4>1, <5>2 DEF PartsAfter
        <5> QED
          BY <5>1, <5>2
      <4>3. CASE e.type = "arguments_done"
        <5>1. e.part = 0 /\ AfterEvent(e) = "done"
          BY <3>2, <4>3 DEF ItemEvents, AfterEvent, Ends
        <5>2. o # e.out
          BY <1>5, <2>5, <4>1, <5>1 DEF PartsAfter, Touched
        <5> QED
          BY <2>3, <4>2, <5>2 DEF SameRuns
      <4>4. CASE e.type # "arguments_done"
        BY <2>3, <4>2, <4>4 DEF SameRuns
      <4> QED
        BY <4>3, <4>4
    <3> QED
      BY <3>1, <3>2
  <2> QED
    BY <1>8, <2>2, <2>5
<1>10. CASE e.type \in {"created", "completed", "failed", "error"}
  <2>1. p \in ResponsesPair
    BY <1>10, ResponsesEventTyped DEF Typed, p
  <2>2. p.out \in Seq(Sent)
    BY <2>1, WrittenReadable DEF ResponsesPair
  <2>3. e \notin ItemEvents
    BY <1>10 DEF ItemEvents
  <2>4. p.st \in {t \in ResponsesState : t.completed} \cup {responses}
    <3>1. responses \in ResponsesState
      BY DEF Typed
    <3> QED
      BY <1>10, <3>1, ControlCompletes DEF p
  <2> QED
    BY <1>2, <1>8, <2>2, <2>3, <2>4
<1>11. CASE e \in ItemRecord /\ e.type = "arguments_delta"
  <2>1. e \in ItemEvents
    BY <1>1, <1>11
  <2>2. e.part = 0 /\ e.out \in Outputs /\ PossibleEvent(e)
    BY <1>1, <1>11, <2>1 DEF ItemEvents, ItemRecord
  <2> DEFINE n == Breaks(responses.functions[e.out].breaks, e.tail)
             key == PartKey(e.out, 0)
  <2>3. \/ p \in ResponsesPair /\ p.st.completed = TRUE
        \/ \E s \in Seq(Sent), d \in ArgumentsDelta :
             /\ p.st \in ResponsesState /\ p.out = Append(s, d)
             /\ d.of = key /\ d.reason = e.tail
             /\ n \in Nat /\ ~(n > MaxWhitespace)
             /\ p.st.functions[e.out].breaks = n
             /\ SameRuns(responses, p.st, Outputs \ {e.out})
    <3>1. p = HandleFunctionCallArgumentsDelta(responses, e)
      BY <1>11 DEF p, TranslateResponsesEvent
    <3> QED
      BY <1>11, <3>1, ArgumentsDeltaTyped, WrittenReadable DEF Typed
  <2>4. CASE p \in ResponsesPair /\ p.st.completed = TRUE
    <3>1. p.out \in Seq(Sent)
      BY <2>4, WrittenReadable DEF ResponsesPair
    <3> QED
      BY <1>8, <2>4, <3>1
  <2>5. ASSUME NEW s \in Seq(Sent), NEW d \in ArgumentsDelta,
               p.out = Append(s, d), d.of = key, d.reason = e.tail,
               n \in Nat, ~(n > MaxWhitespace), p.st.functions[e.out].breaks = n,
               SameRuns(responses, p.st, Outputs \ {e.out})
        PROVE  RunInv'
    <3>1. upstream.part[key] # "done" /\ key \in PartKeys /\ PartKey(e.out, e.part) = key
      BY <1>5, <2>2 DEF PossibleEvent
    <3>2. n = BreaksRead(wire.breaks[key], d.reason)
      <4>1. wire.breaks[key] = responses.functions[e.out].breaks
        BY <1>7, <2>2, <3>1
      <4> HIDE DEF key
      <4> QED
        BY <2>5, <4>1 DEF Breaks, BreaksRead
    <3> HIDE DEF n
    <3>3. d \in Readable
      BY WrittenReadable DEF Written
    <3>4. pending' # <<>> /\ Len(pending') = Len(s) + 1 /\ pending'[Len(pending')] = d
          /\ \A i \in 1 .. Len(s) : pending'[i] \in Sent
      BY <1>2, <2>5
    <3>5. wire.breaks \in [PartKeys -> Nat]
      BY DEF Typed, WireState
    <3>6. ASSUME NEW k \in PartKeys
          PROVE  Ahead(k)' = IF k = key THEN n ELSE wire.breaks[k]
      <4>1. Read(wire, d).breaks = [wire.breaks EXCEPT ![key] = n]
        <5>1. d \in ArgumentsDelta /\ wire \in WireState /\ d.of = key
          BY <2>5 DEF Typed
        <5>2. Read(wire, d).breaks =
                [wire.breaks EXCEPT ![d.of] = BreaksRead(wire.breaks[d.of], d.reason)]
          BY <3>3, <5>1, RunsRead, Zenon
        <5> HIDE DEF key
        <5> QED
          BY <3>2, <5>1, <5>2
      <4> QED
        BY <1>2, <3>1, <3>4, <3>5, <4>1 DEF Ahead, RunAfter
    <3>7. \A i \in 1 .. Len(pending') : i < Len(pending') => pending'[i] \in Sent
      BY <3>4
    <3>8. ASSUME NEW k \in PartKeys
          PROVE  wire'.breaks[k] <= MaxWhitespace /\ Ahead(k)' <= MaxWhitespace
      <4>1. wire.breaks[k] <= MaxWhitespace
        BY DEF RunInv
      <4> QED
        BY <1>2, <2>5, <3>6, <4>1, LimitsAssumption
    <3>9. ASSUME NEW o \in Outputs, upstream'.part[PartKey(o, 0)] # "done"
          PROVE  Ahead(PartKey(o, 0))' = p.st.functions[o].breaks
      <4>1. CASE o = e.out
        BY <1>5, <2>5, <3>6, <4>1
      <4>2. CASE o # e.out
        <5>1. PartKey(o, 0) # key
          BY <4>2 DEF PartKey
        <5>2. upstream'.part = PartsAfter(e) /\ PartKey(o, 0) \notin Touched(e)
          BY <1>2, <1>5, <2>1, <3>1, <4>2, <5>1 DEF Touched, EndsItem, PartKey
        <5>3. upstream.part[PartKey(o, 0)] # "done"
          BY <1>5, <3>9, <5>2 DEF PartsAfter
        <5>4. wire.breaks[PartKey(o, 0)] = p.st.functions[o].breaks
          BY <1>7, <2>5, <4>2, <5>3 DEF SameRuns
        <5> QED
          BY <1>5, <3>6, <5>1, <5>4
      <4> QED
        BY <4>1, <4>2
    <3> QED
      BY <1>2, <3>7, <3>8, <3>9 DEF RunInv
  <2> QED
    BY <2>3, <2>4, <2>5
<1> QED
  BY <1>3, <1>9, <1>10, <1>11

LEMMA RunNext ==
    ASSUME Typed, RunInv, [Next]_vars PROVE RunInv'
<1>1. ASSUME wire' = Read(wire, Event("ping")), ResponsesPing \/ Heartbeat,
             UNCHANGED <<request, upstream, chat, responses, agent, inner, pending>>
      PROVE  RunInv'
  <2>1. pending = <<>>
    BY <1>1 DEF ResponsesPing, Heartbeat, ReadingResponses, Idle
  <2>2. wire'.breaks = wire.breaks
    <3>1. Event("ping") \in Readable /\ Event("ping").type # "content_block_delta"
      BY WrittenReadable DEF Event
    <3> QED
      BY <1>1, <3>1, RunsRead DEF Typed
  <2> QED
    BY <1>1, <2>1, <2>2 DEF RunInv, Ahead, RunAfter
<1>2. CASE UNCHANGED vars
  BY <1>2 DEF vars, RunInv, Ahead
<1> QED
  BY <1>1, <1>2, Steps, RunWrite, RunQuiet, RunEvent

\* A run of line breaks longer than the limit never reaches the client, for any
\* limit and whatever the upstream interleaves: what the translator has counted
\* for a call is what the client has read of it.
THEOREM BreaksLimited == Spec => []WhitespaceCut
<1>1. Init => RunInv
  BY RunInit
<1>2. Typed /\ RunInv /\ [Next]_vars => RunInv'
  BY RunNext
<1>3. RunInv => WhitespaceCut
  BY DEF RunInv, WhitespaceCut
<1> QED
  BY <1>1, <1>2, <1>3, AlwaysTyped, PTL DEF Spec

-----------------------------------------------------------------------------
(* The indices of the agent's blocks.                                        *)

\* What reading an event does to the next index and to the phase.
LEMMA NextRead ==
    ASSUME NEW w \in WireState, NEW e \in Readable
    PROVE  /\ Read(w, e).last = [type |-> e.type, index |-> e.index, parity |-> 1 - w.last.parity]
           /\ Read(w, e).next = IF e.type = "content_block_start" /\ e.index >= w.next
                                THEN e.index + 1 ELSE w.next
           /\ e.type \notin {"message_start", "message_stop", "error"} =>
                Read(w, e).phase = w.phase
<1>1. EventRead(w, e) \in WireState
  BY ReadTyped
<1>2. /\ Read(w, e).next = EventRead(w, e).next /\ Read(w, e).phase = EventRead(w, e).phase
      /\ Read(w, e).last = [type |-> e.type, index |-> e.index, parity |-> 1 - w.last.parity]
  BY <1>1 DEF Read, WireState
<1>3. CASE e.type = "content_block_start"
  <2> DEFINE next == IF e.index >= w.next THEN e.index + 1 ELSE w.next
             open == w.open \cup {e.index}
             blocks == IF e.index >= w.next
                       THEN Append(w.blocks, [kind |-> e.kind, of |-> e.of]) ELSE w.blocks
  <2>1. EventRead(w, e) = [w EXCEPT !.open = open, !.next = next, !.blocks = blocks]
    BY <1>3 DEF EventRead
  <2> HIDE DEF next, open, blocks
  <2>2. EventRead(w, e).next = next /\ EventRead(w, e).phase = w.phase
    BY <2>1 DEF WireState
  <2> QED
    BY <1>2, <1>3, <2>2 DEF next
<1>4. CASE e.type = "content_block_delta"
  <2>1. DeltaRead(w, e).next = w.next /\ DeltaRead(w, e).phase = w.phase
    BY DEF DeltaRead, WireState
  <2> QED
    BY <1>2, <1>4, <2>1 DEF EventRead
<1>5. CASE e.type \notin {"content_block_start", "content_block_delta"}
  BY <1>2, <1>5 DEF EventRead, WireState
<1> QED
  BY <1>3, <1>4, <1>5

\* The events `s`, read where the next new block has index `next`, take the
\* next index to `cursor`; a start comes first.
Climb(s, next, cursor) ==
    /\ \A i \in 2 .. Len(s) : s[i].type \notin {"content_block_start", "message_start"}
    /\ IF s # <<>> /\ s[1].type = "content_block_start"
       THEN s[1].index = next /\ cursor = next + 1
       ELSE cursor = next

\* No event of `s` changes the phase.
Silent(s) ==
    \A i \in 1 .. Len(s) : s[i].type \notin {"message_start", "message_stop", "error"}

\* The agent's cursor is where the client will be once all is written, and the
\* one message_start is sent before the client has read anything.
ClimbInv ==
    request.flow = "agent" =>
      /\ Climb(pending, wire.next, agent.cursor)
      /\ (pending # <<>> /\ pending[1].type = "message_start") => wire.phase = "before"
      /\ upstream.phase = "ended" => inner = <<>>
      /\ ~agent.started /\ upstream.phase # "ended" => wire.phase = "before" /\ Silent(pending)

LEMMA ClimbInit == Init => ClimbInv
  BY DEF Init, ClimbInv, Climb, Silent, NewAgent, NewWire, NewUpstream

LEMMA ClimbShort ==
    /\ \A n : Climb(<<>>, n, n) /\ Silent(<<>>)
    /\ \A e, n : /\ e.type # "content_block_start" => Climb(<<e>>, n, n)
                 /\ e.type = "content_block_start" /\ e.index = n => Climb(<<e>>, n, n + 1)
                 /\ e.type \notin {"message_start", "message_stop", "error"} => Silent(<<e>>)
    /\ \A a, b, n :
         (a.type = "content_block_start" /\ b.type = "content_block_stop" /\ a.index = n)
           => Climb(<<a, b>>, n, n + 1) /\ Silent(<<a, b>>)
<1>1. ASSUME NEW a, NEW b, NEW n, a.type = "content_block_start",
             b.type = "content_block_stop", a.index = n
      PROVE  Climb(<<a, b>>, n, n + 1) /\ Silent(<<a, b>>)
  BY <1>1 DEF Climb, Silent
<1>2. ASSUME NEW e, NEW n
      PROVE  /\ e.type # "content_block_start" => Climb(<<e>>, n, n)
             /\ e.type = "content_block_start" /\ e.index = n => Climb(<<e>>, n, n + 1)
             /\ e.type \notin {"message_start", "message_stop", "error"} => Silent(<<e>>)
  BY <1>2 DEF Climb, Silent
<1> QED
  BY <1>1, <1>2 DEF Climb, Silent

LEMMA ClimbWrite ==
    ASSUME Typed, ClimbInv, Write PROVE ClimbInv'
<1> SUFFICES ASSUME request.flow = "agent" PROVE ClimbInv'
  BY DEF Write, ClimbInv
<1>1. /\ pending \in Seq(Written) /\ pending # <<>> /\ wire \in WireState
      /\ pending' = Tail(pending) /\ wire' = Read(wire, Head(pending))
      /\ UNCHANGED <<request, upstream, agent, inner>>
  BY DEF Typed, Write
<1>2. /\ Head(pending) = pending[1] /\ pending[1] \in Readable
      /\ Len(pending) \in Nat /\ Len(pending) >= 1
      /\ Len(pending') = Len(pending) - 1
      /\ \A i \in 1 .. Len(pending') : pending'[i] = pending[i + 1]
  BY <1>1, HeadTailProperties, WrittenReadable
<1>3. Climb(pending, wire.next, agent.cursor)
  BY DEF ClimbInv
<1>4. \A i \in 1 .. Len(pending') :
        pending'[i].type \notin {"content_block_start", "message_start"}
  BY <1>2, <1>3 DEF Climb
<1>5. wire'.next = agent.cursor
  <2>1. wire.next \in Nat
    BY DEF Typed, WireState
  <2> QED
    <3> DEFINE e == pending[1]
    <3>1. e \in Readable /\ wire'.next = IF e.type = "content_block_start" /\ e.index >= wire.next
                                         THEN e.index + 1 ELSE wire.next
      <4>1. e \in Readable /\ wire' = Read(wire, e)
        BY <1>1, <1>2
      <4> HIDE DEF e
      <4> QED
        BY <1>1, <4>1, NextRead
    <3>2. IF e.type = "content_block_start" THEN e.index = wire.next /\ agent.cursor = wire.next + 1
          ELSE agent.cursor = wire.next
      BY <1>1, <1>3 DEF Climb
    <3> HIDE DEF e
    <3> QED
      BY <2>1, <3>1, <3>2
<1>6. pending' # <<>> => Len(pending') >= 1
  BY <1>1
<1>7. Climb(pending', wire'.next, agent'.cursor)
  <2>1. \A i \in 2 .. Len(pending') : i \in 1 .. Len(pending')
    BY <1>2
  <2>2. pending' # <<>> => 1 \in 1 .. Len(pending')
    BY <1>2, <1>6
  <2> QED
    BY <1>1, <1>4, <1>5, <2>1, <2>2 DEF Climb
<1>8. ~(pending' # <<>> /\ pending'[1].type = "message_start")
  BY <1>2, <1>4, <1>6
<1>9. ~agent.started /\ upstream.phase # "ended" => wire'.phase = "before" /\ Silent(pending')
  <2>1. SUFFICES ASSUME ~agent.started, upstream.phase # "ended"
                 PROVE  wire'.phase = "before" /\ Silent(pending')
    OBVIOUS
  <2>2. wire.phase = "before" /\ Silent(pending)
    BY <2>1 DEF ClimbInv
  <2>3. pending[1].type \notin {"message_start", "message_stop", "error"}
    BY <1>2, <2>2 DEF Silent
  <2>4. wire'.phase = wire.phase
    BY <1>1, <1>2, <2>3, NextRead
  <2>5. \A i \in 1 .. Len(pending') : i + 1 \in 1 .. Len(pending)
    BY <1>2
  <2> QED
    BY <1>2, <2>2, <2>4, <2>5 DEF Silent
<1> QED
  BY <1>1, <1>7, <1>8, <1>9 DEF ClimbInv

LEMMA ClimbDispatch ==
    ASSUME Typed, ClimbInv,
           \/ DispatchMessageStart \/ HandleBlockStart \/ HandleBlockDelta
           \/ HandleBlockStop \/ BufferTerminal
    PROVE  ClimbInv'
<1> DEFINE e == Head(inner)
<1>1. /\ request.flow = "agent" /\ pending = <<>> /\ inner # <<>>
      /\ UNCHANGED <<request, upstream, wire>>
  BY DEF DispatchMessageStart, HandleBlockStart, HandleBlockDelta, HandleBlockStop,
         BufferTerminal, Dispatching, InAgent
<1>2. /\ upstream.phase # "ended" /\ wire.next = agent.cursor /\ wire.next \in Nat
      /\ ~agent.started => wire.phase = "before"
  BY <1>1 DEF ClimbInv, Climb, Typed, WireState
<1>3. e \in Inner
  BY <1>1, HeadTyped DEF Typed
<1>4. agent \in AgentState
  BY DEF Typed
<1> HIDE DEF e
<1>5. ASSUME /\ Climb(pending', wire.next, agent'.cursor)
             /\ (pending' # <<>> /\ pending'[1].type = "message_start") => ~agent.started
             /\ agent'.started \/ (~agent.started /\ Silent(pending'))
      PROVE  ClimbInv'
  BY <1>1, <1>2, <1>5 DEF ClimbInv
<1>6. CASE DispatchMessageStart
  <2>1. /\ e.type = "message_start" /\ agent'.started /\ agent'.cursor = agent.cursor
        /\ pending' = IF agent.started THEN <<>> ELSE <<e>>
    BY <1>4, <1>6 DEF DispatchMessageStart, Dispatching, AgentState, e
  <2> QED
    BY <1>2, <1>5, <2>1, ClimbShort
<1>7. CASE HandleBlockStart
  <2> DEFINE f == [e EXCEPT !.index = agent.cursor,
                            !.kind = IF e.name \in WebTools THEN "server_tool_use" ELSE @]
  <2>1. e.type = "content_block_start" /\ pending' = <<f>>
        /\ agent'.cursor = agent.cursor + 1 /\ agent'.started = agent.started
    BY <1>4, <1>7 DEF HandleBlockStart, Dispatching, AgentState, e
  <2>2. f.type = "content_block_start" /\ f.index = agent.cursor
    BY <1>3, <2>1 DEF Inner, EventsOf
  <2> HIDE DEF f
  <2>3. Climb(pending', wire.next, agent'.cursor) /\ Silent(pending')
    BY <1>2, <2>1, <2>2, ClimbShort
  <2>4. pending'[1] = f
    BY <2>1
  <2>5. agent.started \in BOOLEAN
    BY <1>4 DEF AgentState
  <2> QED
    BY <1>5, <2>1, <2>2, <2>3, <2>4, <2>5
<1>8. CASE HandleBlockDelta \/ HandleBlockStop
  <2>1. /\ e.type \in {"content_block_delta", "content_block_stop"}
        /\ pending' = <<>> \/ \E i : pending' = <<[e EXCEPT !.index = i]>>
        /\ agent'.cursor = agent.cursor /\ agent'.started = agent.started
    BY <1>4, <1>8 DEF HandleBlockDelta, HandleBlockStop, Dispatching, AgentState, e
  <2>2. \A i : [e EXCEPT !.index = i].type = e.type
    BY <1>3 DEF Inner, EventsOf
  <2>3. pending' = <<>> \/ \E f : pending' = <<f>> /\ f.type = e.type
    BY <2>1, <2>2
  <2>4. Climb(pending', wire.next, agent'.cursor) /\ Silent(pending')
    BY <1>2, <2>1, <2>3, ClimbShort
  <2>5. ~(pending' # <<>> /\ pending'[1].type = "message_start")
    BY <2>1, <2>3
  <2>6. agent.started \in BOOLEAN
    BY <1>4 DEF AgentState
  <2> QED
    BY <1>5, <2>1, <2>4, <2>5, <2>6
<1>9. CASE BufferTerminal
  <2>1. pending' = <<>> /\ agent'.cursor = agent.cursor /\ agent'.started = agent.started
    BY <1>1, <1>4, <1>9 DEF BufferTerminal, AgentState
  <2>2. agent.started \in BOOLEAN
    BY <1>4 DEF AgentState
  <2> QED
    BY <1>2, <1>5, <2>1, <2>2, ClimbShort
<1> QED
  BY <1>6, <1>7, <1>8, <1>9

LEMMA ClimbQuiet ==
    ASSUME Typed, ClimbInv, QuietStep PROVE ClimbInv'
<1> SUFFICES ASSUME request.flow = "agent" PROVE ClimbInv'
  BY QuietKeepsResponses DEF ClimbInv
<1>1. pending = <<>> /\ wire' = wire /\ request' = request
  BY QuietSteps, QuietKeepsResponses
<1>2. /\ wire.next = agent.cursor /\ agent \in AgentState /\ upstream \in UpstreamState
      /\ wire.next \in Nat /\ agent.cursor \in Nat
  BY <1>1 DEF ClimbInv, Climb, Typed, WireState, AgentState
<1>3. CASE \/ DispatchMessageStart \/ HandleBlockStart \/ HandleBlockDelta
           \/ HandleBlockStop \/ BufferTerminal
  BY <1>3, ClimbDispatch
<1>4. CASE ChatChunk \/ ChatEnds \/ ResponsesEnds
  BY <1>4 DEF ChatChunk, ChatEnds, ResponsesEnds, ReadingResponses
<1>5. CASE AgentChunk \/ UpstreamAnswers
  <2>1. /\ upstream.phase \in {"calling", "open"} /\ upstream'.phase = "open"
        /\ agent' = agent /\ pending' = <<>>
    BY <1>1, <1>2, <1>5 DEF AgentChunk, UpstreamAnswers, Fed, UpstreamState
  <2> QED
    BY <1>1, <1>2, <2>1, ClimbShort DEF ClimbInv
<1>6. CASE NextTurn
  <2>1. /\ upstream.phase = "open" /\ inner' = <<>> /\ pending' = <<>>
        /\ agent'.cursor = agent.cursor /\ agent'.started = agent.started
    BY <1>1, <1>2, <1>6 DEF NextTurn, TurnOver, Idle, AgentState
  <2> QED
    BY <1>1, <1>2, <2>1, ClimbShort DEF ClimbInv
<1>7. CASE UpstreamFails
  <2>1. /\ upstream'.phase = "ended" /\ inner' = <<>> /\ agent' = agent
        /\ pending' = <<ErrorEvent>> /\ ErrorEvent.type = "error"
    BY <1>2, <1>7 DEF UpstreamFails, Idle, UpstreamState, ErrorEvent, Event
  <2>2. pending'[1].type = "error"
    BY <2>1
  <2> QED
    BY <1>1, <1>2, <2>1, <2>2, ClimbShort DEF ClimbInv
<1>8. CASE LastTurn
  <2> DEFINE usage == agent.usage + TurnUsage(agent.buffered)
             s == Stamped(agent.buffered, usage)
  <2>1. /\ upstream'.phase = "ended" /\ inner' = <<>> /\ pending' = s
        /\ agent'.cursor = agent.cursor
    BY <1>2, <1>8 DEF LastTurn, TurnOver, Idle, UpstreamState, AgentState
  <2>2. s \in Seq(Terminals)
    <3>1. agent.buffered \in Seq(Terminals) /\ agent.usage \in Nat
      BY <1>2 DEF AgentState
    <3>2. usage \in Nat
      BY <3>1, TurnUsageTyped
    <3> HIDE DEF usage
    <3> QED
      BY <3>1, <3>2, StampedTyped
  <2> HIDE DEF s
  <2>3. \A i \in 1 .. Len(s) : s[i].type \in {"message_delta", "message_stop"}
    <3>1. \A i \in 1 .. Len(s) : s[i] \in Terminals
      BY <2>2
    <3> QED
      BY <3>1 DEF Terminals, EventsOf, TerminalTypes
  <2>4. s # <<>> => 1 \in 1 .. Len(s)
    BY <2>2
  <2>5. Climb(s, wire.next, wire.next) /\ (s # <<>> => s[1].type # "message_start")
    BY <2>2, <2>3, <2>4 DEF Climb
  <2> QED
    BY <1>1, <1>2, <2>1, <2>5 DEF ClimbInv
<1>9. CASE ToolSettles
  <2>1. PICK outcome \in Outcomes :
          /\ UNCHANGED <<upstream, inner>> /\ pending' = Result(outcome)
          /\ agent'.cursor = agent.cursor + 1 /\ agent'.started = agent.started
    BY <1>2, <1>9 DEF ToolSettles, AgentState
  <2> DEFINE a == [BlockStart(agent.cursor, "result", agent.tool.id) EXCEPT !.reason = outcome]
             b == BlockStop(agent.cursor)
  <2>2. /\ a.type = "content_block_start" /\ a.index = agent.cursor
        /\ b.type = "content_block_stop" /\ pending' = <<a, b>>
    BY <2>1 DEF BlockStart, BlockStop, Event, Result
  <2> HIDE DEF a, b
  <2>3. Climb(pending', wire.next, agent'.cursor) /\ Silent(pending')
    BY <1>2, <2>1, <2>2, ClimbShort
  <2>4. pending'[1].type # "message_start"
    BY <2>1, <2>2
  <2> QED
    BY <1>1, <2>1, <2>3, <2>4 DEF ClimbInv
<1> QED
  BY <1>3, <1>4, <1>5, <1>6, <1>7, <1>8, <1>9 DEF QuietStep

\* A ping leaves the client where it was.
LEMMA PingRead ==
    ASSUME Typed, wire' = Read(wire, Event("ping"))
    PROVE  /\ wire'.next = wire.next /\ wire'.phase = wire.phase /\ wire'.last.type = "ping"
           /\ wire'.breaks = wire.breaks
<1> DEFINE e == Event("ping")
<1>1. e \in Readable /\ e.type = "ping" /\ wire \in WireState
  BY WrittenReadable DEF Event, Typed
<1> HIDE DEF e
<1>2. Read(wire, e).breaks = wire.breaks
  BY <1>1, RunsRead
<1>3. /\ Read(wire, e).next = wire.next /\ Read(wire, e).phase = wire.phase
  BY <1>1, NextRead
<1>4. Read(wire, e).last.type = "ping"
  BY <1>1, ReadTyped
<1> QED
  BY <1>2, <1>3, <1>4 DEF e

LEMMA ClimbNext ==
    ASSUME Typed, ClimbInv, [Next]_vars PROVE ClimbInv'
<1>1. ASSUME wire' = Read(wire, Event("ping")),
             UNCHANGED <<request, upstream, chat, responses, agent, inner, pending>>
      PROVE  ClimbInv'
  BY <1>1, PingRead DEF ClimbInv
<1>2. CASE UNCHANGED vars
  BY <1>2 DEF vars, ClimbInv
<1>3. CASE EventStep
  BY <1>3 DEF EventStep, ReadingResponses, Translated, ClimbInv
<1> QED
  BY <1>1, <1>2, <1>3, Steps, ClimbWrite, ClimbQuiet

\* What a step may let the client read.
ClimbStep ==
    request.flow = "agent" =>
      /\ (wire'.last # wire.last /\ wire'.last.type = "content_block_start")
           => wire'.last.index = wire.next
      /\ (wire'.last # wire.last /\ wire'.last.type = "message_start")
           => wire.phase = "before"

LEMMA ClimbingStep ==
    ASSUME Typed, ClimbInv, [Next]_vars PROVE ClimbStep
<1>1. CASE Write
  <2>1. /\ pending # <<>> /\ wire' = Read(wire, pending[1]) /\ pending[1] \in Readable
    BY <1>1, HeadTailProperties, WrittenReadable DEF Typed, Write
  <2>2. wire'.last.type = pending[1].type /\ wire'.last.index = pending[1].index
    BY <2>1, ReadTyped DEF Typed
  <2> QED
    BY <2>1, <2>2 DEF ClimbInv, Climb, ClimbStep
<1>2. CASE QuietStep
  BY <1>2, QuietSteps DEF ClimbStep
<1>3. CASE EventStep
  BY <1>3 DEF EventStep, Translated, ClimbStep
<1>4. ASSUME wire' = Read(wire, Event("ping")) PROVE ClimbStep
  BY <1>4, PingRead DEF ClimbStep
<1>5. CASE UNCHANGED vars
  BY <1>5 DEF vars, ClimbStep
<1> QED
  BY <1>1, <1>2, <1>3, <1>4, <1>5, Steps

\* Whatever the upstream of the agent does, for any number of turns, tools and
\* uses: no block index is given out twice and message_start is sent once.
THEOREM IndicesClimb == Spec => AgentIndicesClimb
<1>1. Init => ClimbInv
  BY ClimbInit
<1>2. Typed /\ ClimbInv /\ [Next]_vars => ClimbInv'
  BY ClimbNext
<1>3. Typed /\ ClimbInv /\ [Next]_vars => [ClimbStep]_vars
  BY ClimbingStep
<1>4. Spec => [][ClimbStep]_vars
  BY <1>1, <1>2, <1>3, AlwaysTyped, PTL DEF Spec
<1> QED
  BY <1>4 DEF AgentIndicesClimb, ClimbStep

-----------------------------------------------------------------------------
(* The usage the agent reports.                                              *)

\* The terminal events of a turn, from its finish to where they are held back:
\* both yet to be dispatched, one of them, or none.
Held(finished, in, buffered) ==
    \/ /\ ~finished /\ buffered = <<>>
       /\ \A i \in 1 .. Len(in) : in[i].type \in BodyTypes
    \/ /\ finished /\ buffered = <<>> /\ Len(in) >= 2
       /\ \A i \in 1 .. Len(in) - 2 : in[i].type \in BodyTypes
       /\ in[Len(in) - 1].type = "message_delta" /\ in[Len(in)].type = "message_stop"
    \/ /\ finished /\ Len(in) = 1 /\ Len(buffered) = 1
       /\ in[1].type = "message_stop" /\ buffered[1].type = "message_delta"
    \/ /\ finished /\ in = <<>> /\ Len(buffered) = 2
       /\ buffered[1].type = "message_delta" /\ buffered[2].type = "message_stop"

\* A client that has read `billed` so far and reads `s` has read `due` when
\* it reads message_stop.
Billing(s, billed, due) ==
    \A i \in 1 .. Len(s) :
      /\ s[i].type = "message_delta" => s[i].usage = due
      /\ s[i].type = "message_stop" =>
           billed = due \/ \E j \in 1 .. i - 1 : s[j].type = "message_delta"

BilledInv ==
    request.flow = "agent" /\ Mannered =>
      /\ upstream.phase # "ended" =>
           /\ \A i \in 1 .. Len(pending) : pending[i].type \notin TerminalTypes
           /\ wire.last.type # "message_stop" /\ agent.usage = agent.turn
           /\ Held(upstream.finished, inner, agent.buffered)
      /\ upstream.phase = "ended" =>
           /\ inner = <<>> /\ Billing(pending, wire.billed, agent.turn + 1)
           /\ wire.last.type = "message_stop" => wire.billed = agent.turn + 1

LEMMA BilledInit == Init => BilledInv
  BY DEF Init, BilledInv, Held, NewAgent, NewWire, NewUpstream

LEMMA TwoAppended ==
    ASSUME NEW S, NEW s \in Seq(S), Len(s) = 1, NEW x \in S
    PROVE  Len(Append(s, x)) = 2 /\ Append(s, x)[1] = s[1] /\ Append(s, x)[2] = x
<1> DEFINE r == Append(s, x)
<1>1. Len(r) = Len(s) + 1 /\ r[Len(s) + 1] = x /\ \A i \in 1 .. Len(s) : r[i] = s[i]
  <2>1. Len(r) = Len(s) + 1 /\ r[Len(s) + 1] = x
    BY AppendProperties
  <2>2. \A i \in 1 .. Len(s) : r[i] = s[i]
    BY AppendProperties
  <2> QED
    BY <2>1, <2>2
<1> HIDE DEF r
<1>2. 1 \in 1 .. Len(s) /\ Len(s) + 1 = 2
  OBVIOUS
<1> QED
  BY <1>1, <1>2 DEF r

LEMMA TwoMore ==
    ASSUME NEW S, NEW s \in Seq(S), NEW t \in Seq(S), Len(t) = 2
    PROVE  /\ Len(s \o t) = Len(s) + 2 /\ Len(s) \in Nat
           /\ \A i \in 1 .. Len(s) : (s \o t)[i] = s[i]
           /\ (s \o t)[Len(s) + 1] = t[1] /\ (s \o t)[Len(s) + 2] = t[2]
<1> DEFINE r == s \o t
           n == Len(s)
<1>1. Len(r) = n + Len(t) /\ \A i \in 1 .. n + Len(t) : r[i] = IF i <= n THEN s[i] ELSE t[i - n]
  BY ConcatProperties
<1>2. n \in Nat
  OBVIOUS
<1> HIDE DEF r, n
<1>3. \A i \in 1 .. n : r[i] = s[i]
  BY <1>1, <1>2
<1>4. r[n + 1] = t[n + 1 - n] /\ r[n + 2] = t[n + 2 - n]
  BY <1>1, <1>2
<1>5. n + 1 - n = 1 /\ n + 2 - n = 2
  BY <1>2
<1> QED
  BY <1>1, <1>2, <1>3, <1>4, <1>5 DEF r, n

LEMMA HeldDispatch ==
    ASSUME NEW finished \in BOOLEAN, NEW in \in Seq(Inner), in # <<>>,
           NEW buffered \in Seq(Terminals), Held(finished, in, buffered)
    PROVE  /\ Head(in).type \in BodyTypes => Held(finished, Tail(in), buffered)
           /\ Head(in).type \in TerminalTypes =>
                Held(finished, Tail(in), Append(buffered, Head(in)))
<1> DEFINE t == Tail(in)
<1>1. /\ Head(in) = in[1] /\ Len(in) \in Nat /\ Len(in) >= 1 /\ Len(t) = Len(in) - 1
      /\ t \in Seq(Inner) /\ \A i \in 1 .. Len(t) : t[i] = in[i + 1]
  BY HeadTailProperties
<1> HIDE DEF t
<1>2. CASE ~finished /\ buffered = <<>> /\ \A i \in 1 .. Len(in) : in[i].type \in BodyTypes
  <2>1. in[1].type \in BodyTypes
    BY <1>1, <1>2
  <2>2. \A i \in 1 .. Len(t) : t[i].type \in BodyTypes
    BY <1>1, <1>2
  <2>3. Held(finished, t, buffered)
    BY <1>2, <2>2 DEF Held
  <2> QED
    BY <1>1, <2>1, <2>3 DEF BodyTypes, TerminalTypes, t
<1>3. CASE /\ finished /\ buffered = <<>> /\ Len(in) >= 2
           /\ \A i \in 1 .. Len(in) - 2 : in[i].type \in BodyTypes
           /\ in[Len(in) - 1].type = "message_delta" /\ in[Len(in)].type = "message_stop"
  <2>1. CASE Len(in) = 2
    <3>1. in[1].type = "message_delta" /\ Len(t) = 1 /\ t[1].type = "message_stop"
      BY <1>1, <1>3, <2>1
    <3>2. Append(buffered, in[1])[1] = in[1] /\ Len(Append(buffered, in[1])) = 1
      BY <1>3
    <3>3. Held(finished, t, Append(buffered, in[1]))
      BY <1>3, <3>1, <3>2 DEF Held
    <3> QED
      BY <1>1, <3>1, <3>3 DEF BodyTypes, t
  <2>2. CASE Len(in) # 2
    <3>1. in[1].type \in BodyTypes /\ Len(t) >= 2
      BY <1>1, <1>3, <2>2
    <3>2. ASSUME NEW i \in 1 .. Len(t) - 2 PROVE t[i].type \in BodyTypes
      <4>1. i \in 1 .. Len(t) /\ i + 1 \in 1 .. Len(in) - 2
        BY <1>1
      <4> QED
        BY <1>1, <1>3, <4>1
    <3>3. t[Len(t) - 1].type = "message_delta" /\ t[Len(t)].type = "message_stop"
      <4>1. Len(t) - 1 \in 1 .. Len(t) /\ Len(t) \in 1 .. Len(t)
            /\ Len(t) - 1 + 1 = Len(in) - 1 /\ Len(t) + 1 = Len(in)
        BY <1>1, <3>1
      <4> QED
        BY <1>1, <1>3, <4>1
    <3>4. Held(finished, t, buffered)
      BY <1>3, <3>1, <3>2, <3>3 DEF Held
    <3> QED
      BY <1>1, <3>1, <3>4 DEF BodyTypes, TerminalTypes, t
  <2> QED
    BY <2>1, <2>2
<1>4. CASE /\ finished /\ Len(in) = 1 /\ Len(buffered) = 1
           /\ in[1].type = "message_stop" /\ buffered[1].type = "message_delta"
  <2> DEFINE b == Append(buffered, in[1])
  <2>1. t = <<>>
    BY <1>1, <1>4
  <2>2. Len(b) = 2 /\ b[1].type = "message_delta" /\ b[2].type = "message_stop"
    <3>1. in[1] \in Terminals
      <4>1. in[1] \in Inner
        BY <1>1
      <4> QED
        BY <1>4, <4>1 DEF Inner, Terminals, EventsOf, TerminalTypes
    <3>2. Len(b) = 2 /\ b[1] = buffered[1] /\ b[2] = in[1]
      BY <1>4, <3>1, TwoAppended
    <3> QED
      BY <1>4, <3>2
  <2> HIDE DEF b
  <2>3. Held(finished, t, b)
    BY <1>4, <2>1, <2>2 DEF Held
  <2> QED
    BY <1>1, <1>4, <2>3 DEF BodyTypes, b, t
<1> QED
  BY <1>2, <1>3, <1>4 DEF Held

\* A chunk ends its turn, or is followed by more of it.
LEMMA ChunkHeld ==
    ASSUME NEW chunk \in ChunkRecord, chat \in ChatState
    PROVE  Held(chunk.finish # "none", TranslateChunk(chat, chunk).out, <<>>)
<1> DEFINE out == TranslateChunk(chat, chunk).out
           end == Terminal(chunk.finish)
<1>1. PICK p \in ChatPair : out = IF chunk.finish = "none" THEN p.out ELSE p.out \o end
  BY ChunkTyped
<1>2. p.out \in Seq(Body)
  BY DEF ChatPair
<1>3. \A i \in 1 .. Len(p.out) : p.out[i].type \in BodyTypes
  <2>1. \A i \in 1 .. Len(p.out) : p.out[i] \in Body
    BY <1>2
  <2> QED
    BY <2>1 DEF Body, EventsOf
<1>4. /\ Len(end) = 2 /\ end[1].type = "message_delta" /\ end[2].type = "message_stop"
      /\ end \in Seq(Terminals)
  BY TerminalTyped DEF ChunkRecord, Terminals
<1> HIDE DEF out, end
<1>5. CASE chunk.finish = "none"
  BY <1>1, <1>3, <1>5 DEF Held, out
<1>6. CASE chunk.finish # "none"
  <2>1. out = p.out \o end
    BY <1>1, <1>6
  <2>2. /\ Len(out) = Len(p.out) + 2 /\ Len(p.out) \in Nat
        /\ \A i \in 1 .. Len(p.out) : out[i] = p.out[i]
        /\ out[Len(p.out) + 1] = end[1] /\ out[Len(p.out) + 2] = end[2]
    <3>1. p.out \in Seq(Inner) /\ end \in Seq(Inner)
      BY <1>2, <1>4, WrittenReadable, SeqMonotonic
    <3>2. Len(end) = 2
      BY <1>4
    <3> QED
      BY <2>1, <3>1, <3>2, TwoMore
  <2>3. Len(out) >= 2 /\ Len(out) - 2 = Len(p.out) /\ Len(out) - 1 = Len(p.out) + 1
    BY <2>2
  <2>4. /\ \A i \in 1 .. Len(out) - 2 : out[i].type \in BodyTypes
        /\ out[Len(out) - 1].type = "message_delta" /\ out[Len(out)].type = "message_stop"
    BY <1>3, <1>4, <2>2, <2>3
  <2> QED
    BY <1>6, <2>3, <2>4 DEF Held, out
<1> QED
  BY <1>5, <1>6

\* What reading an event does to the usage.
LEMMA UsageRead ==
    ASSUME NEW w \in WireState, NEW e \in Readable
    PROVE  Read(w, e).billed = IF e.type = "message_delta" THEN e.usage ELSE w.billed
<1>1. EventRead(w, e) \in WireState
  BY ReadTyped
<1>2. Read(w, e).billed = EventRead(w, e).billed
  BY <1>1 DEF Read, WireState
<1>3. CASE e.type = "content_block_delta"
  <2>1. DeltaRead(w, e).billed = w.billed
    BY DEF DeltaRead, WireState
  <2> QED
    BY <1>2, <1>3, <2>1 DEF EventRead
<1>4. CASE e.type = "content_block_start"
  <2>1. EventRead(w, e).billed = w.billed
    BY <1>4 DEF EventRead, WireState
  <2> QED
    BY <1>2, <1>4, <2>1
<1>5. CASE e.type \notin {"content_block_start", "content_block_delta"}
  BY <1>2, <1>5 DEF EventRead, WireState
<1> QED
  BY <1>3, <1>4, <1>5

LEMMA BilledWrite ==
    ASSUME Typed, BilledInv, Write PROVE BilledInv'
<1> SUFFICES ASSUME request.flow = "agent", Mannered PROVE BilledInv'
  BY DEF Write, BilledInv, Mannered
<1> DEFINE e == pending[1]
           due == agent.turn + 1
<1>1. /\ pending \in Seq(Written) /\ pending # <<>> /\ wire \in WireState
      /\ pending' = Tail(pending) /\ wire' = Read(wire, Head(pending))
      /\ UNCHANGED <<request, upstream, agent, inner>>
  BY DEF Typed, Write
<1>2. /\ Head(pending) = e /\ e \in Readable
      /\ Len(pending) \in Nat /\ Len(pending) >= 1
      /\ Len(pending') = Len(pending) - 1
      /\ \A i \in 1 .. Len(pending') : pending'[i] = pending[i + 1]
  BY <1>1, HeadTailProperties, WrittenReadable
<1>3. /\ wire'.last.type = e.type
      /\ wire'.billed = IF e.type = "message_delta" THEN e.usage ELSE wire.billed
  BY <1>1, <1>2, ReadTyped, UsageRead
<1>4. 1 \in 1 .. Len(pending) /\ \A i \in 1 .. Len(pending') : i + 1 \in 1 .. Len(pending)
  BY <1>2
<1>5. CASE upstream.phase # "ended"
  <2>1. \A i \in 1 .. Len(pending) : pending[i].type \notin TerminalTypes
    BY <1>5 DEF BilledInv
  <2>2. \A i \in 1 .. Len(pending') : pending'[i].type \notin TerminalTypes
    BY <1>2, <1>4, <2>1
  <2>3. wire'.last.type # "message_stop"
    BY <1>3, <1>4, <2>1 DEF TerminalTypes
  <2> HIDE DEF e
  <2> QED
    BY <1>1, <1>5, <2>2, <2>3 DEF BilledInv
<1>6. CASE upstream.phase = "ended"
  <2>1. inner = <<>> /\ Billing(pending, wire.billed, due)
    BY <1>6 DEF BilledInv
  <2>2. /\ e.type = "message_delta" => e.usage = due
        /\ e.type = "message_stop" => wire.billed = due
    BY <1>4, <2>1 DEF Billing
  <2> HIDE DEF e, due
  <2>3. ASSUME NEW i \in 1 .. Len(pending')
        PROVE  /\ pending'[i].type = "message_delta" => pending'[i].usage = due
               /\ pending'[i].type = "message_stop" =>
                    \/ wire'.billed = due
                    \/ \E j \in 1 .. i - 1 : pending'[j].type = "message_delta"
    <3>1. /\ pending'[i].type = "message_delta" => pending'[i].usage = due
          /\ pending'[i].type = "message_stop" =>
               wire.billed = due \/ \E j \in 1 .. i + 1 - 1 : pending[j].type = "message_delta"
      BY <1>2, <1>4, <2>1 DEF Billing
    <3>2. CASE wire.billed = due
      BY <1>3, <2>2, <3>1, <3>2
    <3>3. ASSUME NEW j \in 1 .. i + 1 - 1, pending[j].type = "message_delta"
          PROVE  wire'.billed = due \/ \E k \in 1 .. i - 1 : pending'[k].type = "message_delta"
      <4>1. CASE j = 1
        BY <1>3, <2>2, <3>3, <4>1 DEF e
      <4>2. CASE j # 1
        <5>1. j - 1 \in 1 .. i - 1 /\ j - 1 \in 1 .. Len(pending') /\ j - 1 + 1 = j
          BY <1>2, <4>2
        <5>2. pending'[j - 1] = pending[j]
          BY <1>2, <5>1
        <5> QED
          BY <3>3, <5>1, <5>2
      <4> QED
        BY <4>1, <4>2
    <3> QED
      BY <3>1, <3>2, <3>3
  <2>4. Billing(pending', wire'.billed, due)
    BY <2>3 DEF Billing
  <2>5. wire'.last.type = "message_stop" => wire'.billed = due
    BY <1>3, <2>2
  <2> QED
    BY <1>1, <1>6, <2>1, <2>4, <2>5 DEF BilledInv, due
<1> QED
  BY <1>5, <1>6

LEMMA BilledDispatch ==
    ASSUME Typed, BilledInv,
           \/ DispatchMessageStart \/ HandleBlockStart \/ HandleBlockDelta
           \/ HandleBlockStop \/ BufferTerminal
    PROVE  BilledInv'
<1> SUFFICES ASSUME Mannered PROVE BilledInv'
  BY DEF BilledInv, Mannered, DispatchMessageStart, HandleBlockStart, HandleBlockDelta,
         HandleBlockStop, BufferTerminal, Dispatching
<1> DEFINE e == Head(inner)
<1>1. /\ request.flow = "agent" /\ inner # <<>> /\ inner' = Tail(inner)
      /\ UNCHANGED <<request, upstream, wire>>
  BY DEF DispatchMessageStart, HandleBlockStart, HandleBlockDelta, HandleBlockStop,
         BufferTerminal, Dispatching, InAgent
<1>2. /\ agent \in AgentState /\ upstream.finished \in BOOLEAN /\ inner \in Seq(Inner)
      /\ agent.buffered \in Seq(Terminals) /\ pending \in Seq(Written)
  BY DEF Typed, AgentState, UpstreamState
<1>3. /\ upstream.phase # "ended" /\ wire.last.type # "message_stop" /\ agent.usage = agent.turn
      /\ Held(upstream.finished, inner, agent.buffered)
      /\ \A i \in 1 .. Len(pending) : pending[i].type \notin TerminalTypes
  BY <1>1 DEF BilledInv
<1>4. e \in Inner
  BY <1>1, <1>2, HeadTyped
<1>5. /\ e.type \in BodyTypes => Held(upstream.finished, inner', agent.buffered)
      /\ e.type \in TerminalTypes => Held(upstream.finished, inner', Append(agent.buffered, e))
  BY <1>1, <1>2, <1>3, HeldDispatch
<1> HIDE DEF e
<1>6. ASSUME \/ pending' = <<>>
             \/ \E f : pending' = <<f>> /\ f.type \in BodyTypes
      PROVE  \A i \in 1 .. Len(pending') : pending'[i].type \notin TerminalTypes
  BY <1>6 DEF BodyTypes, TerminalTypes
<1>7. ASSUME e.type \in BodyTypes, agent'.buffered = agent.buffered,
             agent'.usage = agent.usage, agent'.turn = agent.turn,
             \A i \in 1 .. Len(pending') : pending'[i].type \notin TerminalTypes
      PROVE  BilledInv'
  BY <1>1, <1>3, <1>5, <1>7 DEF BilledInv
<1>8. CASE DispatchMessageStart
  <2>1. /\ e.type = "message_start"
        /\ pending' = <<>> \/ pending' = <<e>>
        /\ agent'.buffered = agent.buffered /\ agent'.usage = agent.usage
        /\ agent'.turn = agent.turn
    BY <1>2, <1>8 DEF DispatchMessageStart, Dispatching, AgentState, e
  <2> QED
    BY <1>6, <1>7, <2>1 DEF BodyTypes
<1>9. CASE HandleBlockStart
  <2> DEFINE f == [e EXCEPT !.index = agent.cursor,
                            !.kind = IF e.name \in WebTools THEN "server_tool_use" ELSE @]
  <2>1. /\ e.type = "content_block_start" /\ pending' = <<f>>
        /\ agent'.buffered = agent.buffered /\ agent'.usage = agent.usage
        /\ agent'.turn = agent.turn
    BY <1>2, <1>9 DEF HandleBlockStart, Dispatching, AgentState, e
  <2>2. f.type = "content_block_start"
    BY <1>4, <2>1 DEF Inner, EventsOf
  <2> HIDE DEF f
  <2> QED
    BY <1>6, <1>7, <2>1, <2>2 DEF BodyTypes
<1>10. CASE HandleBlockDelta \/ HandleBlockStop
  <2>1. /\ e.type \in {"content_block_delta", "content_block_stop"}
        /\ pending' = <<>> \/ \E i : pending' = <<[e EXCEPT !.index = i]>>
        /\ agent'.buffered = agent.buffered /\ agent'.usage = agent.usage
        /\ agent'.turn = agent.turn
    BY <1>2, <1>10 DEF HandleBlockDelta, HandleBlockStop, Dispatching, AgentState, e
  <2>2. \A i : [e EXCEPT !.index = i].type = e.type
    BY <1>4 DEF Inner, EventsOf
  <2>3. pending' = <<>> \/ \E f : pending' = <<f>> /\ f.type = e.type
    BY <2>1, <2>2
  <2> QED
    BY <1>6, <1>7, <2>1, <2>3 DEF BodyTypes
<1>11. CASE BufferTerminal
  <2>1. /\ e.type \in TerminalTypes /\ pending' = pending
        /\ agent'.buffered = Append(agent.buffered, e) /\ agent'.usage = agent.usage
        /\ agent'.turn = agent.turn
    BY <1>2, <1>11 DEF BufferTerminal, Dispatching, TerminalTypes, AgentState, e
  <2> QED
    BY <1>1, <1>3, <1>5, <2>1 DEF BilledInv
<1> QED
  BY <1>8, <1>9, <1>10, <1>11

LEMMA BilledQuiet ==
    ASSUME Typed, BilledInv, QuietStep PROVE BilledInv'
<1>1. pending = <<>> /\ wire' = wire /\ request' = request
  BY QuietSteps, QuietKeepsResponses
<1> SUFFICES ASSUME request.flow = "agent", Mannered PROVE BilledInv'
  BY <1>1 DEF BilledInv, Mannered
<1>2. /\ agent \in AgentState /\ upstream \in UpstreamState /\ chat \in ChatState
      /\ agent.turn \in Nat /\ agent.usage \in Nat /\ agent.buffered \in Seq(Terminals)
      /\ upstream.finished \in BOOLEAN
  BY DEF Typed, AgentState, UpstreamState
<1>3. upstream.phase # "ended" =>
        /\ wire.last.type # "message_stop" /\ agent.usage = agent.turn
        /\ Held(upstream.finished, inner, agent.buffered)
  BY DEF BilledInv
<1>4. CASE \/ DispatchMessageStart \/ HandleBlockStart \/ HandleBlockDelta
           \/ HandleBlockStop \/ BufferTerminal
  BY <1>4, BilledDispatch
<1>5. CASE ChatChunk \/ ChatEnds \/ ResponsesEnds
  BY <1>5 DEF ChatChunk, ChatEnds, ResponsesEnds, ReadingResponses
<1>6. CASE AgentChunk
  <2>1. PICK chunk \in TurnChunks(agent.turn) :
          /\ ~upstream.finished /\ upstream.phase = "open" /\ inner = <<>>
          /\ inner' = TranslateChunk(chat, chunk).out /\ Fed(chunk)
          /\ agent' = agent /\ pending' = <<>>
    BY <1>1, <1>6 DEF AgentChunk, OrderlyChunk, Idle
  <2>2. chunk \in ChunkRecord
    BY <1>2, CallsTyped
  <2>3. upstream'.phase = "open" /\ upstream'.finished = (chunk.finish # "none")
    BY <1>2, <2>1 DEF Fed, UpstreamState
  <2>4. agent.buffered = <<>>
    BY <1>3, <2>1 DEF Held
  <2>5. Held(upstream'.finished, inner', agent'.buffered)
    <3>1. Held(chunk.finish # "none", TranslateChunk(chat, chunk).out, <<>>)
      BY <1>2, <2>2, ChunkHeld
    <3> QED
      BY <2>1, <2>3, <2>4, <3>1, Zenon
  <2> QED
    BY <1>1, <1>3, <2>1, <2>3, <2>5 DEF BilledInv
<1>7. CASE UpstreamAnswers
  <2>1. /\ upstream.phase = "calling" /\ upstream'.phase = "open"
        /\ upstream'.finished = upstream.finished
        /\ UNCHANGED <<agent, inner>> /\ pending' = <<>>
    BY <1>1, <1>2, <1>7 DEF UpstreamAnswers, UpstreamState
  <2> QED
    BY <1>1, <1>3, <2>1 DEF BilledInv
<1>8. CASE UpstreamFails
  <2>1. /\ upstream.phase # "ended" /\ upstream'.phase = "ended" /\ inner' = <<>>
        /\ pending' = <<ErrorEvent>> /\ ErrorEvent.type = "error"
    BY <1>2, <1>8 DEF UpstreamFails, Idle, UpstreamState, ErrorEvent, Event
  <2>2. Billing(pending', wire'.billed, agent'.turn + 1)
    BY <2>1 DEF Billing
  <2> QED
    BY <1>1, <1>3, <2>1, <2>2 DEF BilledInv
<1>9. CASE ToolSettles
  <2>1. PICK outcome \in Outcomes :
          /\ UNCHANGED <<upstream, inner>> /\ pending' = Result(outcome)
          /\ agent'.buffered = agent.buffered /\ agent'.usage = agent.usage
          /\ agent'.turn = agent.turn
    BY <1>2, <1>9 DEF ToolSettles, AgentState
  <2>2. /\ Len(Result(outcome)) = 2 /\ Result(outcome)[1].type = "content_block_start"
        /\ Result(outcome)[2].type = "content_block_stop"
    BY <1>2, ResultTyped DEF AgentState, BlockStop, Event
  <2>3. \A i \in 1 .. Len(pending') :
          pending'[i].type \in {"content_block_start", "content_block_stop"}
    BY <2>1, <2>2
  <2>4. /\ \A i \in 1 .. Len(pending') : pending'[i].type \notin TerminalTypes
        /\ Billing(pending', wire'.billed, agent'.turn + 1)
    BY <2>3 DEF Billing, TerminalTypes
  <2> QED
    BY <1>1, <2>1, <2>4 DEF BilledInv
<1>10. ASSUME TurnOver
       PROVE  /\ upstream.phase # "ended" /\ inner = <<>> /\ Len(agent.buffered) = 2
              /\ agent.buffered[1].type = "message_delta"
              /\ agent.buffered[2].type = "message_stop"
              /\ TurnUsage(agent.buffered) = 1
  <2>1. /\ upstream.phase = "open" /\ inner = <<>> /\ upstream.finished
    BY <1>10 DEF TurnOver, Idle
  <2>2. /\ Len(agent.buffered) = 2
        /\ agent.buffered[1].type = "message_delta" /\ agent.buffered[2].type = "message_stop"
    BY <1>3, <2>1 DEF Held
  <2>3. {i \in 1 .. Len(agent.buffered) : agent.buffered[i].type = "message_delta"} = {1}
    BY <2>2
  <2>4. Cardinality({1}) = 1
    BY FS_Singleton
  <2> QED
    BY <2>1, <2>2, <2>3, <2>4 DEF TurnUsage
<1>11. CASE NextTurn
  <2>1. /\ upstream'.phase = "calling" /\ upstream'.finished = FALSE
        /\ inner' = <<>> /\ pending' = <<>>
        /\ agent'.buffered = <<>> /\ agent'.usage = agent.usage + 1
        /\ agent'.turn = agent.turn + 1
    BY <1>1, <1>2, <1>10, <1>11 DEF NextTurn, NewUpstream, AgentState
  <2>2. Held(upstream'.finished, inner', agent'.buffered)
    BY <2>1 DEF Held
  <2> QED
    BY <1>1, <1>3, <1>10, <1>11, <2>1, <2>2 DEF BilledInv, NextTurn
<1>12. CASE LastTurn
  <2> DEFINE due == agent.turn + 1
  <2>1. /\ TurnOver /\ upstream'.phase = "ended" /\ inner' = <<>>
        /\ pending' = Stamped(agent.buffered, due) /\ agent'.turn = agent.turn
    BY <1>2, <1>3, <1>10, <1>12 DEF LastTurn, UpstreamState, AgentState
  <2>2. /\ Len(pending') = 2
        /\ pending'[1] = [agent.buffered[1] EXCEPT !.usage = due]
        /\ pending'[2] = agent.buffered[2]
    BY <1>2, <1>10, <2>1, StampedTyped DEF Stamped
  <2>3. agent.buffered[1] \in Terminals
    BY <1>2, <1>10, <2>1
  <2>4. /\ pending'[1].type = "message_delta" /\ pending'[1].usage = due
        /\ pending'[2].type = "message_stop"
    BY <1>10, <2>1, <2>2, <2>3 DEF Terminals, EventsOf
  <2> HIDE DEF due
  <2>5. Billing(pending', wire'.billed, due)
    <3>1. \A i \in 1 .. Len(pending') : i = 1 \/ i = 2
      BY <2>2
    <3>2. 1 \in 1 .. 2 - 1
      OBVIOUS
    <3> QED
      BY <2>4, <3>1, <3>2 DEF Billing
  <2> QED
    BY <1>1, <1>3, <1>10, <2>1, <2>5 DEF BilledInv, due
<1> QED
  BY <1>4, <1>5, <1>6, <1>7, <1>8, <1>9, <1>11, <1>12 DEF QuietStep

LEMMA BilledNext ==
    ASSUME Typed, BilledInv, [Next]_vars PROVE BilledInv'
<1>1. ASSUME wire' = Read(wire, Event("ping")),
             UNCHANGED <<request, upstream, chat, responses, agent, inner, pending>>
      PROVE  BilledInv'
  <2> DEFINE e == Event("ping")
  <2>1. e \in Readable /\ e.type = "ping" /\ wire \in WireState
    BY WrittenReadable DEF Event, Typed
  <2> HIDE DEF e
  <2>2. Read(wire, e).billed = wire.billed /\ Read(wire, e).last.type = "ping"
    BY <2>1, UsageRead, ReadTyped
  <2>3. wire'.billed = wire.billed /\ wire'.last.type = "ping"
    BY <1>1, <2>2 DEF e
  <2> QED
    BY <1>1, <2>3 DEF BilledInv, Mannered
<1>2. CASE UNCHANGED vars
  BY <1>2 DEF vars, BilledInv, Mannered
<1>3. CASE EventStep
  BY <1>3 DEF EventStep, ReadingResponses, Translated, BilledInv, Mannered
<1> QED
  BY <1>1, <1>2, <1>3, Steps, BilledWrite, BilledQuiet

\* The usage at the end of an agent's answer counts every turn's upstream call,
\* for any number of turns: each turn's terminal events are held back, counted
\* once and, of the last turn alone, sent.
THEOREM TurnsBilled == Spec => []EveryTurnBilled
<1>1. Init => BilledInv
  BY BilledInit
<1>2. Typed /\ BilledInv /\ [Next]_vars => BilledInv'
  BY BilledNext
<1>3. BilledInv => EveryTurnBilled
  BY DEF BilledInv, EveryTurnBilled
<1> QED
  BY <1>1, <1>2, <1>3, AlwaysTyped, PTL DEF Spec
=============================================================================
