----------------------- MODULE ResponsesTranslation ------------------------
(***************************************************************************)
(* translateResponsesStreamEvent (src/routes/messages/                     *)
(* responses-stream-translation.ts): one event of the Responses API to the *)
(* Anthropic events it becomes.  Handlers map a pair [st, out] as in       *)
(* ChatTranslation.  An upstream event is                                  *)
(*   [type, out, part, body, tail]:                                        *)
(* its output_index and content_index, whether the object or text it       *)
(* should carry is there, and, of function arguments, whether they end a   *)
(* run of line breaks ("text"), extend it ("breaks") or neither            *)
(* ("spaces").  `part` of a reasoning event is its summary_index.          *)
(***************************************************************************)
EXTENDS Integers, Sequences, SequencesExt, ChatTranslation

CONSTANTS
  Outputs,       \* output indices
  Parts,         \* content indices; 0 is one of them
  MaxWhitespace  \* MAX_CONSECUTIVE_FUNCTION_CALL_WHITESPACE

\* The key of a call or of reasoning has content index 0.
ASSUME PartsAssumption == 0 \in Parts

\* The identity of a part, getBlockKey; a function call is its output.
PartKey(out, part) == <<out, part>>

PartKeys == Outputs \X Parts

NoFunction == [block |-> NoBlock, breaks |-> 0]

\* createResponsesStreamState.
FreshResponses ==
  [completed |-> FALSE, next |-> 0,
   blockByKey |-> [k \in PartKeys |-> NoBlock],
   open |-> {}, hasDelta |-> {},
   functions |-> [o \in Outputs |-> NoFunction]]

Unchanged(st) == [st |-> st, out |-> <<>>]

Emit(p, event) == [p EXCEPT !.out = Append(@, event)]

\* Mutant: the open block is not closed.
CloseNothing(p) == p

\* closeOpenBlocks: stop every open block and forget that it had a delta.
CloseOpenBlocks(p) ==
  [st  |-> [p.st EXCEPT !.open = {}, !.hasDelta = @ \ p.st.open],
   out |-> p.out \o [i \in 1 .. Cardinality(p.st.open) |->
                       BlockStop(SetToSeq(p.st.open)[i])]]

CloseAllOpenBlocks(p) ==
  LET q == CloseOpenBlocks(p)
  IN [q EXCEPT !.st.functions = [o \in Outputs |-> NoFunction]]

\* Open block `b`, closing the others, unless it is open.
OpenIfNeeded(p, b, start) ==
  IF b \in p.st.open THEN p
  ELSE LET q == CloseOpenBlocks(p)
       IN Emit([q EXCEPT !.st.open = @ \cup {b}], start)

\* openTextBlockIfNeeded and openThinkingBlockIfNeeded: the block of a key,
\* allocated on its first use, opened (again) if it is not open.
OpenPart(st, kind, key) ==
  LET new  == st.blockByKey[key] = NoBlock
      b    == IF new THEN st.next ELSE st.blockByKey[key]
      kept == IF new THEN [st EXCEPT !.next = @ + 1, !.blockByKey[key] = b] ELSE st
  IN OpenIfNeeded(Unchanged(kept), b, BlockStart(b, kind, key))

\* openFunctionCallBlock; the block is then functions[out].block.
OpenFunction(st, out) ==
  LET new  == st.functions[out] = NoFunction
      b    == IF new THEN st.next ELSE st.functions[out].block
      kept == IF new
              THEN [st EXCEPT !.next = @ + 1,
                              !.functions[out] = [block |-> b, breaks |-> 0]]
              ELSE st
  IN OpenIfNeeded(Unchanged(kept), b, ToolStart(b, PartKey(out, 0), "client"))

WithDelta(p, event) ==
  [Emit(p, event) EXCEPT !.st.hasDelta = @ \cup {event.index}]

\* Mutant: the complete text is sent although its deltas were.
WholeAlways(p, event) == Emit(p, event)

\* The complete text of a part, unless its block had a delta.
WholeIfSilent(p, event) ==
  IF event.index \in p.st.hasDelta THEN p ELSE Emit(p, event)

Failed(p) ==
  LET q == CloseAllOpenBlocks(p)
  IN Emit([q EXCEPT !.st.completed = TRUE], ErrorEvent)

----------------------------------------------------------------------------
(* The handlers.                                                           *)

HandleResponseCreated(st, e) ==
  IF e.body THEN Emit(Unchanged(st), Event("message_start")) ELSE Unchanged(st)

\* Initial and whole arguments are sent without a look at their line breaks.
\* (Nothing else of them matters: no delta that is counted comes before the
\* initial arguments or after the whole.)
Unchecked(delta, tail) ==
  [delta EXCEPT !.reason = IF tail = "breaks" THEN "uncounted" ELSE "none"]

\* A function call, with or without initial arguments.
HandleOutputItemAdded(st, e) ==
  LET p == OpenFunction(st, e.out)
      b == p.st.functions[e.out].block
  IN IF e.body
     THEN WithDelta(p, Unchecked(BlockDelta(b, "input_json", PartKey(e.out, 0)), e.tail))
     ELSE p

\* A compaction or reasoning item ends: its signature, after a default text
\* (THINKING_TEXT, which is no part of the answer) where none was sent (compaction) or none is in the item (reasoning).
HandleOutputItemDone(st, e) ==
  LET key    == PartKey(e.out, 0)
      p      == OpenPart(st, "thinking", key)
      b      == p.st.blockByKey[key]
      silent == IF e.type = "compaction_done" THEN b \notin p.st.hasDelta ELSE ~e.body
      q      == IF silent THEN Emit(p, BlockDelta(b, "thinking", <<>>)) ELSE p
  IN WithDelta(q, BlockDelta(b, "signature", key))

\* Mutant: the run of line breaks is not carried from delta to delta.
BreaksForgotten(count, tail) == IF tail = "breaks" THEN 1 ELSE 0

\* updateWhitespaceRunState.
Breaks(count, tail) ==
  CASE tail = "text" -> 0 [] tail = "breaks" -> count + 1 [] OTHER -> count

HandleFunctionCallArgumentsDelta(st, e) ==
  LET p      == OpenFunction(st, e.out)
      breaks == Breaks(p.st.functions[e.out].breaks, e.tail)
      b      == p.st.functions[e.out].block
  IN IF breaks > MaxWhitespace THEN Failed(p)
     ELSE WithDelta([p EXCEPT !.st.functions[e.out].breaks = breaks],
                    [BlockDelta(b, "input_json", PartKey(e.out, 0))
                       EXCEPT !.reason = e.tail])

HandleFunctionCallArgumentsDone(st, e) ==
  LET p == OpenFunction(st, e.out)
      b == p.st.functions[e.out].block
      q == IF b \in p.st.hasDelta \/ ~e.body THEN p
           ELSE WithDelta(p, Unchecked(WholeDelta(b, "input_json", PartKey(e.out, 0)), e.tail))
  IN [q EXCEPT !.st.functions[e.out] = NoFunction]

HandleOutputTextDelta(st, e) ==
  LET key == PartKey(e.out, e.part)
      p   == OpenPart(st, "text", key)
  IN WithDelta(p, BlockDelta(p.st.blockByKey[key], "text", key))

HandleOutputTextDone(st, e) ==
  LET key == PartKey(e.out, e.part)
      p   == OpenPart(st, "text", key)
  IN IF ~e.body THEN p
     ELSE WholeIfSilent(p, WholeDelta(p.st.blockByKey[key], "text", key))

\* The summaries of an item share its block.
HandleReasoningSummaryTextDelta(st, e) ==
  LET key == PartKey(e.out, 0)
      p   == OpenPart(st, "thinking", key)
  IN WithDelta(p, BlockDelta(p.st.blockByKey[key], "thinking", PartKey(e.out, e.part)))

HandleReasoningSummaryTextDone(st, e) ==
  LET key == PartKey(e.out, 0)
      p   == OpenPart(st, "thinking", key)
  IN IF ~e.body THEN p
     ELSE WholeIfSilent(p, WholeDelta(p.st.blockByKey[key], "thinking", PartKey(e.out, e.part)))

\* completed and incomplete, with the response or without.
HandleResponseCompleted(st, e) ==
  IF ~e.body THEN Failed(Unchanged(st))
  ELSE LET p == CloseAllOpenBlocks(Unchanged(st))
       IN [st  |-> [p.st EXCEPT !.completed = TRUE],
           out |-> p.out \o Terminal("end_turn")]

HandleResponseFailed(st) == Failed(Unchanged(st))

\* The error event closes nothing.
HandleErrorEvent(st) ==
  Emit(Unchanged([st EXCEPT !.completed = TRUE]), ErrorEvent)

TranslateResponsesEvent(st, e) ==
  CASE e.type = "created"          -> HandleResponseCreated(st, e)
    [] e.type = "function_added"   -> HandleOutputItemAdded(st, e)
    [] e.type = "arguments_delta"  -> HandleFunctionCallArgumentsDelta(st, e)
    [] e.type = "arguments_done"   -> HandleFunctionCallArgumentsDone(st, e)
    [] e.type = "text_delta"       -> HandleOutputTextDelta(st, e)
    [] e.type = "text_done"        -> HandleOutputTextDone(st, e)
    [] e.type = "reasoning_delta"  -> HandleReasoningSummaryTextDelta(st, e)
    [] e.type = "reasoning_done"   -> HandleReasoningSummaryTextDone(st, e)
    [] e.type \in {"reasoning_item_done", "compaction_done"}
                                   -> HandleOutputItemDone(st, e)
    [] e.type = "completed"        -> HandleResponseCompleted(st, e)
    [] e.type = "failed"           -> HandleResponseFailed(st)
    [] e.type = "error"            -> HandleErrorEvent(st)
    [] OTHER                       -> Unchanged(st)
=============================================================================
