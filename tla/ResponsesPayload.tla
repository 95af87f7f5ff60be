-------------------------- MODULE ResponsesPayload --------------------------
(***************************************************************************)
(* src/routes/messages/responses-translation.ts: a conversation as the     *)
(* input items of a Responses request, and a Responses answer as the       *)
(* content of an assistant message; and compactInputByLatestCompaction of  *)
(* src/routes/responses/utils.ts, which cuts the input at a compaction.    *)
(* A reasoning item's encrypted content and identity travel through the    *)
(* client in the signature of a thinking block, a compaction item's in a   *)
(* signature of its own form.  A call is its identity: the arguments that  *)
(* travel with it, parsed for the client and printed again for upstream,   *)
(* are left out.                                                           *)
(***************************************************************************)
EXTENDS UserContent

Item(type, role, call, content, of, summary) ==
  [type |-> type, role |-> role, call |-> call, content |-> content, of |-> of,
   summary |-> summary]

MessageItem(role, content)  == Item("message", role, <<>>, content, <<>>, <<>>)
FunctionCall(call)          == Item("function_call", "assistant", call, <<>>, <<>>, <<>>)
FunctionCallOutput(call, c) == Item("function_call_output", "user", call, c, <<>>, <<>>)
Reasoning(of, summary)      == Item("reasoning", "assistant", <<>>, <<>>, of, summary)
Compaction(of)              == Item("compaction", "assistant", <<>>, <<>>, of, <<>>)

InputPart(block) == [type |-> block.type, id |-> block.id]

convertToolResultContent(content) == [i \in DOMAIN content |-> InputPart(content[i])]

\* Mutant of createReasoningContent: the placeholder is sent as a summary.
SummaryAsShown(block) == Reasoning(block.signature.of, << block.text >>)

\* The placeholder stands for a reasoning item without a summary.
createReasoningContent(block) ==
  Reasoning(block.signature.of,
            IF block.text \in {NoText, THINKING_TEXT} THEN <<>> ELSE << block.text >>)

\* The item a block becomes on its own; a block that becomes none is content of the
\* message around it.  Thinking without the gateway's signature becomes neither.
OwnItem(block) ==
  CASE block.type = "tool_use"    -> << FunctionCall(block.call) >>
    [] block.type = "tool_result" ->
         << FunctionCallOutput(block.call, convertToolResultContent(block.content)) >>
    [] block.type = "thinking" /\ block.signature.by = "compaction" ->
         << Compaction(block.signature.of) >>
    [] block.type = "thinking" /\ block.signature.by = "responses" ->
         << createReasoningContent(block) >>
    [] OTHER -> <<>>

MessagePart(block) ==
  IF block.type \in {"text"} \cup Attachments THEN << InputPart(block) >> ELSE <<>>

flushPendingContent(role, pending) ==
  IF pending = <<>> THEN <<>> ELSE << MessageItem(role, pending) >>

\* Blocks in their order; content between two items of their own makes one message.
translateMessage(message) ==
  LET step(acc, block) ==
        IF OwnItem(block) # <<>>
          THEN [items   |-> acc.items \o flushPendingContent(message.role, acc.pending)
                                      \o OwnItem(block),
                pending |-> <<>>]
          ELSE [acc EXCEPT !.pending = @ \o MessagePart(block)]
      after[k \in 0..Len(message.content)] ==
        IF k = 0 THEN [items |-> <<>>, pending |-> <<>>]
                 ELSE step(after[k - 1], message.content[k])
      all == after[Len(message.content)]
  IN all.items \o flushPendingContent(message.role, all.pending)

translateAnthropicMessagesToResponsesPayload(messages) ==
  FlattenSeq([m \in DOMAIN messages |-> translateMessage(messages[m])])

\* What came before the latest compaction item is in it.
compactInputByLatestCompaction(items) ==
  LET latest == SelectLastInSeq(items, LAMBDA item : item.type = "compaction")
  IN IF latest = 0 THEN items ELSE SubSeq(items, latest, Len(items))

----------------------------------------------------------------------------
(* The answer.                                                             *)

\* Texts and refusals alike, joined.
combineMessageTextContent(content) == FlattenSeq([i \in DOMAIN content |-> content[i].id])

trim(text) ==
  LET marks == {i \in DOMAIN text : text[i] # Blank}
  IN IF marks = {} THEN NoText ELSE SubSeq(text, Min(marks), Max(marks))

extractReasoningText(item) ==
  IF item.summary = <<>> THEN THINKING_TEXT ELSE trim(FlattenSeq(item.summary))

\* An item whose text is empty leaves no block; with it goes the reasoning's signature.
OutputBlocks(item) ==
  LET thinking(text, by) == Thinking(text, [by |-> by, of |-> item.of])
      unless(text, block) == IF text = NoText THEN <<>> ELSE << block >>
      summary == extractReasoningText(item)
      said    == combineMessageTextContent(item.content)
  IN CASE item.type = "reasoning"     -> unless(summary, thinking(summary, "responses"))
       [] item.type = "compaction"    -> << thinking(THINKING_TEXT, "compaction") >>
       [] item.type = "function_call" -> << ToolUse(item.call) >>
       [] item.type = "message"       -> unless(said, Text(said, "plain"))

\* A Responses result: its status, why it is incomplete, its output items.
Result(status, reason, output) == [status |-> status, reason |-> reason, output |-> output]

mapResponsesStopReason(response) ==
  LET calls == {i \in DOMAIN response.output : response.output[i].type = "function_call"}
  IN CASE response.status = "completed" -> IF calls # {} THEN "tool_use" ELSE "end_turn"
       [] response.status = "incomplete" /\ response.reason = "max_output_tokens" -> "max_tokens"
       [] response.status = "incomplete" /\ response.reason = "content_filter"    -> "end_turn"
       [] OTHER -> "null"

translateResponsesResultToAnthropic(response) ==
  [content     |-> FlattenSeq([i \in DOMAIN response.output |-> OutputBlocks(response.output[i])]),
   stop_reason |-> mapResponsesStopReason(response)]
=============================================================================
