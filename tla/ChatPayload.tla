---------------------------- MODULE ChatPayload ----------------------------
(***************************************************************************)
(* src/routes/messages/non-stream-translation.ts: a conversation as the    *)
(* messages of a chat-completions request, and a chat-completions answer   *)
(* as the content of an assistant message.  A joined text is the sequence  *)
(* of its parts.                                                           *)
(***************************************************************************)
EXTENDS UserContent

Part(type, id) == [type |-> type, id |-> id]

\* createDocumentTextPart: a document cannot be sent; the same notice stands for each.
Notice == Part("notice", <<>>)

mapContent(content) ==
  LET parts == OfType(content, {"text", "tool_reference"} \cup Attachments)
  IN [i \in DOMAIN parts |->
        IF parts[i].type = "document" THEN Notice ELSE Part(parts[i].type, parts[i].id)]

ChatMessage(role, content) ==
  [role |-> role, content |-> content, call |-> <<>>,
   reasoning_text |-> <<>>, reasoning_opaque |-> NoSignature, tool_calls |-> <<>>]

\* Tool results first: a call's answer must follow the call.
handleUserMessage(message) ==
  LET results == OfType(message.content, {"tool_result"})
      others  == Only(message.content,
                      {i \in DOMAIN message.content : message.content[i].type # "tool_result"})
  IN [i \in DOMAIN results |->
        [ChatMessage("tool", mapContent(results[i].content)) EXCEPT !.call = results[i].call]]
     \o IF others = <<>> THEN <<>> ELSE << ChatMessage("user", mapContent(others)) >>

handleAssistantMessage(message, toClaude) ==
  LET thoughts == OfType(message.content, {"thinking"})
      thinking == Only(thoughts, {i \in DOMAIN thoughts : toClaude => IsClaudeThinking(thoughts[i])})
      said     == Only(thinking,
                       {i \in DOMAIN thinking : thinking[i].text \notin {NoText, THINKING_TEXT}})
      signed   == Only(thinking, {i \in DOMAIN thinking : thinking[i].signature # NoSignature})
      calls    == OfType(message.content, {"tool_use"})
  IN << [ChatMessage("assistant", mapContent(message.content)) EXCEPT
           !.reasoning_text   = [i \in DOMAIN said |-> said[i].text],
           !.reasoning_opaque = IF signed = <<>> THEN NoSignature ELSE Head(signed).signature,
           !.tool_calls       = [i \in DOMAIN calls |-> calls[i].call]] >>

translateToOpenAI(messages, toClaude) ==
  FlattenSeq([m \in DOMAIN messages |->
    IF messages[m].role = "user" THEN handleUserMessage(messages[m])
                                 ELSE handleAssistantMessage(messages[m], toClaude)])

----------------------------------------------------------------------------
(* The answer: choices, each with at most one text, its reasoning and its  *)
(* calls.                                                                  *)

Choice(text, reasoning_text, reasoning_opaque, tool_calls, finish_reason) ==
  [text |-> text, reasoning_text |-> reasoning_text, reasoning_opaque |-> reasoning_opaque,
   tool_calls |-> tool_calls, finish_reason |-> finish_reason]

\* Reasoning that is only signed is given a text, since clients drop empty thinking.
getAnthropicThinkBlocks(choice) ==
  CASE choice.reasoning_text # NoText ->
         << Thinking(choice.reasoning_text, choice.reasoning_opaque) >>
    [] choice.reasoning_text = NoText /\ choice.reasoning_opaque # NoSignature ->
         << Thinking(THINKING_TEXT, choice.reasoning_opaque) >>
    [] OTHER -> <<>>

ChoiceContent(choice) ==
  getAnthropicThinkBlocks(choice)
    \o (IF choice.text = NoText THEN <<>> ELSE << Text(choice.text, "plain") >>)
    \o [i \in DOMAIN choice.tool_calls |-> ToolUse(choice.tool_calls[i])]

\* The first choice's reason, unless a later one calls tools or the one held is "stop".
ChoicesStopReason(choices) ==
  LET reason(k) == choices[k].finish_reason
      held[k \in DOMAIN choices] ==
        IF k = 1 \/ reason(k) = "tool_calls" \/ held[k - 1] = "stop" THEN reason(k)
                                                                     ELSE held[k - 1]
  IN held[Len(choices)]

translateToAnthropic(choices) ==
  [content     |-> FlattenSeq([i \in DOMAIN choices |-> ChoiceContent(choices[i])]),
   stop_reason |-> IF ChoicesStopReason(choices) = "tool_calls" THEN "tool_use" ELSE "end_turn"]
=============================================================================
