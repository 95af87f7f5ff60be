---------------------------- MODULE UserContent ----------------------------
(***************************************************************************)
(* What src/routes/messages/preprocess.ts does to the messages of a        *)
(* request before they are translated: texts and attachments that stand    *)
(* beside tool results are folded into the results, and thinking that      *)
(* Claude did not sign is left out.  A block is a record; texts carry an   *)
(* identity and what the code looks for in them (`says`), a tool result    *)
(* whether its content is a string, a list of blocks or absent.  The parts *)
(* joined into one string are kept as a sequence.                          *)
(***************************************************************************)
EXTENDS Naturals, Sequences, SequencesExt, FiniteSetsExt

\* What upstream says is a text of marks, so that joining texts joins their marks: none
\* is the empty text, a blank is white space, one mark alone the placeholder "Thinking...".
NoText        == <<>>
Blank         == 0
THINKING_TEXT == <<1>>

\* Signatures: who made the encrypted content, and the content's identity.
NoSignature == [by |-> "nobody", of |-> <<>>]

\* Only the gateway writes an "@" into a signature, for the Responses API.
HasAt(signature) == signature.by \in {"responses", "compaction"}

Text(id, says)         == [type |-> "text", id |-> id, says |-> says]
Image(id)              == [type |-> "image", id |-> id]
Document(id)           == [type |-> "document", id |-> id]
ToolReference(id)      == [type |-> "tool_reference", id |-> id]
Thinking(text, sig)    == [type |-> "thinking", text |-> text, signature |-> sig]
ToolUse(call)          == [type |-> "tool_use", call |-> call]
ToolResult(call, form, content, error) ==
  [type |-> "tool_result", call |-> call, form |-> form, content |-> content, error |-> error]

\* The elements of s at the positions in `where`, and those positions, in their order.
Only(s, where)    == FlattenSeq([i \in DOMAIN s |-> IF i \in where THEN <<s[i]>> ELSE <<>>])
InOrder(s, where) == Only([i \in DOMAIN s |-> i], where)

OfType(content, types) == Only(content, {i \in DOMAIN content : content[i].type \in types})

Attachments == {"image", "document"}

hasToolRef(result) ==
  result.form = "blocks" /\ OfType(result.content, {"tool_reference"}) # <<>>

----------------------------------------------------------------------------
(* Texts beside tool results.                                              *)

\* A result that names a tool is left as it is: the texts are discarded.
mergeContentWithTexts(result, texts) ==
  IF hasToolRef(result)
    THEN result
    ELSE ToolResult(result.call, IF result.form = "none" THEN "blocks" ELSE result.form,
                    result.content \o texts, result.error)

\* As many texts as results: one each.  Otherwise all of them to the last result.
mergeToolResult(results, texts) ==
  [i \in DOMAIN results |->
     IF Len(results) = Len(texts)
       THEN mergeContentWithTexts(results[i], <<texts[i]>>)
       ELSE IF i = Len(results) THEN mergeContentWithTexts(results[i], texts)
                                ELSE results[i]]

----------------------------------------------------------------------------
(* Attachments beside tool results.                                        *)

getMergeableToolResultIndices(results) ==
  InOrder(results, {i \in DOMAIN results : ~results[i].error /\ ~hasToolRef(results[i])})

startsWithPdfFileRead(result) ==
  /\ result.content # <<>>
  /\ Head(result.content).type = "text"
  /\ Head(result.content).says = "pdf"
  /\ result.form = "blocks" => OfType(result.content, {"document"}) = <<>>

\* Mutant of assignAttachmentsToToolResults: attachments that match in number only.
AssignInPairsOnly(target, positions, indices, fallback) ==
  [r \in DOMAIN target |->
     target[r] \cup {positions[k] : k \in {j \in DOMAIN indices :
                        indices[j] = r /\ Len(indices) = Len(positions)}}]

\* `target`: for every result, the positions in the content of the attachments it is given.
assignAttachmentsToToolResults(target, positions, indices, fallback) ==
  IF Len(indices) = Len(positions)
    THEN [r \in DOMAIN target |->
            target[r] \cup {positions[k] : k \in {j \in DOMAIN indices : indices[j] = r}}]
    ELSE [r \in DOMAIN target |->
            IF fallback # <<>> /\ r = Last(fallback) THEN target[r] \cup ToSet(positions)
                                                      ELSE target[r]]

\* Documents go to the results that read a PDF, in order; what remains goes one to each
\* remaining result when the numbers agree, else all to the last result.
AttachmentTargets(results, content) ==
  LET attached(types) == InOrder(content, {i \in DOMAIN content : content[i].type \in types})
      positions == attached(Attachments)
      documents == attached({"document"})
      mergeable == getMergeableToolResultIndices(results)
      reads     == InOrder(results, {r \in ToSet(mergeable) : startsWithPdfFileRead(results[r])})
      matched   == Min({Len(documents), Len(reads)})
      readers   == SubSeq(reads, 1, matched)
      matchedDocuments == SubSeq(documents, 1, matched)
      none == [r \in DOMAIN results |-> {}]
  IN assignAttachmentsToToolResults(
       assignAttachmentsToToolResults(none, matchedDocuments, readers, readers),
       InOrder(content, ToSet(positions) \ ToSet(matchedDocuments)),
       InOrder(results, ToSet(mergeable) \ ToSet(readers)),
       mergeable)

\* A result takes its attachments in the order in which they stood.
mergeAttachmentsForToolResults(results, content) ==
  LET targets == AttachmentTargets(results, content)
  IN [r \in DOMAIN results |->
        IF targets[r] = {} THEN results[r]
        ELSE ToolResult(results[r].call, "blocks",
                        results[r].content \o Only(content, targets[r]), results[r].error)]

mergeUserMessageContent(content) ==
  LET results == OfType(content, {"tool_result"})
      texts   == OfType(content, {"text"})
  IN IF results = <<>> \/ Len(results) = Len(content) THEN content
     ELSE mergeAttachmentsForToolResults(
            IF texts = <<>> THEN results ELSE mergeToolResult(results, texts), content)

----------------------------------------------------------------------------
(* The passes over a request's messages.  A message's content is a string  *)
(* (one text) or a list of blocks; only lists are rewritten.               *)

WithContent(message, content) == [message EXCEPT !.content = content]

IsList(message) == message.role = "user" /\ message.form = "blocks"

stripToolReferenceTurnBoundary(messages) ==
  [m \in DOMAIN messages |->
     IF IsList(messages[m])
          /\ \E i \in DOMAIN messages[m].content :
               /\ messages[m].content[i].type = "tool_result"
               /\ hasToolRef(messages[m].content[i])
       THEN WithContent(messages[m],
              Only(messages[m].content,
                   {i \in DOMAIN messages[m].content :
                      messages[m].content[i].type = "text"
                        => messages[m].content[i].says # "boundary"}))
       ELSE messages[m]]

\* getCompactType: a request to compact the conversation.  Its last message asks for the
\* summary, or its system prompt does and the last message does not go on after one.
IsCompactRequest(messages, system) ==
  LET texts == OfType(Last(messages).content, {"text"})
      asked == Last(messages).role = "user" /\ texts # <<>>
  IN \/ asked /\ \E i \in DOMAIN texts : texts[i].says = "compact"
     \/ system = "compact" /\ ~(asked /\ Head(texts).says = "continue")

mergeToolResultForClaude(messages, skipLastMessage) ==
  [m \in DOMAIN messages |->
     IF IsList(messages[m]) /\ ~(skipLastMessage /\ m = Len(messages))
       THEN WithContent(messages[m], mergeUserMessageContent(messages[m].content))
       ELSE messages[m]]

\* Thinking that Claude takes back: text and a signature that is not the gateway's.
IsClaudeThinking(block) ==
  /\ block.text \notin {NoText, THINKING_TEXT}
  /\ block.signature # NoSignature
  /\ ~HasAt(block.signature)

filterAssistantThinkingBlocks(messages) ==
  [m \in DOMAIN messages |->
     IF messages[m].role = "assistant"
       THEN WithContent(messages[m],
              Only(messages[m].content,
                   {i \in DOMAIN messages[m].content :
                      messages[m].content[i].type = "thinking"
                        => IsClaudeThinking(messages[m].content[i])}))
       ELSE messages[m]]

\* What handleCompletion has made of the messages when it picks the upstream API.
Prepared(messages, system) ==
  mergeToolResultForClaude(stripToolReferenceTurnBoundary(messages),
                           IsCompactRequest(messages, system))
=============================================================================
