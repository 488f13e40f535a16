------------------------------ MODULE Transcript ------------------------------
(***************************************************************************)
(* What is left of a conversation: the user's content and the answer of a  *)
(* turn (ModelStream) with its calls and their results, as the consumer    *)
(* got them, as the session's history keeps them, as JSON in the store     *)
(* file, and as GetSessionMessages reads them back in another process.     *)
(* That sessions get to the file is SessionStore's affair.                 *)
(*                                                                         *)
(* A content block has a kind, the Go type it is, and a tag, its Type      *)
(* field, which a caller may leave empty.  The text of call k's result is  *)
(* <<"r", k>>.                                                             *)
(***************************************************************************)
EXTENDS ModelStream

CONSTANTS
  UserTexts,  \* texts the user may send
  Objects     \* arguments that decode to a JSON object

BlockTypes == {"text", "image", "image_url", "file", "input_audio", "video_url",
               "thinking", "tool_use", "tool_result"}
Nothing == <<>>  \* the zero value of a field
Block(kind, data) == [kind |-> kind, tag |-> kind, data |-> data]

-----------------------------------------------------------------------------
(* Content of the user.                                                    *)

Text(t) == [is |-> "text", text |-> t]
Blocks(blocks) == [is |-> "blocks", blocks |-> blocks]
InputTypes == {"text", "image_url", "file", "input_audio", "video_url"}
Input(type, payload) == Block(type, payload)

\* With no blocks at all it is null, which reads as a text.
historyUserContent(content) ==
  IF content = Blocks(<<>>) THEN [is |-> "null"] ELSE content

\* JSON to a block: an unknown or empty tag is a text's, whose fields others lack.
UnmarshalContentBlock(json) ==
  LET kind == IF json.tag \in BlockTypes THEN json.tag ELSE "text"
  IN  [kind |-> kind, tag |-> json.tag, data |-> IF json.kind = kind THEN json.data ELSE Nothing]

\* The content of a tool result is a text or blocks.
UnmarshalToolResult(json) ==
  [json EXCEPT !.data.content =
     IF @.is = "text" THEN Blocks(<<Block("text", @.text)>>)
     ELSE Blocks([i \in DOMAIN @.blocks |-> UnmarshalContentBlock(@.blocks[i])])]

UnmarshalJSON(json) ==
  CASE json.is = "null" -> Text(<<>>)
    [] json.is = "text" -> json
    [] OTHER -> Blocks([i \in DOMAIN json.blocks |->
                  LET b == json.blocks[i]
                  IN  IF b.kind = "tool_result" /\ b.tag = b.kind THEN UnmarshalToolResult(b)
                      ELSE UnmarshalContentBlock(b)])

parseUserContentValue(json) ==
  IF json.is = "text" THEN Text(json.text) ELSE UnmarshalJSON(json)

-----------------------------------------------------------------------------
(* The turn as the consumer gets it.                                       *)

answer == TrimSpace(text)
answerReasoning == TrimSpace(reasoning)

\* Without partial messages the answer is one message.
assistantContentBlocks(t, r, pictures) ==
  (IF IsBlank(r) THEN <<>> ELSE <<Block("thinking", r)>>)
  \o (IF IsBlank(t) THEN <<>> ELSE <<Block("text", t)>>)
  \o [i \in DOMAIN pictures |-> Block("image", pictures[i])]

\* json.Unmarshal into an empty map, which stays empty if that fails.
argsMap(args) == IF args \in Objects THEN args ELSE Nothing
ToolUse(id, args) == Block("tool_use", [id |-> id, input |-> args])
ToolResult(id, result) ==
  Block("tool_result", [id |-> id, content |-> Blocks(<<Block("text", result)>>)])

ResultOf(k) == <<"r", k>>
toolMessages(list) ==
  FlattenSeq([k \in DOMAIN list |-> <<ToolUse(list[k].id, argsMap(list[k].args)),
                                      ToolResult(list[k].id, ResultOf(k))>>])

-----------------------------------------------------------------------------
(* The turn in the session's history.                                      *)

encodeHistoryImages(pictures) == [i \in DOMAIN pictures |-> [nested |-> TRUE, url |-> pictures[i]]]

assistantHistory(t, r, pictures, list) ==
  [role |-> "assistant", content |-> t, reasoning |-> r,
   images |-> encodeHistoryImages(pictures),
   tool_calls |-> [k \in DOMAIN list |-> [id |-> list[k].id, arguments |-> list[k].args]]]
toolResultsHistory(list) ==
  [k \in DOMAIN list |-> [role |-> "tool", tool_call_id |-> list[k].id, content |-> ResultOf(k)]]
stored(prompt, content, t, r, pictures, list) ==
  (IF prompt = <<>> THEN <<>> ELSE <<[role |-> "system", content |-> prompt]>>)
  \o <<[role |-> "user", content |-> historyUserContent(content)],
       assistantHistory(t, r, pictures, list)>>
  \o toolResultsHistory(list)

-----------------------------------------------------------------------------
(* Reading it back.                                                        *)

FlatURL(image) == IF image.nested THEN <<>> ELSE image.url  \* mutant: only flat images are read
imageURL(image) == image.url
parseArgumentsValue(args) == IF args \in Objects THEN args ELSE Nothing

assistantBlocks(raw) ==
  LET blocks == (IF raw.content = <<>> THEN <<>> ELSE <<Block("text", raw.content)>>)
                \o [i \in DOMAIN raw.images |-> Block("image", imageURL(raw.images[i]))]
                \o [k \in DOMAIN raw.tool_calls |->
                      ToolUse(raw.tool_calls[k].id, parseArgumentsValue(raw.tool_calls[k].arguments))]
  IN  IF blocks = <<>> THEN <<Block("text", <<>>)>> ELSE blocks

persistedSessionMessage(raw) ==
  CASE raw.role = "system" -> [type |-> "system", content |-> Text(raw.content)]
    [] raw.role = "user" -> [type |-> "user", content |-> parseUserContentValue(raw.content)]
    [] raw.role = "assistant" -> [type |-> "assistant", content |-> Blocks(assistantBlocks(raw))]
    [] OTHER -> [type |-> "assistant",
                 content |-> Blocks(<<ToolResult(raw.tool_call_id, raw.content)>>)]

GetSessionMessages(messages) ==
  [i \in DOMAIN messages |-> persistedSessionMessage(messages[i])]

-----------------------------------------------------------------------------
(* What is read back is what was said.                                     *)

\* Blocks as the constructors of input.go make them, and a tool result.
SomeBlocks ==
  {Input(type, t) : type \in InputTypes, t \in UserTexts}
  \union {ToolResult(1, t) : t \in UserTexts}
UserContents ==
  {Text(t) : t \in UserTexts}
  \union {Blocks(list) : list \in UNION {[1..n -> SomeBlocks] : n \in 1..2}}

\* The blocks of a kind that say something.
Says(b, kind) == b.kind = kind /\ (kind = "text" => ~IsBlank(b.data))
OfKind(blocks, kind) == Pick(blocks, {i \in DOMAIN blocks : Says(blocks[i], kind)})

\* A session read back says what was said.  The user's content is the same.  The
\* answer has the text, the images and the calls with the arguments the consumer
\* got, each once and in that order, and the results those calls got; what was
\* shown piece by piece (IncludePartialMessages) is that text, and every image the
\* server sent is there.  Thoughts are not read back.
ReadBack ==
  /\ phase = "request" /\ attempt = 0 =>
       \A content \in UserContents : parseUserContentValue(historyUserContent(content)) = content
  /\ IncludePartialMessages => TrimSpace(emitted) = answer
  /\ phase = "done" =>
       LET list == orderCalls(calls)
           delivered == assistantContentBlocks(answer, answerReasoning, images) \o toolMessages(list)
           read == GetSessionMessages(stored(answer, Text(answer), answer, answerReasoning, images, list))
           blocks == FlattenSeq([i \in DOMAIN read |->
                       IF read[i].type = "assistant" THEN read[i].content.blocks ELSE <<>>])
       IN  /\ \A kind \in {"text", "image", "tool_use", "tool_result"} :
                OfKind(blocks, kind) = OfKind(delivered, kind)
           /\ IsInjective(images) /\ Range(images) = urls
=============================================================================
