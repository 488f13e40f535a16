----------------------------- MODULE ModelStream -----------------------------
(***************************************************************************)
(* What becomes of one model answer on its way from the HTTP server to the *)
(* turn it fills: the request with its retries (HTTPTransport.doRequest),  *)
(* the lines of the event stream (util.ParseSSE), the chunks they decode   *)
(* to (parseChunk, parseResponsesChunk) and the text, thoughts, images and *)
(* tool calls runStream assembles from them.                               *)
(*                                                                         *)
(* The channels between these stages, cancellation and fallback belong to  *)
(* QueryRun; here the stages run one after the other.  A text is a         *)
(* sequence of tokens: "_" is white space, "O" and "C" are <think> and     *)
(* </think>, "T" and "V" are <tool_call> blocks that decode, "U" is one    *)
(* that does not, anything else is a word (see Structured output for those *)
(* of JSON).  sent, made and urls are the server's side of the story.      *)
(***************************************************************************)
EXTENDS Integers, SequencesExt

CONSTANTS
  IncludePartialMessages,
  Texts,      \* pieces of text the server may send
  Thoughts,   \* pieces of text it may send as reasoning
  Urls,       \* images it may send
  Args,       \* pieces of tool arguments
  MaxCalls,   \* bound: tool calls of the answer
  MaxLines    \* bound: lines of the stream

\* delta: each content is new text; cumulative: each repeats the text so far;
\* responses: events of the Responses API, which end with the whole text.
ServerKinds == {"delta", "cumulative", "responses"}

Tokens == UNION {{s[i] : i \in DOMAIN s} : s \in Texts \union Thoughts}
Tags == {"O", "C"}

ASSUME ModelStreamAssumption ==
  /\ IncludePartialMessages \in BOOLEAN
  /\ IsFiniteSet(Texts) /\ IsFiniteSet(Thoughts) /\ IsFiniteSet(Urls)
  /\ \A s \in Texts \union Thoughts : s \in Seq(Tokens)
  /\ Args \subseteq Seq(STRING)
  /\ MaxCalls \in Nat /\ MaxLines \in Nat

VARIABLES
  phase,     \* "request", "backoff", "stream", "ended", "done" or "failed"
  attempt,   \* requests refused so far
  server,    \* which of ServerKinds answers
  lines,     \* data lines sent, to bound the stream
  sent,      \* the text the server means
  whole,     \* has it sent the final, whole text?
  made,      \* the tool calls it makes, each with its arguments so far
  urls,      \* the images it sent
  misled,    \* history: a content came that the code may take for another
  block,     \* dataLines of ParseSSE
  broken,    \* an error waits on the transport's error channel
  text,      \* assistantText
  emitted,   \* assistantEmittedText
  reasoning, \* assistantReasoning
  images,    \* assistantImages
  calls      \* pending tool calls by index

said == <<lines, sent, whole, made, urls, misled>>
assembled == <<text, emitted, reasoning, images, calls>>
vars == <<phase, attempt, server, said, block, broken, assembled>>

-----------------------------------------------------------------------------
(* Text.                                                                   *)

IsBlank(s) == \A i \in DOMAIN s : s[i] = "_"

TrimSpace(s) ==
  LET solid == {i \in DOMAIN s : s[i] # "_"}
  IN  IF solid = {} THEN <<>> ELSE SubSeq(s, Min(solid), Max(solid))

\* The members of s at the places in P, in order.
Pick(s, P) ==
  LET upto[n \in 0..Len(s)] ==
        IF n = 0 THEN <<>> ELSE IF n \in P THEN Append(upto[n-1], s[n]) ELSE upto[n-1]
  IN  upto[Len(s)]
Only(s, S) == Pick(s, {i \in DOMAIN s : s[i] \in S})

\* Is place i of s within thoughts?  They begin at an "O" and end at the first
\* "C" after it, or with the text.
Inside(s, i) == \E o \in 1..(i-1) : s[o] = "O" /\ \A c \in o..(i-1) : s[c] # "C"

splitThinkTags(s) ==
  IF ~Contains(s, "O") THEN [clean |-> s, thought |-> <<>>]
  ELSE [clean   |-> TrimSpace(Pick(s, {i \in DOMAIN s : ~Inside(s, i) /\ s[i] # "O"})),
        thought |-> TrimSpace(Pick(s, {i \in DOMAIN s : Inside(s, i) /\ s[i] # "C"}))]

NormalizeNothing(current, incoming) == incoming  \* mutant: no snapshots expected
normalizeAssistantContent(current, incoming) ==
  IF current # <<>> /\ IsPrefix(current, incoming)
  THEN SubSeq(incoming, Len(current) + 1, Len(incoming))
  ELSE incoming

\* Blank deltas are not shown before the first word is.
Shows(shown, content) == ~(IsBlank(shown) /\ IsBlank(content))

-----------------------------------------------------------------------------
(* Structured output: the JSON value in an answer.  "1" is a literal (a     *)
(* string with brackets in it too), "F" a code fence, "L" the line with its *)
(* language; commas, colons and null are left out.                          *)

Pairs == {<<"{", "}">>, <<"[", "]">>}
Opens == {pair[1] : pair \in Pairs}
Closes(open) == (CHOOSE pair \in Pairs : pair[1] = open)[2]

\* json.Unmarshal: a literal, or matching brackets that close at the end only.
Nest(stack, c) ==
  CASE c \in Opens -> Append(stack, c)
    [] stack # <<>> /\ <<Last(stack), c>> \in Pairs -> Front(stack)
    [] stack # <<>> /\ c \in {"1", "_"} -> stack
    [] OTHER -> Append(stack, "bad")
IsJSON(s) ==
  \/ s = <<"1">>
  \/ s # <<>> /\ \A i \in DOMAIN s :
                   FoldLeft(Nest, <<>>, SubSeq(s, 1, i)) = <<>> <=> i = Len(s)

stripCodeFence(s) ==
  LET fences == {i \in 2..Len(s) : s[i] = "F"}
      inner == SubSeq(s, 2, Max(fences) - 1)
  IN  IF s = <<>> \/ s[1] # "F" \/ fences = {} THEN s
      ELSE TrimSpace(IF inner # <<>> /\ inner[1] = "L" THEN Tail(inner) ELSE inner)

\* Is the bracket at i, of the kind that closes with c, balanced at j?
FirstClose(s, i, j) == s[j] = Closes(s[i])  \* mutant: no depth
BalancedAt(s, i, j) ==
  LET count(c) == Cardinality({k \in i..j : s[k] = c})
  IN  count(s[i]) = count(Closes(s[i]))
findBalancedJSON(s) ==
  LET opening == {i \in DOMAIN s : s[i] \in Opens}
      ends == {j \in Min(opening)..Len(s) : BalancedAt(s, Min(opening), j)}
  IN  IF opening = {} \/ ends = {} THEN <<>>
      ELSE SubSeq(s, Min(opening), Min(ends))

\* The first of the three that decodes, or <<>> for nil.
tryParseJSON(s) ==
  LET t == TrimSpace(s)
      decoded == SelectSeq(<<t, stripCodeFence(t), findBalancedJSON(t)>>, IsJSON)
  IN  IF decoded = <<>> THEN <<>> ELSE decoded[1]

parseStructuredOutput(t, thoughts) ==
  IF tryParseJSON(t) # <<>> THEN tryParseJSON(t) ELSE tryParseJSON(thoughts)

-----------------------------------------------------------------------------
(* Chunks (chunkDelta) and what they add to the answer.                    *)

Fragment(index, id, args) == [index |-> index, id |-> id, args |-> args]
NoChunk == [content |-> <<>>, reasoning |-> <<>>, images |-> {}, calls |-> <<>>]

\* Chat content is split; reasoning sent beside it replaces its thoughts.
\* Texts of the Responses API are taken as they are.
ContentChunk(s, r) ==
  LET parts == splitThinkTags(s)
  IN  IF server = "responses" THEN [NoChunk EXCEPT !.content = s]
      ELSE [NoChunk EXCEPT !.content = parts.clean,
                           !.reasoning = IF r # <<>> THEN r ELSE parts.thought]

\* appendNewAssistantImages; order is that of a Go map.
NewImages(have, order) == Pick(order, {i \in DOMAIN order : ~Contains(have, order[i])})

\* A fragment opens or continues the call of its index: an ID replaces the
\* call's, arguments are appended.
NoCall == [id |-> 0, args |-> <<>>]
ReplaceArguments(pending, f) ==  \* mutant: arguments replace what was there
  [i \in DOMAIN pending \union {f.index} |->
    IF i = f.index THEN [id |-> f.id, args |-> f.args] ELSE pending[i]]
AddFragment(pending, f) ==
  LET old == IF f.index \in DOMAIN pending THEN pending[f.index] ELSE NoCall
      new == [id |-> IF f.id # 0 THEN f.id ELSE old.id, args |-> old.args \o f.args]
  IN  [i \in DOMAIN pending \union {f.index} |-> IF i = f.index THEN new ELSE pending[i]]
AddFragments(pending, list) ==
  LET upto[n \in 0..Len(list)] ==
        IF n = 0 THEN pending ELSE AddFragment(upto[n-1], list[n])
  IN  upto[Len(list)]

\* processEvent for a chunk that decoded.
Absorb(ch) ==
  LET content == normalizeAssistantContent(text, ch.content)
      shows == IncludePartialMessages /\ content # <<>> /\ Shows(emitted, content)
  IN  /\ reasoning' = reasoning \o ch.reasoning
      /\ text' = text \o content
      /\ emitted' = IF shows THEN emitted \o content ELSE emitted
      /\ \E order \in SetToSeqs(ch.images) : images' = images \o NewImages(images, order)
      /\ calls' = AddFragments(calls, ch.calls)

\* extractInlineToolCalls: blocks that do not decode leave a gap in the indices.
InlineCalls(r) ==
  LET blocks == Only(r, {"T", "V", "U"})
      good == {i \in DOMAIN blocks : blocks[i] # "U"}
  IN  [i \in {k - 1 : k \in good} |-> [id |-> 0, args |-> <<blocks[i+1]>>]]

\* orderCalls: the calls by increasing index.
orderCalls(pending) ==
  LET max == IF pending = <<>> THEN -1 ELSE Max(DOMAIN pending)
      slots == [k \in 1..max+1 |-> IF k - 1 \in DOMAIN pending THEN pending[k-1] ELSE NoCall]
  IN  Pick(slots, {k \in DOMAIN slots : k - 1 \in DOMAIN pending})

-----------------------------------------------------------------------------
Init ==
  /\ phase = "request" /\ attempt = 0
  /\ server \in ServerKinds
  /\ lines = 0 /\ sent = <<>> /\ whole = FALSE /\ made = <<>> /\ urls = {}
  /\ misled = FALSE
  /\ block = <<>> /\ broken = FALSE
  /\ text = <<>> /\ emitted = <<>> /\ reasoning = <<>> /\ images = <<>>
  /\ calls = <<>>

(* doRequest: three attempts; a 429, a 5xx or no answer at all is retried. *)

Accepted ==
  /\ phase = "request" /\ phase' = "stream"
  /\ UNCHANGED <<attempt, server, said, block, broken, assembled>>

RetryOnce(n) == n < 3  \* mutant: one attempt too many
Retries(n) == n < 2
Refused ==
  /\ phase = "request"
  /\ phase' = IF Retries(attempt) THEN "backoff" ELSE "failed"
  /\ attempt' = attempt + 1
  /\ UNCHANGED <<server, said, block, broken, assembled>>

\* Another 4xx, or a 2xx with neither an event stream nor a usable JSON body.
Rejected ==
  /\ phase = "request" /\ phase' = "failed"
  /\ UNCHANGED <<attempt, server, said, block, broken, assembled>>

BackedOff ==
  /\ phase = "backoff" /\ phase' = "request"
  /\ UNCHANGED <<attempt, server, said, block, broken, assembled>>

-----------------------------------------------------------------------------
(* The lines of the stream.  A comment changes nothing.                    *)

HasTag(s) == \E i \in DOMAIN s : s[i] \in Tags
\* The tags of s come in pairs.
Balanced(s) ==
  /\ ~Inside(s, Len(s) + 1)
  /\ \A i \in DOMAIN s : s[i] \in Tags => (s[i] = "C" <=> Inside(s, i))

\* Contents the code may take for another: tags that do not close in their
\* delta, a delta that begins with all of the text so far, tags in a snapshot
\* or in a Responses event.
Misleading(s) ==
  LET repeats(t) == text # <<>> /\ IsPrefix(text, t)
  IN  \/ server = "delta" /\ (~Balanced(s) \/ repeats(splitThinkTags(s).clean))
      \/ server = "responses" /\ (HasTag(s) \/ repeats(s))
      \/ server = "cumulative" /\ HasTag(s)

Payload(kind, ch) == [kind |-> kind, chunk |-> ch]
DataLine(p) ==
  /\ phase = "stream" /\ lines < MaxLines
  /\ lines' = lines + 1
  /\ block' = Append(block, p)
  /\ UNCHANGED <<phase, attempt, server, broken, assembled>>

DataContent(s) ==
  /\ ~whole
  /\ sent' = sent \o s
  /\ misled' = (misled \/ Misleading(s))
  /\ DataLine(Payload("chunk",
       ContentChunk(IF server = "cumulative" THEN sent \o s ELSE s, <<>>)))
  /\ UNCHANGED <<whole, made, urls>>

\* response.output_text.done and the events that repeat the whole text.
DataWhole ==
  /\ server = "responses"
  /\ whole' = TRUE
  /\ DataLine(Payload("chunk", ContentChunk(sent, <<>>)))
  /\ UNCHANGED <<sent, made, urls, misled>>

\* reasoning or reasoning_content; its Responses events are ignored.
DataReasoning(r) ==
  /\ server # "responses"
  /\ DataLine(Payload("chunk", [NoChunk EXCEPT !.reasoning = r]))
  /\ UNCHANGED <<sent, whole, made, urls, misled>>

DataNewCall(a) ==
  /\ Len(made) < MaxCalls
  /\ made' = Append(made, [id |-> Len(made) + 1, args |-> a])
  /\ DataLine(Payload("chunk",
       [NoChunk EXCEPT !.calls = <<Fragment(Len(made), Len(made) + 1, a)>>]))
  /\ UNCHANGED <<sent, whole, urls, misled>>

DataArguments(k, a) ==
  /\ made' = [made EXCEPT ![k].args = @ \o a]
  /\ DataLine(Payload("chunk", [NoChunk EXCEPT !.calls = <<Fragment(k - 1, 0, a)>>]))
  /\ UNCHANGED <<sent, whole, urls, misled>>

\* response.function_call_arguments.done: all arguments, appended once more.
DataWholeCall(k) ==
  /\ server = "responses"
  /\ DataLine(Payload("chunk",
       [NoChunk EXCEPT !.calls = <<Fragment(k - 1, made[k].id, made[k].args)>>]))
  /\ UNCHANGED <<sent, whole, made, urls, misled>>

DataImages(S) ==
  /\ urls' = urls \union S
  /\ DataLine(Payload("chunk", [NoChunk EXCEPT !.images = S]))
  /\ UNCHANGED <<sent, whole, made, misled>>

\* An error object, which runStream reports and outlives, or an ignored event.
DataOther ==
  /\ DataLine(Payload("other", NoChunk))
  /\ UNCHANGED <<sent, whole, made, urls, misled>>
DataEnd ==
  /\ DataLine(Payload("[DONE]", NoChunk))
  /\ UNCHANGED <<sent, whole, made, urls, misled>>

Data ==
  \/ \E s \in Texts : DataContent(s)
  \/ \E r \in Thoughts : DataReasoning(r)
  \/ \E a \in Args : DataNewCall(a)
  \/ \E k \in DOMAIN made : DataWholeCall(k) \/ \E a \in Args : DataArguments(k, a)
  \/ \E S \in SUBSET Urls \ {{}} : DataImages(S)
  \/ DataWhole \/ DataOther \/ DataEnd

\* flush: the data lines of a block are one JSON value; two values are none.
Decodes == Len(block) = 1
Flush(cut) ==
  /\ block' = <<>>
  /\ broken' = (broken \/ cut \/ Len(block) > 1)
  /\ IF Decodes /\ block[1].kind = "chunk" THEN Absorb(block[1].chunk)
     ELSE UNCHANGED assembled

BlankLine ==
  /\ phase = "stream" /\ block # <<>>
  /\ Flush(FALSE)
  /\ phase' = IF Decodes /\ block[1].kind = "[DONE]" THEN "ended" ELSE "stream"
  /\ UNCHANGED <<attempt, server, said>>

\* The body ends: what is left is flushed; a cut connection is an error.
BodyEnds ==
  /\ phase = "stream" /\ phase' = "ended"
  /\ \E cut \in BOOLEAN : Flush(cut)
  /\ UNCHANGED <<attempt, server, said>>

\* A JSON body instead of a stream: one chunk with the whole message.
JSONBody(s, r, list) ==
  /\ phase = "request" /\ phase' = "ended"
  /\ server = "delta"
  /\ sent' = s /\ made' = list
  /\ misled' = ~Balanced(s)
  /\ Absorb([ContentChunk(s, r) EXCEPT
       !.calls = [k \in DOMAIN list |-> Fragment(k - 1, list[k].id, list[k].args)]])
  /\ UNCHANGED <<attempt, server, lines, whole, urls, block, broken>>

-----------------------------------------------------------------------------
(* The end of runStream.                                                   *)

\* An error on the transport's channel is met before the stream is left, and
\* maybe before its last events.
BreakOff ==
  /\ phase \in {"stream", "ended"} /\ broken
  /\ phase' = "failed"
  /\ UNCHANGED <<attempt, server, said, block, broken, assembled>>

\* Calls written into the reasoning count if there are no others.
NeedsInline(pending) == pending = <<>>
Finish ==
  /\ phase = "ended" /\ ~broken
  /\ phase' = "done"
  /\ calls' = IF NeedsInline(calls) THEN InlineCalls(TrimSpace(reasoning)) ELSE calls
  /\ UNCHANGED <<attempt, server, said, block, broken, text, emitted, reasoning, images>>

Request ==
  \/ Accepted \/ Refused \/ Rejected \/ BackedOff
  \/ \E s \in Texts, r \in Thoughts \union {<<>>}, n \in 0..MaxCalls :
       \E a \in [1..n -> Args] : JSONBody(s, r, [k \in 1..n |-> [id |-> k, args |-> a[k]]])
Next == Request \/ Data \/ BlankLine \/ BodyEnds \/ BreakOff \/ Finish

Spec == Init /\ [][Next]_vars

-----------------------------------------------------------------------------
(* Correctness.                                                            *)

ChunkType ==
  [content : Seq(Tokens), reasoning : Seq(Tokens), images : SUBSET Urls,
   calls : Seq([index : Nat, id : Nat, args : Seq(STRING)])]

\* Types; at most three requests are made, and none waits after the third.
TypeOK ==
  /\ phase \in {"request", "backoff", "stream", "ended", "done", "failed"}
  /\ attempt \in 0..3 /\ (phase \in {"request", "backoff"} => attempt <= 2)
  /\ server \in ServerKinds
  /\ lines \in 0..MaxLines /\ whole \in BOOLEAN /\ misled \in BOOLEAN
  /\ broken \in BOOLEAN /\ urls \subseteq Urls /\ Len(made) <= MaxCalls
  /\ {sent, text, emitted, reasoning} \subseteq Seq(Tokens)
  /\ images \in Seq(Urls)
  /\ block \in Seq([kind : {"chunk", "other", "[DONE]"}, chunk : ChunkType])
  /\ \A i \in DOMAIN calls : i \in Nat /\ calls[i].id \in Nat

\* The words of s outside of its thoughts.
Words(s) == Pick(s, {i \in DOMAIN s : s[i] \notin Tags \union {"_"} /\ ~Inside(s, i)})

\* The answer has exactly the words the server sent outside of its thoughts, in
\* order: whether it sends new text, snapshots, or the whole text again at the
\* end; unless a content came that the code may take for another.
TextExact ==
  phase = "done" /\ ~misled => Words(text) = Words(sent)

\* The tool loop gets every call the chat server made, with its ID and all of
\* its arguments, however the fragments of several calls were mixed; without such
\* calls it gets those the model wrote into its thoughts, in order.
CallsFound ==
  phase = "done" =>
    LET names == Only(reasoning, {"T", "V"})
    IN  /\ server # "responses" /\ made # <<>> => orderCalls(calls) = made
        /\ made = <<>> =>
             orderCalls(calls) = [k \in DOMAIN names |-> [id |-> 0, args |-> <<names[k]>>]]

\* s is the JSON value v, has it in a fence, or prose and v from the first
\* bracket on.
Carries(s, v) ==
  /\ IsJSON(v)
  /\ \/ s = v
     \/ \E lang \in {<<>>, <<"L">>} : s = <<"F">> \o lang \o v \o <<"F">>
     \/ \E i \in DOMAIN s : /\ s[1] # "F" /\ \A k \in 1..i : s[k] \in Opens <=> k = i
                           /\ IsPrefix(v, SubSeq(s, i, Len(s)))

\* With an OutputFormat the value the server put into its text is the result's,
\* and the value in the thoughts if the text has none.
StructuredFound ==
  phase = "done" /\ ~misled =>
    LET found == Words(parseStructuredOutput(text, reasoning))
        within(s) == {v \in SubSeqs(s) : Carries(s, v)}
    IN  /\ within(Words(sent)) \subseteq {found}
        /\ within(Words(sent)) = {} => within(Words(reasoning)) \subseteq {found}

=============================================================================
