--------------------------- MODULE NativeEndpoints ---------------------------
(***************************************************************************)
(* The calls of LM Studio's own endpoints: loading and unloading a model,  *)
(* downloading one and asking how far it is, a chat the server keeps, a    *)
(* completion, and the list of models.  Each call of the SDK posts or gets *)
(* once, waits for the answer or its timeout and never tries again; only   *)
(* the list of models has a second endpoint.  The server may refuse,       *)
(* answer with an error and status 200, do what it was asked and answer    *)
(* nothing or something else, answer late or never.                        *)
(*                                                                         *)
(* Calls are numbered.  What the server makes for a call, an instance, a   *)
(* job or a response, has the call's number for its ID; 0 is the empty ID. *)
(***************************************************************************)
EXTENDS Requests

CONSTANTS
  Callers,      \* goroutines: each waits for a call to return
  Uses,         \* what callers do: the options they list, the kinds and number of calls
  Models,       \* the models the server has
  Names,        \* the models calls ask for, Models and blank texts among them
  MaxCalls      \* bound on the calls of every use

Kinds == {"load", "unload", "download", "status", "chat", "native", "list"}
ASSUME NativeAssumption ==
  /\ \A u \in Uses : u.kinds \subseteq Kinds /\ u.calls \in 1..MaxCalls
  /\ Models \subseteq Names
  /\ MaxCalls \in Nat /\ {"", Blank} \intersect Models = {}

VARIABLES
  opts,       \* the options, defaults applied
  use,        \* of Uses
  calls,      \* the calls, in the order they were made
  loaded, jobs, chats    \* the server: instances, downloads and stored responses

server == <<loaded, jobs, chats>>
vars == <<opts, use, calls, server>>

-----------------------------------------------------------------------------
(* Where a call goes and how long it waits.                                *)

Native == <<"api", "v0">>
NativeV1 == <<"api", "v1">>
deriveNativeBase(base) ==
  IF IsSuffix(<<"v1">>, base) THEN Front(base) \o Native
  ELSE IF IsSuffix(Native, base) THEN base ELSE base \o Native
\* A base of .../api/v1 ends in /v1 too, so that the first case takes it.
deriveNativeV1Base(base) ==
  IF IsSuffix(<<"v1">>, base) THEN Front(base) \o NativeV1
  ELSE IF IsSuffix(NativeV1, base) THEN base ELSE base \o NativeV1

nativeURL(o) == deriveNativeV1Base(ResolveBaseURL(o))

\* In minutes; there is none when it is not positive.
longTimeout(o, kind) ==
  IF kind \in {"load", "chat", "native"} THEN ("RequestTimeout" :> 5) ELSE <<>>
AnyTimeout(o) ==  \* mutant: a timeout of zero is taken as it is
  Get(o, "RequestTimeout", 2)
nativeHTTPClient(o) ==
  IF Get(o, "RequestTimeout", 0) > 0 THEN o.RequestTimeout ELSE 2
Timeout(c) ==
  IF c.kind = "list" THEN Get(opts, "RequestTimeout", 1)
  ELSE nativeHTTPClient(opts ++ longTimeout(opts, c.kind))

-----------------------------------------------------------------------------
(* Making a call.                                                          *)

Pending == [is |-> "pending"]
Error == [is |-> "error"]
Ok(handle, names) == [is |-> "ok", handle |-> handle, names |-> names]

Waiting(i) == calls[i].result = Pending
Done(w, kind) ==
  {i \in DOMAIN calls : calls[i].who = w /\ calls[i].kind = kind /\ calls[i].result.is = "ok"}
\* A call that is not valid returns an error and sends nothing.
Call(w, kind, valid, to, body) ==
  /\ kind \in use.kinds /\ Len(calls) < use.calls
  /\ \A i \in DOMAIN calls : calls[i].who = w => ~Waiting(i)
  /\ calls' = Append(calls,
       [who |-> w, kind |-> kind, to |-> to, body |-> body, sent |-> IF valid THEN 1 ELSE 0,
        ran |-> 0, reply |-> "none", result |-> IF valid THEN Pending ELSE Error])
  /\ UNCHANGED <<opts, use, server>>

LoadModel(w, name) ==
  Call(w, "load", TrimSpace(name) # "", nativeURL(opts), [model |-> name])
UnloadModel(w, id) ==
  Call(w, "unload", id # 0, nativeURL(opts), [instance_id |-> id])
DownloadModel(w, name) ==
  Call(w, "download", TrimSpace(name) # "", nativeURL(opts), [model |-> name])
DownloadStatusFor(w, id) ==
  Call(w, "status", id # 0, nativeURL(opts), [job_id |-> id])

Afresh(model, input, previous, store) ==  \* mutant: the response before is forgotten
  [model |-> TrimSpace(model), store |-> store] ++ Field(input, "input", TRUE)
buildStatefulChatBody(model, input, previous, store) ==
  [model |-> TrimSpace(model), store |-> store] ++ Field(input, "input", TRUE)
  ++ Field(previous # 0, "previous_response_id", previous)

\* The application goes on from the last response it has; 0 if there is none.
LastResponse(w) ==
  IF Done(w, "chat") = {} THEN 0 ELSE calls[Max(Done(w, "chat"))].result.handle
StatefulChat(w, name, input, store) ==
  LET previous == LastResponse(w)
      model == IF TrimSpace(name) = "" THEN pickModel(opts) ELSE name
  IN  Call(w, "chat", TrimSpace(model) # "" /\ (input \/ previous # 0), nativeURL(opts),
           buildStatefulChatBody(model, input, previous, store))

NativeChatCompletions(w) ==
  Call(w, "native", TrimSpace(pickModel(opts)) # "", deriveNativeBase(ResolveBaseURL(opts)),
       buildNativeBody(NativeRequest(opts, "prompt")))

ListModelsResponse(w) == Call(w, "list", TRUE, deriveNativeBase(ResolveBaseURL(opts)), <<>>)

-----------------------------------------------------------------------------
(* The server.                                                             *)

Reaches(c) ==
  CASE c.kind = "native" -> c.to = Native
    [] c.kind = "list" -> c.to \in {Native, <<"v1">>}
    [] OTHER -> c.to = NativeV1

Accepts(c) ==
  CASE c.kind = "unload" -> c.body.instance_id \in loaded
    [] c.kind = "status" -> c.body.job_id \in jobs
    [] c.kind = "chat" -> Get(c.body, "previous_response_id", 0) \in DOMAIN chats \union {0}
    [] c.kind = "list" -> TRUE
    [] OTHER -> TrimSpace(c.body.model) \in Models

Open(i) == calls[i].sent > 0 /\ calls[i].reply = "none"
Answer(i, reply, ran) == calls' = [calls EXCEPT ![i].reply = reply, ![i].ran = @ + ran]

\* A listing may hold an entry that is not a model.
Execute(i) ==
  LET c == calls[i]
      before == Get(chats, Get(c.body, "previous_response_id", 0), <<>>)
      input == IF "input" \in DOMAIN c.body THEN <<i>> ELSE <<>>
  IN  /\ Open(i) /\ Reaches(c) /\ Accepts(c)
      /\ \E reply \in {"answer", "empty", "garbage"} \union (IF c.kind = "list" THEN {"odd"} ELSE {}) :
           Answer(i, reply, 1)
      /\ loaded' = CASE c.kind = "load" -> loaded \union {i}
                     [] c.kind = "unload" -> loaded \ {c.body.instance_id}
                     [] OTHER -> loaded
      /\ jobs' = IF c.kind = "download" THEN jobs \union {i} ELSE jobs
      /\ chats' = IF c.kind = "chat" /\ c.body.store THEN [j \in {i} |-> before \o input] ++ chats ELSE chats
      /\ UNCHANGED <<opts, use>>

Refuse(i) ==
  /\ Open(i)
  /\ \E reply \in {"status", "errordoc"} : Answer(i, reply, 0)
  /\ UNCHANGED <<opts, use, server>>

-----------------------------------------------------------------------------
(* A call returns.                                                         *)

Trusting(i, reply) ==  \* mutant: a reply with status 200 is a success
  CASE reply = "answer" -> Ok(i, {})
    [] reply \in {"empty", "errordoc"} -> Ok(0, {})
    [] OTHER -> Error
postJSON(i, reply) ==
  CASE reply = "answer" -> Ok(i, {})
    [] reply = "empty" -> Ok(0, {})
    [] OTHER -> Error

\* An error document is a status whose Error is set.
downloadStatus(i, reply) ==
  CASE reply = "answer" -> Ok(calls[i].body.job_id, {})
    [] reply = "errordoc" -> Ok(0, {})
    [] OTHER -> Error

nativeResponse(i, reply) == IF reply = "answer" THEN Ok(i, {}) ELSE Error

\* An error document has no data.
fetchModels(reply) ==
  CASE reply = "answer" -> Ok(0, Models)
    [] reply = "errordoc" -> Ok(0, {})
    [] OTHER -> Error

Result(i, reply) ==
  CASE calls[i].kind = "status" -> downloadStatus(i, reply)
    [] calls[i].kind = "native" -> nativeResponse(i, reply)
    [] calls[i].kind = "list" -> fetchModels(reply)
    [] OTHER -> postJSON(i, reply)

\* The list of models is asked for at the base URL when the native endpoint
\* fails, but not when one of its entries cannot be decoded.
ListAgain(i) ==  \* mutant: as long as it fails
  calls[i].kind = "list"
FallsBack(i) == calls[i].kind = "list" /\ calls[i].sent = 1

Ends(i, result, fails) ==
  /\ Waiting(i)
  /\ calls' = [calls EXCEPT ![i] =
       IF fails /\ FallsBack(i)
       THEN [@ EXCEPT !.to = ResolveBaseURL(opts), !.reply = "none", !.sent = calls[i].sent + 1]
       ELSE [@ EXCEPT !.result = result]]
  /\ UNCHANGED <<opts, use, server>>

Return(i) ==
  LET reply == calls[i].reply
  IN  reply # "none" /\ Ends(i, Result(i, reply), reply \in {"status", "empty", "garbage"})

\* The connection fails, the caller's context ends, or the time is over.
Fail(i) == Ends(i, Error, TRUE)
TimeOut(i) == Timeout(calls[i]) > 0 /\ Fail(i)

-----------------------------------------------------------------------------
Init ==
  /\ use \in Uses /\ opts = ApplyDefaults(With(use.options))
  /\ calls = <<>> /\ loaded = {} /\ jobs = {} /\ chats = <<>>

\* Callers use the IDs calls returned, the empty one too.
Handles(kind) == UNION {{calls[i].result.handle : i \in Done(w, kind)} : w \in Callers}

Issue ==
  \E w \in Callers :
    \/ \E name \in Names : LoadModel(w, name) \/ DownloadModel(w, name)
    \/ \E id \in Handles("load") : UnloadModel(w, id)
    \/ \E id \in Handles("download") : DownloadStatusFor(w, id)
    \/ \E name \in Names, input, store \in BOOLEAN : StatefulChat(w, name, input, store)
    \/ NativeChatCompletions(w)
    \/ ListModelsResponse(w)

Next ==
  \/ Issue
  \/ \E i \in DOMAIN calls : Execute(i) \/ Refuse(i) \/ Return(i) \/ Fail(i) \/ TimeOut(i)

\* A call returns when it has its answer, and its timer fires; the server is
\* under no obligation.
Fairness ==
  \A i \in 1..MaxCalls : WF_vars(i \in DOMAIN calls /\ Return(i)) /\ WF_vars(i \in DOMAIN calls /\ TimeOut(i))

Spec == Init /\ [][Next]_vars /\ Fairness

-----------------------------------------------------------------------------
(* Properties.                                                             *)

TypeOK ==
  /\ use \in Uses /\ Len(calls) <= use.calls
  /\ loaded \subseteq DOMAIN calls /\ jobs \subseteq DOMAIN calls /\ DOMAIN chats \subseteq DOMAIN calls
  /\ \A i \in DOMAIN calls :
       /\ calls[i].who \in Callers /\ calls[i].kind \in use.kinds
       /\ calls[i].sent \in 0..(IF calls[i].kind = "list" THEN 2 ELSE 1) /\ calls[i].ran <= calls[i].sent
       /\ calls[i].reply \in {"none", "answer", "empty", "garbage", "odd", "status", "errordoc"}
       /\ calls[i].result.is \in {"pending", "error", "ok"}

\* A call that changes the server and returns without an error was carried out,
\* once, and the ID it returned, if any, is the one of what it made; it was never
\* carried out twice, whatever failed.  A list of models is the server's, unless it
\* was an error document.
SuccessIsTrue ==
  \A i \in DOMAIN calls :
    LET c == calls[i]
    IN  /\ c.kind \in {"load", "unload", "download", "chat"} =>
             c.ran <= 1 /\ (c.result.is = "ok" => c.ran = 1 /\ c.result.handle \in {i, 0})
        /\ c.kind = "list" /\ c.result.is = "ok" /\ c.reply # "errordoc" => c.result.names = Models

\* The response an application goes on from stands for exactly the inputs of its
\* chats that returned without an error, in their order: neither a chat that timed
\* out and was carried out late nor another application's is in it.  When a chat
\* was answered with nothing, or not stored, there is nothing to go on from.
ConversationContinues ==
  \A w \in Callers :
    LET done == Done(w, "chat")
        last == LastResponse(w)
    IN  done # {} /\ (\A i \in done : calls[i].result.handle # 0 /\ calls[i].body.store)
        => /\ last \in DOMAIN chats
           /\ Range(chats[last]) = {i \in done : "input" \in DOMAIN calls[i].body}
           /\ \A a, b \in DOMAIN chats[last] : a < b => chats[last][a] < chats[last][b]

SchemaOf(format) == LET outer == Get(format, "json_schema", format) IN Get(outer, "schema", outer)

\* The native completion says what the first turn of a query with the same options
\* says, in every parameter it sends at all (no tools, no user), and asks the server
\* of a base URL in one of the usual forms.  However a caller spells a schema, the
\* server gets it; a forced tool is all the first turn offers, unless nobody
\* registered it, and binds no later turn.
RequestsAgree ==
  \A i \in DOMAIN calls : calls[i].kind = "native" /\ calls[i].sent > 0 =>
    LET prompt == effectiveSystemPrompt(opts)
        history == (IF prompt = "" THEN <<>> ELSE <<Message("system", prompt)>>) \o <<Message("user", "prompt")>>
        chat(turn) == buildRequestBody(ChatRequest(opts, pickModel(opts), history, <<"s", "t">>, turn))
        native == calls[i].body
        shared == DOMAIN chat(0) \
          ({"tools", "tool_choice", "user", "stream", "stream_options", "reasoning", "logprobs", "top_logprobs",
            "parallel_tool_calls", "max_tool_calls"}
           \union IF "SystemPromptPreset" \in DOMAIN opts THEN {"messages"} ELSE {})
        forced == TrimSpace(Get(opts, "ForcedTool", ""))
        schema == SchemaOf(Get(opts, "OutputFormat", <<>>))
        choice == [turn \in 0..1 |-> <<chat(turn).tools, chat(turn).tool_choice>>]
    IN  /\ \A n \in shared : n \in DOMAIN native /\ native[n] = chat(0)[n]
        /\ opts.BaseURL \in {<<>>, <<"v1">>, <<"api", "v0">>} => calls[i].to = Native
        /\ "properties" \in DOMAIN schema => native.response_format.json_schema.schema = schema
        /\ choice[1] = <<<<"s", "t">>, Get(opts, "ToolChoice", "auto")>>
        /\ choice[0] = CASE forced = "" -> choice[1]
                         [] forced \in {"s", "t"} -> <<<<forced>>, "required">>
                         [] OTHER -> <<<<"s", "t">>, "required">>

\* Every call returns, though the server may never answer: a timeout that is not
\* positive does not count, except for the list of models.
CallsReturn ==
  \A i \in 1..MaxCalls :
    (i \in DOMAIN calls /\ Waiting(i) /\ (calls[i].kind # "list" \/ Timeout(calls[i]) > 0))
      ~> (i \in DOMAIN calls /\ ~Waiting(i))
=============================================================================
