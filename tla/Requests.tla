------------------------------- MODULE Requests -------------------------------
(***************************************************************************)
(* What a request to LM Studio says: the options a caller lists, what      *)
(* their defaults add, the request they make and the body that is posted,  *)
(* for a turn of a query (QueryRunner, HTTPTransport) and for the native   *)
(* completion, which builds its body on its own.                           *)
(*                                                                         *)
(* Options, requests, formats and bodies are functions from the names that *)
(* are set.  A text is a string, blank when it only holds spaces; a path   *)
(* is a sequence of segments.                                              *)
(***************************************************************************)
EXTENDS Integers, SequencesExt, TLC

CONSTANT Env   \* the environment: LM_BASE_URL and LM_MODEL, when set

ASSUME EnvAssumption == DOMAIN Env \subseteq {"LM_BASE_URL", "LM_MODEL"}

Blank == " "
TrimSpace(text) == IF text = Blank THEN "" ELSE text
Field(set, name, value) == IF set THEN [n \in {name} |-> value] ELSE <<>>
\* The fields of f, and those of g that f does not set.
Merged(f, g) == [n \in DOMAIN f \union DOMAIN g |-> IF n \in DOMAIN f THEN f[n] ELSE g[n]]
f ++ g == Merged(f, g)
Get(f, name, otherwise) == IF name \in DOMAIN f THEN f[name] ELSE otherwise
\* The fields of f that the table names, under the table's names.
Renamed(f, table) ==
  LET set == DOMAIN f \intersect DOMAIN table
  IN  [n \in {table[k] : k \in set} |-> f[CHOOSE k \in set : table[k] = n]]

-----------------------------------------------------------------------------
(* Options.                                                                *)

\* With...(value) of a list, in order: the last one of a name stands.
With(list) == FoldLeft(LAMBDA o, w : (w.name :> w.value) ++ o, <<>>, list)

ApplyDefaults(o) ==
  Field(Get(o, "Model", "") = "" /\ "LM_MODEL" \in DOMAIN Env, "Model", Env.LM_MODEL)
  ++ o ++ ("BaseURL" :> Get(Env, "LM_BASE_URL", <<"v1">>)) ++ ("StreamIncludeUsage" :> TRUE)

ResolveBaseURL(o) == Get(o, "BaseURL", Get(Env, "LM_BASE_URL", <<"v1">>))

pickModel(o) == Get(o, "Model", "")

effectiveSystemPrompt(o) ==
  TrimSpace(IF "SystemPromptPreset" \in DOMAIN o THEN o.SystemPromptPreset
            ELSE Get(o, "SystemPrompt", ""))

-----------------------------------------------------------------------------
(* The request of a turn.                                                  *)

\* Options a request holds as they are: to an unset one there is no field.
Copied == {"MaxTokens", "Temperature", "TopP", "TopK", "MinP", "RepeatPenalty",
           "PresencePenalty", "FrequencyPenalty", "Seed", "Stop",
           "Logprobs", "TopLogprobs", "ParallelToolCalls"}
CopiedCounts == {"MaxToolCalls", "StreamIncludeUsage"}
Copies(o, names) == Restrict(o, names \intersect DOMAIN o)

requestReasoning(o) ==
  LET given == Field("Effort" \in DOMAIN o, "effort", o.Effort) ++ Get(o, "Reasoning", <<>>)
      thinking == Get(o, "Thinking", [mode |-> "unset"])
  IN  CASE thinking.mode = "disabled" -> ("enabled" :> FALSE) ++ given
        [] thinking.mode = "adaptive" -> given ++ ("effort" :> "medium")
        [] thinking.mode = "enabled" ->
             ("enabled" :> TRUE) ++ Field(thinking.budget > 0, "max_tokens", thinking.budget) ++ given
        [] OTHER -> given

\* A time to live is in milliseconds, and in whole seconds in a request.
requestTTL(o) == Field(Get(o, "TTL", 0) >= 1000, "TTL", Get(o, "TTL", 0) \div 1000)

\* Every tool, if none has the name.
filterToolsByName(tools, name) ==
  LET named == SelectSeq(tools, LAMBDA t : t = name)
  IN  IF name = "" \/ named = <<>> THEN tools ELSE named

forcedTool(o, turn) == IF turn = 0 THEN TrimSpace(Get(o, "ForcedTool", "")) ELSE ""

\* Model, history and tools are those of the turn.
ChatRequest(o, model, history, tools, turn) ==
  LET forced == forcedTool(o, turn)
  IN  [Model |-> model, Messages |-> history, Tools |-> filterToolsByName(tools, forced),
       Reasoning |-> requestReasoning(o), Extra |-> Get(o, "Extra", <<>>),
       ResponseFormat |-> Get(o, "OutputFormat", <<>>),
       DraftModel |-> TrimSpace(Get(o, "DraftModel", "")), User |-> TrimSpace(Get(o, "User", ""))]
      ++ Field(forced # "", "ToolChoice", "required") ++ Copies(o, {"ToolChoice"})
      ++ Copies(o, Copied) ++ Copies(o, CopiedCounts) ++ requestTTL(o)

-----------------------------------------------------------------------------
(* Bodies.                                                                 *)

\* The text a schema is wrapped in, unless it is wrapped.
buildJSONSchemaConfig(schema) ==
  IF "schema" \in DOMAIN schema
  THEN Field(TrimSpace(Get(schema, "name", "")) = "", "name", "response") ++ schema
  ELSE ("name" :> "response") ++ Field(schema # <<>>, "schema", schema)

normalizeChatResponseFormat(format) ==
  LET type == Get(format, "type", "")
      Config(schema) == [type |-> "json_schema", json_schema |-> buildJSONSchemaConfig(schema)]
      Holds(name) == Get(format, name, <<>>) # <<>>
      rest == Restrict(format, DOMAIN format \ {"schema"})
  IN  CASE type = "json_schema" /\ ("json_schema" \in DOMAIN format \/ "schema" \notin DOMAIN format) -> format
        [] type = "json_schema" -> ("json_schema" :> buildJSONSchemaConfig(format.schema)) ++ rest
        [] type # "json_schema" /\ Holds("json_schema") -> Config(format.json_schema)
        [] type # "json_schema" /\ ~Holds("json_schema") /\ Holds("schema") -> Config(format.schema)
        [] OTHER -> IF "properties" \in DOMAIN format \/ type = "object" THEN Config(format) ELSE format

\* One stop sequence is posted as a text, several as a list.
stopOf(req) ==
  LET stop == Get(req, "Stop", <<>>)
  IN  Field(stop # <<>>, "stop", IF Len(stop) = 1 THEN [text |-> stop[1]] ELSE [list |-> stop])

ChatFields ==
  [MaxTokens |-> "max_tokens", Temperature |-> "temperature", TopP |-> "top_p", TopK |-> "top_k",
   MinP |-> "min_p", RepeatPenalty |-> "repeat_penalty", PresencePenalty |-> "presence_penalty",
   FrequencyPenalty |-> "frequency_penalty", Seed |-> "seed", Logprobs |-> "logprobs",
   TopLogprobs |-> "top_logprobs", ParallelToolCalls |-> "parallel_tool_calls",
   MaxToolCalls |-> "max_tool_calls", TTL |-> "ttl"]

toolsOf(req) == Field(req.Tools # <<>>, "tools", req.Tools)

buildRequestBody(req) ==
  req.Extra
  ++ [model |-> TrimSpace(req.Model), messages |-> req.Messages, stream |-> TRUE]
  ++ Field(Get(req, "StreamIncludeUsage", FALSE), "stream_options", "include_usage")
  ++ toolsOf(req)
  ++ Field(req.Tools # <<>> \/ "ToolChoice" \in DOMAIN req, "tool_choice", Get(req, "ToolChoice", "auto"))
  ++ Renamed(req, ChatFields) ++ stopOf(req)
  ++ Field(req.ResponseFormat # <<>>, "response_format", normalizeChatResponseFormat(req.ResponseFormat))
  ++ Field(req.Reasoning # <<>>, "reasoning", req.Reasoning)
  ++ Field(TrimSpace(req.DraftModel) # "", "draft_model", TrimSpace(req.DraftModel))
  ++ Field(req.User # "", "user", req.User)

-----------------------------------------------------------------------------
(* The native completion.                                                  *)

Message(role, content) == [role |-> role, content |-> content]
nativeMessages(o, prompt) ==
  LET sp == TrimSpace(Get(o, "SystemPrompt", ""))
  IN  (IF sp = "" THEN <<>> ELSE <<Message("system", sp)>>) \o <<Message("user", prompt)>>

nativeCopied == {"MaxTokens", "Temperature", "TopP", "TopK", "MinP", "RepeatPenalty",
                 "PresencePenalty", "FrequencyPenalty", "Seed", "Stop"}
NativeRequest(o, prompt) ==
  [Model |-> TrimSpace(pickModel(o)), Messages |-> nativeMessages(o, prompt), Tools |-> <<>>,
   Extra |-> Get(o, "Extra", <<>>), ResponseFormat |-> Get(o, "OutputFormat", <<>>),
   DraftModel |-> Get(o, "DraftModel", ""), User |-> Get(o, "User", "")]
  ++ Copies(o, nativeCopied) ++ requestTTL(o)

NativeFields ==
  [MaxTokens |-> "max_tokens", Temperature |-> "temperature", TopP |-> "top_p", TopK |-> "top_k",
   MinP |-> "min_p", RepeatPenalty |-> "repeat_penalty", PresencePenalty |-> "presence_penalty",
   FrequencyPenalty |-> "frequency_penalty", Seed |-> "seed", TTL |-> "ttl"]

OwnBody(req) ==  \* mutant: the caller's extra fields do not override
  [model |-> TrimSpace(req.Model), messages |-> req.Messages, stream |-> FALSE]
  ++ Renamed(req, NativeFields) ++ stopOf(req)
  ++ Field(req.ResponseFormat # <<>>, "response_format", normalizeChatResponseFormat(req.ResponseFormat))
  ++ Field(TrimSpace(req.DraftModel) # "", "draft_model", TrimSpace(req.DraftModel))
  ++ req.Extra
buildNativeBody(req) ==
  req.Extra
  ++ [model |-> TrimSpace(req.Model), messages |-> req.Messages, stream |-> FALSE]
  ++ toolsOf(req) ++ Field(req.Tools # <<>>, "tool_choice", Get(req, "ToolChoice", "auto"))
  ++ Renamed(req, NativeFields) ++ stopOf(req)
  ++ Field(req.ResponseFormat # <<>>, "response_format", normalizeChatResponseFormat(req.ResponseFormat))
  ++ Field(TrimSpace(req.DraftModel) # "", "draft_model", TrimSpace(req.DraftModel))
=============================================================================
