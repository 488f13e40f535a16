-------------------------- MODULE MCNativeEndpoints --------------------------
(* An instance of NativeEndpoints for TLC.                                 *)
EXTENDS NativeEndpoints

CONSTANTS w1, w2

Opt(name, value) == [name |-> name, value |-> value]
Named == Opt("Model", "m")
\* Every form of a base URL and of a timeout.
Lifecycle ==
  {<<Named, Opt("BaseURL", base), Opt("RequestTimeout", t)>> :
     base \in {<<"api", "v0">>, <<"api", "v1">>}, t \in {0, 1}}
  \union {<<>>, <<Opt("BaseURL", <<>>)>>, <<Opt("RequestTimeout", 0)>>, <<Opt("Model", Blank)>>}
Schema == [type |-> "object", properties |-> [a |-> "int"]]
Formats ==
  {Schema, [schema |-> Schema], [type |-> "json_schema", schema |-> Schema], [json_schema |-> Schema],
   [json_schema |-> [name |-> "n", schema |-> Schema]],
   [type |-> "json_schema", json_schema |-> [name |-> "n", schema |-> Schema]], [type |-> "json_object"]}
\* Every option of a completion, at zero, blank or set.
Parameters ==
  {<<Named, Opt(name, 0)>> : name \in Copied \ {"Stop"}}
  \union {<<Named, Opt("TTL", t)>> : t \in {999, 1000}}
  \union {<<Named, Opt("Stop", s)>> : s \in {<<>>, <<"a">>, <<"a", "b">>}}
  \union {<<Named, Opt("OutputFormat", f)>> : f \in Formats}
  \union {<<Named, Opt(name, text)>> : name \in {"DraftModel", "SystemPrompt", "SystemPromptPreset", "User"},
                                       text \in {Blank, "t"}}
  \union {<<Named, Opt("Temperature", 0), Opt("Temperature", 1), Opt("Extra", [temperature |-> 2])>>,
          <<Named, Opt("ForcedTool", "t"), Opt("ToolChoice", "none"), Opt("Effort", "low"),
            Opt("Thinking", [mode |-> "enabled", budget |-> 1])>>,
          <<Named, Opt("ForcedTool", "x")>>,
          <<Named, Opt("ForcedTool", "t"), Opt("ForcedTool", Blank), Opt("Thinking", [mode |-> "adaptive"])>>}
Use(settings, kinds, n) == {[options |-> o, kinds |-> kinds, calls |-> n] : o \in settings}
SomeUses ==
  Use({<<>>, <<Named, Opt("RequestTimeout", 0)>>}, {"load", "unload"}, 3) \union Use({<<>>}, {"download", "status"}, 3)
  \union Use({<<Named>>}, {"chat"}, 3) \union Use(Lifecycle, {"load", "chat"}, 1)
  \union Use(Lifecycle, {"list"}, 2) \union Use(Lifecycle \union Parameters, {"native"}, 1)
TwoCallers == {w1, w2}
OneModel == {"m"}
SomeNames == {"m", ""}
NoEnv == <<>>
=============================================================================
