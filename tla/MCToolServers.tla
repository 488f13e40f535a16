---------------------------- MODULE MCToolServers ----------------------------
(* An instance of ToolServers for TLC.                                     *)
EXTENDS ToolServers, TLC

CONSTANTS c1, c2, m1, q1, q2

S == <<"s">>
S_ == <<"s", "_">>
T == <<"t">>
_T == <<"_", "t">>
TwoClients == {c1, c2}
OneMap == {m1}
\* S and _T have the public name of S_ and T.
SomeServers == {Sdk, S, S_}
SomeTools == {T, _T, Stdio}
External(ts) == [kind |-> "external", tools |-> ToolsOf(ts, "remote")]
Broken == [kind |-> "broken", tools |-> ToolsOf({}, "remote")]
Entry(type, command, url) == [type |-> type, command |-> command, url |-> url, tools |-> {T}]
\* A server with a url; the same, but one without a command; a type it does not know.
Good == (S :> Entry("", FALSE, TRUE))
Lame == (S :> Entry("sse", FALSE, TRUE)) @@ (S_ :> Entry("stdio", FALSE, TRUE))
Odd == (S :> Entry("sdk", FALSE, TRUE))
SomeConfigs == {Good, Lame, Odd, Bad}
SomeContents ==
  {<<>>,
   (S :> External({T, _T})) @@ (S_ :> CreateSdkMcpServer({T})),
   (Sdk :> CreateSdkMcpServer({T})) @@ (S :> Broken)}
Listing(is, names) == [is |-> is, names |-> names]
SomeOptions ==
  {[is |-> "WithMCPServers", map |-> m1],
   [is |-> "WithMCPConfig", config |-> Lame],
   [is |-> "WithSDKTools", tools |-> {T}],
   [is |-> "WithOnUserInput"],
   Listing("WithAllowedTools", {PublicName(S, T)}),
   Listing("WithDisallowedTools", {PublicName(Sdk, T)}),
   Listing("WithTools", {PublicName(Sdk, Stdio), PublicName(S, T)})}
\* Every list of up to three different options and some that are refused,
\* against lists that share the map.
Orders == {l \in UNION {[1..k -> SomeOptions] : k \in 0..3} : \A i, j \in DOMAIN l : l[i] = l[j] => i = j}
WithMap(op) == <<[is |-> "WithMCPServers", map |-> m1], op>>
Lists ==
  (c1 :> Orders \union {WithMap([is |-> "WithMCPConfig", config |-> c]) : c \in SomeConfigs \ {Lame}}
              \union {<<[is |-> "WithCanUseTool"], [is |-> "WithOnUserInput"]>>}) @@
  (c2 :> {WithMap([is |-> "WithSDKTools", tools |-> {_T}]), WithMap([is |-> "WithOnUserInput"]),
         <<[is |-> "WithSDKTools", tools |-> {_T}]>>})
Said == {PublicName(S, T), PublicName(S_, T), PublicName(Sdk, T),
         <<"mcp", "_", "s", "_", "t">>, <<"mcp", "_", "sdk", "_", "t">>}
TwoAsks == {q1, q2}
AsksOfOne == (q1 :> c1) @@ (q2 :> c1)
=============================================================================
