----------------------------- MODULE ToolServers -----------------------------
(***************************************************************************)
(* Which tools does a model see, and what does a call of one run?  The     *)
(* options a client starts with, applied in order; the tool servers they   *)
(* put into its server map; the registry (tools.Registry) built from the   *)
(* map when the client starts; the calls that go through the registry to   *)
(* whatever server the map holds by then; and GetMCPStatus, which lists    *)
(* the servers again in the background.                                    *)
(*                                                                         *)
(* WithMCPServers keeps the caller's map by reference, so clients may      *)
(* share one, and a Start writes to it.  Callers are taken not to start a  *)
(* client while another one reads the same map: Go maps do not allow it.   *)
(* Whether a call may run is ToolPermissions' affair.                      *)
(*                                                                         *)
(* A name is a sequence of words and underscores.                          *)
(***************************************************************************)
EXTENDS Integers, SequencesExt

CONSTANTS
  Clients,
  Maps,           \* the server maps callers pass to WithMCPServers
  ServerNames, ToolNames,
  Contents,       \* what a caller's map may hold at first
  Configs,        \* the MCP configurations callers give, as they decode
  OptionLists,    \* per client: the option lists it may start with
  Spoken,         \* names models say, and callers list
  Asks, AskOf,    \* calls of GetMCPStatus, and the client of each
  None,           \* nil
  Bad             \* what one decodes to that cannot be read or parsed

EntryTypes == {"stdio", "sse", "http"}
Sdk == <<"sdk">>      \* where WithSDKTools and ensureUserInputTool register
Stdio == <<"stdio">>  \* the user-input tool

\* Who implements a tool: the client whose options gave it, the caller with
\* CreateSdkMcpServer, or another process.
Handlers == Clients \union {"caller", "remote"}
Server == [kind : {"sdk", "external", "broken"}, tools : [ToolNames -> Handlers \union {None}]]
IsPartial(f, S, T) == DOMAIN f \subseteq S /\ \A s \in DOMAIN f : f[s] \in T

\* A tool's name for models; all the names they or callers say.
PublicName(s, t) == <<"mcp", "_", "_">> \o s \o <<"_", "_">> \o t
NameOf(p) == PublicName(p[1], p[2])
PublicNames == {NameOf(p) : p \in ServerNames \X ToolNames}
Names == PublicNames \union Spoken

\* What a caller may write: a server of an MCP configuration, an option.
ConfigEntry == [type : STRING, command : BOOLEAN, url : BOOLEAN, tools : SUBSET ToolNames]
IsOption(op) ==
  \/ op.is = "WithMCPServers" /\ op.map \in Maps
  \/ op.is = "WithMCPConfig" /\ op.config \in Configs
  \/ op.is = "WithSDKTools" /\ op.tools \subseteq ToolNames
  \/ op.is \in {"WithTools", "WithAllowedTools", "WithDisallowedTools"} /\ op.names \subseteq Names
  \/ op.is \in {"WithCanUseTool", "WithOnUserInput", "WithPermissionPromptToolName"}

\* What the options make of a client.
Settings ==
  [servers : {None} \union Clients \union Maps, config : {None} \union Configs,
   tools : SUBSET Names, allowed : SUBSET Names, disallowed : SUBSET Names,
   canUseTool : BOOLEAN, onUserInput : BOOLEAN, prompt : BOOLEAN]

ASSUME ToolServersAssumption ==
  /\ {None, Bad, "caller", "remote"} \intersect (Clients \union Maps) = {}
  /\ Clients \intersect Maps = {}
  /\ None \notin Settings
  /\ Sdk \in ServerNames /\ Stdio \in ToolNames
  /\ \A f \in Contents : IsPartial(f, ServerNames, Server)
  /\ \A f \in Contents : \A s \in DOMAIN f, t \in ToolNames : f[s].tools[t] \notin Clients
  /\ \A f \in Configs \ {Bad} : IsPartial(f, ServerNames, ConfigEntry)
  /\ \A c \in Clients : \A list \in OptionLists[c] :
       /\ Len(list) \in Nat /\ DOMAIN list = 1..Len(list)
       /\ \A i \in DOMAIN list : IsOption(list[i])
  /\ AskOf \in [Asks -> Clients]

VARIABLES
  heap,     \* the server maps: the callers' and, under its name, a client's own
  given,    \* history: the option list of a client's Start
  opts,     \* its options, or None before Start
  reg,      \* its Registry.byName: <<server, tool>> by public name
  status,   \* its mcpStatus
  refresh,  \* its controller's refresh: "no", "flagged", "listing" or "landed"
  ask,      \* where a call of GetMCPStatus is
  last      \* history: the last call that reached a tool

client == <<given, opts, reg>>
vars == <<heap, client, status, refresh, ask, last>>

-----------------------------------------------------------------------------
(* Names.                                                                  *)

collapseUnderscores == [n \in Names |->
  FoldLeft(LAMBDA out, x : IF x = "_" /\ out # <<>> /\ Last(out) = "_" THEN out
                           ELSE Append(out, x), <<>>, n)]

\* The registered name an inline call means, or the name as it is.
AnyAlike(r, n) ==  \* mutant: the first of several names
  LET alike == {k \in DOMAIN r : collapseUnderscores[k] = collapseUnderscores[n]}
  IN  IF n \notin DOMAIN r /\ alike # {} THEN CHOOSE k \in alike : TRUE ELSE n
ResolveName(r, n) ==
  LET alike == {k \in DOMAIN r : collapseUnderscores[k] = collapseUnderscores[n]}
  IN  IF n \notin DOMAIN r /\ \E k \in alike : alike = {k} THEN CHOOSE k \in alike : TRUE ELSE n

-----------------------------------------------------------------------------
(* Options.  o and h are a client's options and the maps while it starts.  *)

NoOptions == [servers |-> None, config |-> None, tools |-> {}, allowed |-> {},
              disallowed |-> {}, canUseTool |-> FALSE, onUserInput |-> FALSE,
              prompt |-> FALSE]
Begun(h) == [o |-> NoOptions, h |-> h]

ToolsOf(ts, who) == [t \in ToolNames |-> IF t \in ts THEN who ELSE None]
createSDKToolServer(c, ts) == [kind |-> "sdk", tools |-> ToolsOf(ts, c)]
CreateSdkMcpServer(ts) == [kind |-> "sdk", tools |-> ToolsOf(ts, "caller")]

\* The maps with server srv as m["sdk"]; a client that has no map makes one.
DefaultMap(c, b) ==  \* mutant: one map for all clients that have none
  IF b.o.servers = None THEN CHOOSE m \in Maps : TRUE ELSE b.o.servers
MapOf(c, b) == IF b.o.servers = None THEN c ELSE b.o.servers
Served(c, b) == IF b.o.servers = None THEN <<>> ELSE b.h[b.o.servers]
PutSdk(c, b, srv) ==
  LET old == Served(c, b)
      new == [s \in (DOMAIN old) \union {Sdk} |-> IF s = Sdk THEN srv ELSE old[s]]
  IN  [o |-> [b.o EXCEPT !.servers = MapOf(c, b)], h |-> [b.h EXCEPT ![MapOf(c, b)] = new]]

AllowsAsBefore(o, ts) == o.allowed  \* mutant: the allow list is left alone
AllowsToo(o, ts) == o.allowed \union {PublicName(Sdk, t) : t \in ts}
WithSDKTools(c, b, ts) ==
  IF ts = {} THEN b
  ELSE [PutSdk(c, b, createSDKToolServer(c, ts)) EXCEPT !.o.allowed = AllowsToo(b.o, ts)]

\* One option applied.
Option(c, b, op) ==
  CASE op.is = "WithMCPServers" -> [b EXCEPT !.o.servers = op.map]
    [] op.is = "WithMCPConfig" -> [b EXCEPT !.o.config = op.config]
    [] op.is = "WithTools" -> [b EXCEPT !.o.tools = op.names]
    [] op.is = "WithAllowedTools" -> [b EXCEPT !.o.allowed = op.names]
    [] op.is = "WithDisallowedTools" -> [b EXCEPT !.o.disallowed = op.names]
    [] op.is = "WithCanUseTool" -> [b EXCEPT !.o.canUseTool = TRUE]
    [] op.is = "WithOnUserInput" -> [b EXCEPT !.o.onUserInput = TRUE]
    [] op.is = "WithPermissionPromptToolName" -> [b EXCEPT !.o.prompt = TRUE]
    [] op.is = "WithSDKTools" -> WithSDKTools(c, b, op.tools)

applyAgentOptions(c, list) ==
  LET after[n \in 0..Len(list)] ==
        IF n = 0 THEN Begun(heap) ELSE Option(c, after[n-1], list[n])
  IN  after[Len(list)]

\* An MCP configuration has an entry per server; tools is what it would list.
EntryType(e) ==
  IF e.type # "" THEN e.type ELSE IF e.command THEN "stdio" ELSE IF e.url THEN "http" ELSE ""
Fails(config) == config = Bad \/ \E s \in DOMAIN config : EntryType(config[s]) \notin EntryTypes
Usable(e) == IF EntryType(e) = "stdio" THEN e.command ELSE e.url
loadMCPConfig(config) ==
  [s \in DOMAIN config |-> [kind |-> IF Usable(config[s]) THEN "external" ELSE "broken",
                            tools |-> ToolsOf(config[s].tools, "remote")]]

\* It replaces the whole map, in-process tools included.
applyMCPConfigToOptions(c, b) ==
  IF b.o.config = None THEN b
  ELSE [b EXCEPT !.o.servers = c, !.h[c] = loadMCPConfig(b.o.config)]

\* validateAndConfigureCompatibilityOptions; CanUseTool claims the prompt name.
Refused(o) ==
  \/ o.config # None /\ Fails(o.config)
  \/ o.canUseTool /\ o.prompt
  \/ o.onUserInput /\ (o.prompt \/ o.canUseTool)

ensureUserInputTool(c, b) ==
  LET old == Served(c, b)
      keeps == Sdk \in DOMAIN old /\ old[Sdk].kind = "sdk"
      with == PutSdk(c, b, IF keeps THEN [old[Sdk] EXCEPT !.tools[Stdio] = c]
                           ELSE createSDKToolServer(c, {Stdio}))
  IN  IF ~b.o.onUserInput THEN b
      ELSE IF b.o.allowed = {} THEN with
      ELSE [with EXCEPT !.o.allowed = AllowsToo(b.o, {Stdio})]

Configured(c, b) == ensureUserInputTool(c, applyMCPConfigToOptions(c, b))

-----------------------------------------------------------------------------
(* The registry of options o over a map; up are the external servers that  *)
(* answer in time.                                                         *)

Kept(o, n) ==
  /\ o.tools # {} => n \in o.tools
  /\ o.allowed # {} => n \in o.allowed
  /\ n \notin o.disallowed

Ready(map, s, up) == map[s].kind = "sdk" \/ (map[s].kind = "external" /\ s \in up)

ServerStatuses(map, up) == [s \in DOMAIN map |-> IF Ready(map, s, up) THEN "ready" ELSE "error"]

\* SDKServer.ListTools, and the tools an external server lists.
ListTools(srv) == {t \in ToolNames : srv.tools[t] # None}

\* Servers come in the order of a Go map: a name two tools share is either's.
NewRegistry(o, map, up) ==
  LET found == {p \in (DOMAIN map) \X ToolNames :
                  Ready(map, p[1], up) /\ p[2] \in ListTools(map[p[1]]) /\ Kept(o, NameOf(p))}
      names == {NameOf(p) : p \in found}
  IN  {r \in [names -> found] : \A n \in names : NameOf(r[n]) = n}

-----------------------------------------------------------------------------
(* Clients.                                                                *)

Started(c) == opts[c] # None
Serving(c) == Served(c, [o |-> opts[c], h |-> heap])

Init ==
  /\ \E held \in [Maps -> Contents] :
       heap = [m \in Maps \union Clients |-> IF m \in Maps THEN held[m] ELSE <<>>]
  /\ given = [c \in Clients |-> <<>>]
  /\ opts = [c \in Clients |-> None]
  /\ reg = [c \in Clients |-> <<>>]
  /\ status = [c \in Clients |-> <<>>]
  /\ refresh = [c \in Clients |-> "no"]
  /\ ask = [a \in Asks |-> "idle"]
  /\ last = None

Start(c) ==
  /\ ~Started(c)
  /\ \E list \in OptionLists[c], up \in SUBSET ServerNames :
       LET applied == applyAgentOptions(c, list)
           b == Configured(c, applied)
           map == Served(c, b)
       IN  /\ ~Refused(applied.o)
           /\ up \subseteq {s \in DOMAIN map : map[s].kind = "external"}
           /\ heap' = b.h
           /\ given' = [given EXCEPT ![c] = list]
           /\ opts' = [opts EXCEPT ![c] = b.o]
           /\ \E r \in NewRegistry(b.o, map, up) : reg' = [reg EXCEPT ![c] = r]
           /\ status' = [status EXCEPT ![c] = ServerStatuses(map, up)]
  /\ UNCHANGED <<refresh, ask, last>>

\* The options are refused, or the hooks or the session store are; what the
\* options did to a caller's map stays done.
StartFails(c) ==
  /\ ~Started(c)
  /\ \E list \in OptionLists[c] :
       LET applied == applyAgentOptions(c, list)
           b == IF Refused(applied.o) THEN applied ELSE Configured(c, applied)
       IN  heap' = [b.h EXCEPT ![c] = <<>>]
  /\ UNCHANGED <<client, status, refresh, ask, last>>

\* Who runs tool t of a server; one that has lost the tool says so, as a result.
CallTool(srv, t) == srv.tools[t]

\* A call under name n, or the inline call of n.  The server is looked up now.
Call(c, n, inline) ==
  LET name == IF inline THEN ResolveName(reg[c], n) ELSE n
  IN  /\ Started(c) /\ name \in DOMAIN reg[c]
      /\ LET ref == reg[c][name]
         IN  /\ ref[1] \in DOMAIN Serving(c) /\ Serving(c)[ref[1]].kind # "broken"
             /\ last' = [client |-> c, said |-> n, ref |-> ref,
                         by |-> CallTool(Serving(c)[ref[1]], ref[2])]
      /\ UNCHANGED <<heap, client, status, refresh, ask>>

-----------------------------------------------------------------------------
(* GetMCPStatus: each step is one use of the client's or controller's lock. *)

Unsettled(c) == \E s \in DOMAIN status[c] : status[c][s] \in {"connecting", "configured"}

GetMCPStatus(a) ==
  LET c == AskOf[a]
  IN  /\ ask[a] = "idle"
      /\ Started(c) /\ Serving(c) # <<>>
      /\ \/ status[c] = <<>> /\ ask' = [ask EXCEPT ![a] = "initial"]
         \/ Unsettled(c) /\ ask' = [ask EXCEPT ![a] = "refresh"]
      /\ UNCHANGED <<heap, client, status, refresh, last>>

SetInitial(a) ==
  LET c == AskOf[a]
  IN  /\ ask[a] = "initial"
      /\ status' = [status EXCEPT ![c] = [s \in DOMAIN Serving(c) |-> "configured"]]
      /\ ask' = [ask EXCEPT ![a] = "idle"]
      /\ UNCHANGED <<heap, client, refresh, last>>

\* startMCPRefresh: one refresh at a time.
Unflagged(c) == TRUE  \* mutant: the flag is not looked at
MayRefresh(c) == refresh[c] = "no"
StartRefresh(a) ==
  LET c == AskOf[a]
  IN  /\ ask[a] = "refresh"
      /\ \/ /\ ~MayRefresh(c)
            /\ ask' = [ask EXCEPT ![a] = "idle"]
            /\ UNCHANGED refresh
         \/ /\ MayRefresh(c)
            /\ ask' = [ask EXCEPT ![a] = "mark"]
            /\ refresh' = [refresh EXCEPT ![c] = "flagged"]
      /\ UNCHANGED <<heap, client, status, last>>

\* It reads and writes under two locks; a SetInitial in between is overwritten.
MarkConnecting(a) ==
  LET c == AskOf[a]
  IN  /\ ask[a] = "mark"
      /\ status' = [status EXCEPT ![c] = [s \in DOMAIN @ |-> "connecting"]]
      /\ refresh' = [refresh EXCEPT ![c] = "listing"]
      /\ ask' = [ask EXCEPT ![a] = "idle"]
      /\ UNCHANGED <<heap, client, last>>

\* The goroutine.
AskAgain(c) ==  \* mutant: a listing that finds no server writes no status
  /\ refresh[c] = "listing"
  /\ \E up \in SUBSET {s \in DOMAIN Serving(c) : Serving(c)[s].kind = "external"} :
       status' = [status EXCEPT ![c] = IF up = {} THEN @ ELSE ServerStatuses(Serving(c), up)]
  /\ refresh' = [refresh EXCEPT ![c] = "landed"]
  /\ UNCHANGED <<heap, client, ask, last>>
Refresh(c) ==
  /\ refresh[c] = "listing"
  /\ \E up \in SUBSET {s \in DOMAIN Serving(c) : Serving(c)[s].kind = "external"} :
       status' = [status EXCEPT ![c] = ServerStatuses(Serving(c), up)]
  /\ refresh' = [refresh EXCEPT ![c] = "landed"]
  /\ UNCHANGED <<heap, client, ask, last>>

RefreshDone(c) ==
  /\ refresh[c] = "landed"
  /\ refresh' = [refresh EXCEPT ![c] = "no"]
  /\ UNCHANGED <<heap, client, status, ask, last>>

Next ==
  \/ \E c \in Clients : Start(c) \/ StartFails(c) \/ Refresh(c) \/ RefreshDone(c)
  \/ \E c \in Clients, n \in Spoken, inline \in BOOLEAN : Call(c, n, inline)
  \/ \E a \in Asks : GetMCPStatus(a) \/ SetInitial(a) \/ StartRefresh(a) \/ MarkConnecting(a)

Spec == Init /\ [][Next]_vars

-----------------------------------------------------------------------------
(* Properties.                                                             *)

\* Types, and the refresh flag is held by whoever sets it: one call of
\* GetMCPStatus between startMCPRefresh's two locks, and no goroutine then.
TypeOK ==
  /\ DOMAIN heap = Maps \union Clients
  /\ \A m \in DOMAIN heap : IsPartial(heap[m], ServerNames, Server)
  /\ \A c \in Clients :
       /\ IsPartial(reg[c], PublicNames, ServerNames \X ToolNames)
       /\ IsPartial(status[c], ServerNames, {"configured", "connecting", "ready", "error"})
       /\ refresh[c] \in {"no", "flagged", "listing", "landed"}
       /\ Cardinality({a \in Asks : AskOf[a] = c /\ ask[a] = "mark"})
            = (IF refresh[c] = "flagged" THEN 1 ELSE 0)
  /\ ask \in [Asks -> {"idle", "initial", "refresh", "mark"}]

\* A server is shown as connecting only while a refresh is on its way that will
\* replace that status (startMCPRefresh, GetMCPStatus).
ConnectingIsRefreshing ==
  \A c \in Clients : \A s \in DOMAIN status[c] :
    status[c][s] = "connecting" => refresh[c] = "listing"

\* Where the list of a client has an option, and the last of them.
Given(c, is) == {i \in DOMAIN given[c] : given[c][i].is = is}
Latest(c, is) == {given[c][i] : i \in {k \in Given(c, is) : \A j \in Given(c, is) : j <= k}}
Excluded(c, n) ==
  \/ \E op \in Latest(c, "WithDisallowedTools") : n \in op.names
  \/ \E op \in Latest(c, "WithTools") : op.names # {} /\ n \notin op.names

\* A started client shows no excluded tool, and it shows the user-input tool
\* and the tools of its last WithSDKTools unless they are excluded, or a later
\* option replaced the servers or the allow list (WithSDKTools, WithOnUserInput
\* and the filters of NewRegistry).
ShownAsConfigured ==
  \A c \in Clients : Started(c) =>
    /\ \A n \in DOMAIN reg[c] : ~Excluded(c, n)
    /\ Given(c, "WithOnUserInput") # {} =>
         PublicName(Sdk, Stdio) \in DOMAIN reg[c] \/ Excluded(c, PublicName(Sdk, Stdio))
    /\ \A i \in Given(c, "WithSDKTools") : \A t \in given[c][i].tools :
         \/ PublicName(Sdk, t) \in DOMAIN reg[c]
         \/ Excluded(c, PublicName(Sdk, t))
         \/ Given(c, "WithMCPConfig") # {}
         \/ \E j \in DOMAIN given[c] : j > i /\ given[c][j].is \in
              {"WithMCPServers", "WithSDKTools", "WithAllowedTools"}

\* What other clients do never takes a tool that is shown from its server and
\* never changes its implementation, except under "sdk" in a map the callers
\* share (WithSDKTools and ensureUserInputTool make a map if there is none).
OwnTools ==
  \A c \in Clients : Started(c) => \A n \in DOMAIN reg[c] :
    LET ref == reg[c][n]
        by == CallTool(Serving(c)[ref[1]], ref[2])
    IN  /\ ref[1] \in DOMAIN Serving(c)
        /\ Given(c, "WithMCPServers") = {} => by \in {c, "remote"}
        /\ ref[1] # Sdk => by \in {"caller", "remote"}

\* A call reaches only a tool the client shows, and only under its own name or
\* under one that differs from it in runs of underscores and from no other
\* shown name (Registry.Get, ResolveName).
RunsWhatWasMeant ==
  last # None =>
    LET shown == DOMAIN reg[last.client]
        name == NameOf(last.ref)
        alike == {n \in shown : collapseUnderscores[n] = collapseUnderscores[last.said]}
    IN  /\ name \in shown /\ ~Excluded(last.client, name)
        /\ last.said = name \/ alike = {name}
=============================================================================
